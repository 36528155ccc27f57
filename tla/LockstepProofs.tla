--------------------------- MODULE LockstepProofs ---------------------------
(***************************************************************************)
(* What Lockstep.tla promises for any worlds, commands, settings, limits   *)
(* and lengths of the queues. The heart of it is a run of what the client  *)
(* has still to hear: played to its end in the referential world, it       *)
(* reaches the world of the server, and every hash on the way is right,    *)
(* unless an update is applied ahead of steps that were queued before it.  *)
(***************************************************************************)
EXTENDS Lockstep, SequenceTheorems, TLAPS

Plus(a, b) == a + b
Sums    == INSTANCE SeqFolds WITH Op <- Plus
Solves  == INSTANCE SeqFolds WITH Op <- Solve
Unpacks == INSTANCE SeqFolds WITH Op <- UnpackStep

-----------------------------------------------------------------------------
(* Types. *)
World   == [arena : Arenas, joined : BOOLEAN, digest : 0..DigestSpan - 1]
Entropy == [own : Nat, settings : Nat, others : Nat, added : BOOLEAN]
Payload == [own : Nat, others : Nat, added : BOOLEAN]

StepMessage ==
  [type : {"step"}, accepted : Nat, hash : World, reinference_necessary : BOOLEAN, payload : Payload]

ToClient == StepMessage
  \cup [type : {"vars"}, arena : Arenas]
  \cup [type : {"initial"}, world : World]
  \cup [type : {"settings"}, settings : Sensitivities]

ToServer == [type : {"settings"}, settings : Sensitivities]
  \cup [type : {"command"}, motion : Nat]
  \cup [type : {"resync"}]

Server ==
  [state : {"PENDING_WELCOME", "WELCOME_ARRIVED", "RECEIVING_INITIAL_STATE", "IN_GAME"},
   settings : Sensitivities, rebroadcast : BOOLEAN, pending_entropies : Seq(Nat),
   resyncs_counter : Nat, reinference_necessary : BOOLEAN, world : World]

Client ==
  [state : {"INITIATING_CONNECTION", "PENDING_WELCOME", "RECEIVING_INITIAL_STATE", "IN_GAME"},
   settings : Sensitivities, own_settings : Sensitivities, sv_arena : Arenas,
   referential : World, predicted : World, incoming : Seq(StepMessage),
   predicted_entropies : Seq(Entropy), schedule_reprediction : BOOLEAN,
   pending_request : BOOLEAN, now_resyncing : BOOLEAN]

History == [overtaken : BOOLEAN, behind : BOOLEAN, forgotten : Nat]

TypeOK ==
  /\ server \in Server
  /\ client \in Client
  /\ to_client \in Seq(ToClient)
  /\ to_server \in Seq(ToServer)
  /\ history \in History

-----------------------------------------------------------------------------
(* Sums over sequences. *)

(* A sum over a sequence is the fold of SeqFolds, whose laws then hold of  *)
(* it.                                                                     *)
LEMMA TotalIsFold == \A amounts : Total(amounts) = Sums!Fold(0, amounts)
BY DEF Total, Plus, Sums!Fold, Sums!FoldLeft, Sums!MapThenFoldSet, Sums!Max,
       FoldLeft, MapThenFoldSet, Max

(* Two channels read one after the other weigh what both weigh.            *)
LEMMA TotalConcat ==
  ASSUME NEW s \in Seq(Nat), NEW t \in Seq(Nat)
  PROVE  Total(s) \in Nat /\ Total(s \o t) = Total(s) + Total(t)
<1>1. \A x, y \in Nat : Plus(x, y) \in Nat
  BY DEF Plus
<1>2. Total(s) \in Nat /\ Total(t) \in Nat
  BY <1>1, TotalIsFold, Sums!FoldClosed
<1>3. Total(s \o t) = Sums!Fold(Total(s), t)
  BY TotalIsFold, Sums!FoldConcat
<1>. DEFINE R == {<<Total(s) + n, n>> : n \in Nat}
<1>4. <<Sums!Fold(Total(s), t), Sums!Fold(0, t)>> \in R
  <2>1. <<Total(s), 0>> \in R
    BY <1>2
  <2>2. \A x, y : \A e \in Nat : <<x, y>> \in R => <<Plus(x, e), Plus(y, e)>> \in R
    BY <1>2 DEF Plus
  <2>. HIDE DEF R
  <2>. QED  BY <2>1, <2>2, Sums!FoldRelates
<1>. QED  BY <1>2, <1>3, <1>4, TotalIsFold

(* The sums of no amount and of a single one.                              *)
LEMMA TotalSmall ==
  /\ Total(<<>>) = 0
  /\ \A n \in Nat : Total(<<n>>) = n
<1>1. Total(<<>>) = 0
  BY TotalIsFold, Sums!FoldEmpty
<1>2. ASSUME NEW n \in Nat PROVE Total(<<n>>) = n
  BY TotalIsFold, Sums!FoldSingle DEF Plus
<1>. QED  BY <1>1, <1>2

(* Nothing but zeros sums up to zero.                                      *)
LEMMA TotalNothing ==
  ASSUME NEW s \in Seq({0})
  PROVE  Total(s) = 0
<1>1. \A x, y \in {0} : Plus(x, y) \in {0}
  BY DEF Plus
<1>2. Total(s) \in {0}
  BY <1>1, TotalIsFold, Sums!FoldClosed
<1>. QED  BY <1>2

(* What the messages of a channel weigh, by a weight of each. *)
Weigh(w, s) == Total([i \in DOMAIN s |-> w[s[i]]])

(* The weight of what is queued is that of its parts: messages joined to   *)
(* a channel add their own.                                                *)
LEMMA WeighConcat ==
  ASSUME NEW M, NEW w \in [M -> Nat], NEW s \in Seq(M), NEW t \in Seq(M)
  PROVE  Weigh(w, s) \in Nat /\ Weigh(w, s \o t) = Weigh(w, s) + Weigh(w, t)
<1>. DEFINE W(u) == [i \in DOMAIN u |-> w[u[i]]]
<1>1. ASSUME NEW u \in Seq(M) PROVE W(u) \in Seq(Nat) /\ Len(W(u)) = Len(u)
  OBVIOUS
<1>2. W(s \o t) = W(s) \o W(t)
  <2>1. /\ Len(W(s \o t)) = Len(s) + Len(t)
        /\ Len(W(s) \o W(t)) = Len(s) + Len(t)
        /\ W(s \o t) \in Seq(Nat) /\ W(s) \o W(t) \in Seq(Nat)
    <3>1. s \o t \in Seq(M) /\ Len(s \o t) = Len(s) + Len(t)
      OBVIOUS
    <3>. HIDE DEF W
    <3>2. W(s) \in Seq(Nat) /\ W(t) \in Seq(Nat) /\ Len(W(s)) = Len(s) /\ Len(W(t)) = Len(t)
      BY <1>1
    <3>3. W(s \o t) \in Seq(Nat) /\ Len(W(s \o t)) = Len(s) + Len(t)
      BY <1>1, <3>1
    <3>4. ASSUME NEW a \in Seq(Nat), NEW b \in Seq(Nat)
          PROVE  a \o b \in Seq(Nat) /\ Len(a \o b) = Len(a) + Len(b)
      BY ConcatProperties
    <3>5. W(s) \o W(t) \in Seq(Nat) /\ Len(W(s) \o W(t)) = Len(W(s)) + Len(W(t))
      BY <3>2, <3>4
    <3>. QED  BY <3>2, <3>3, <3>5
  <2>2. ASSUME NEW i \in 1..Len(s) + Len(t) PROVE W(s \o t)[i] = (W(s) \o W(t))[i]
    <3>1. CASE i <= Len(s)
      <4>1. W(s \o t)[i] = w[s[i]]
        BY <3>1
      <4>2. W(s)[i] = w[s[i]]
        BY <3>1
      <4>. HIDE DEF W
      <4>. QED  BY <1>1, <3>1, <4>1, <4>2
    <3>2. CASE i > Len(s)
      <4>1. W(s \o t)[i] = w[t[i - Len(s)]]
        BY <3>2
      <4>2. W(t)[i - Len(s)] = w[t[i - Len(s)]]
        BY <3>2
      <4>. HIDE DEF W
      <4>. QED  BY <1>1, <3>2, <4>1, <4>2
    <3>. QED  BY <3>1, <3>2
  <2>. HIDE DEF W
  <2>. QED  BY <2>1, <2>2, SeqEqual
<1>3. W(s) \in Seq(Nat) /\ W(t) \in Seq(Nat)
  BY <1>1
<1>4. \A u : Weigh(w, u) = Total(W(u))
  BY DEF Weigh
<1>. HIDE DEF W
<1>. QED  BY <1>2, <1>3, <1>4, TotalConcat

(* An empty channel weighs nothing, a channel of one message what it       *)
(* weighs.                                                                 *)
LEMMA WeighSmall ==
  ASSUME NEW M, NEW w \in [M -> Nat]
  PROVE  Weigh(w, <<>>) = 0 /\ \A m \in M : Weigh(w, <<m>>) = w[m]
<1>1. [i \in DOMAIN <<>> |-> w[<<>>[i]]] = <<>>
  OBVIOUS
<1>2. \A m \in M : [i \in DOMAIN <<m>> |-> w[<<m>>[i]]] = <<w[m]>>
  OBVIOUS
<1>. QED  BY <1>1, <1>2, TotalSmall DEF Weigh

(* A message sent adds its weight to the channel's.                        *)
LEMMA WeighAppend ==
  ASSUME NEW M, NEW w \in [M -> Nat], NEW s \in Seq(M), NEW m \in M
  PROVE  Weigh(w, Append(s, m)) = Weigh(w, s) + w[m]
<1>1. Append(s, m) = s \o <<m>> /\ <<m>> \in Seq(M)
  BY AppendIsConcat
<1>2. Weigh(w, s \o <<m>>) = Weigh(w, s) + Weigh(w, <<m>>)
  BY <1>1, WeighConcat
<1>. QED  BY <1>1, <1>2, WeighSmall

(* A message received takes its weight off the channel.                    *)
LEMMA WeighTail ==
  ASSUME NEW M, NEW w \in [M -> Nat], NEW s \in Seq(M), s # <<>>
  PROVE  Weigh(w, s) = w[Head(s)] + Weigh(w, Tail(s)) /\ Weigh(w, Tail(s)) \in Nat
<1>1. s = <<Head(s)>> \o Tail(s) /\ <<Head(s)>> \in Seq(M) /\ Head(s) \in M /\ Tail(s) \in Seq(M)
  BY HeadTailProperties
<1>2. Weigh(w, <<Head(s)>> \o Tail(s)) = Weigh(w, <<Head(s)>>) + Weigh(w, Tail(s))
  BY <1>1, WeighConcat
<1>. QED  BY <1>1, <1>2, WeighSmall, WeighConcat

(* A channel of messages that do not count weighs nothing.                 *)
LEMMA WeighNothing ==
  ASSUME NEW M, NEW w \in [M -> Nat], NEW s \in Seq(M), \A i \in DOMAIN s : w[s[i]] = 0
  PROVE  Weigh(w, s) = 0
<1>1. [i \in DOMAIN s |-> w[s[i]]] \in Seq({0})
  OBVIOUS
<1>. QED  BY <1>1, TotalNothing DEF Weigh

IsInitial(message) == message.type = "initial"

Commands == [m \in ToServer |-> IF IsCommand(m) THEN 1 ELSE 0]
Requests == [m \in ToServer |-> IF m.type = "resync" THEN 1 ELSE 0]
States   == [m \in ToClient |-> IF IsInitial(m) THEN 1 ELSE 0]
Accepted == [m \in ToClient |-> IF IsStep(m) THEN m.accepted ELSE 0]

(* The weights are total, and count the commands, the states and the       *)
(* steps' num_entropies_accepted just as the model's own operators do.     *)
LEMMA WeightsAre ==
  /\ Commands \in [ToServer -> Nat] /\ Requests \in [ToServer -> Nat]
  /\ States \in [ToClient -> Nat] /\ Accepted \in [ToClient -> Nat]
  /\ \A s \in Seq(ToServer) : Number(s, IsCommand) = Weigh(Commands, s)
  /\ \A s \in Seq(ToClient) : Number(s, IsInitial) = Weigh(States, s)
  /\ \A s \in Seq(ToClient) : AcceptedIn(s) = Weigh(Accepted, s)
<1>1. /\ Commands \in [ToServer -> Nat] /\ Requests \in [ToServer -> Nat]
      /\ States \in [ToClient -> Nat]
  BY DEF Commands, Requests, States
<1>2. Accepted \in [ToClient -> Nat]
  <2>1. ASSUME NEW m \in ToClient PROVE (IF IsStep(m) THEN m.accepted ELSE 0) \in Nat
    BY DEF ToClient, StepMessage, IsStep
  <2>. QED  BY <2>1 DEF Accepted
<1>3. ASSUME NEW s \in Seq(ToServer) PROVE Number(s, IsCommand) = Weigh(Commands, s)
  <2>1. [i \in DOMAIN s |-> IF IsCommand(s[i]) THEN 1 ELSE 0] = [i \in DOMAIN s |-> Commands[s[i]]]
    BY DEF Commands
  <2>. QED  BY <2>1 DEF Number, Weigh
<1>4. ASSUME NEW s \in Seq(ToClient) PROVE Number(s, IsInitial) = Weigh(States, s)
  <2>1. [i \in DOMAIN s |-> IF IsInitial(s[i]) THEN 1 ELSE 0] = [i \in DOMAIN s |-> States[s[i]]]
    BY DEF States
  <2>. QED  BY <2>1 DEF Number, Weigh
<1>5. ASSUME NEW s \in Seq(ToClient) PROVE AcceptedIn(s) = Weigh(Accepted, s)
  <2>1. [i \in DOMAIN s |-> IF IsStep(s[i]) THEN s[i].accepted ELSE 0] = [i \in DOMAIN s |-> Accepted[s[i]]]
    BY DEF Accepted
  <2>. QED  BY <2>1 DEF AcceptedIn, Weigh
<1>. QED  BY <1>1, <1>2, <1>3, <1>4, <1>5

-----------------------------------------------------------------------------
(* Worlds. *)

(* A state hash, a freshly chosen arena and an unpacked entropy are of     *)
(* their types.                                                            *)
LEMMA WorldsStay ==
  /\ \A w \in World : Hash(w) \in World
  /\ \A arena \in Arenas, joined \in BOOLEAN : Fresh(arena, joined) \in World
  /\ \A p \in Payload, joined \in BOOLEAN, settings \in Sensitivities :
        Unpacked(p, joined, settings) \in Entropy
<1>1. \A w \in World : Hash(w) \in World
  BY DEF World, Hash
<1>2. \A arena \in Arenas, joined \in BOOLEAN : Fresh(arena, joined) \in World
  BY LockstepAssumption DEF World, Fresh
<1>3. \A p \in Payload, joined \in BOOLEAN, settings \in Sensitivities :
        Unpacked(p, joined, settings) \in Entropy
  BY LockstepAssumption DEF Unpacked, Payload, Entropy
<1>. QED  BY <1>1, <1>2, <1>3

(* server_setup::advance and the client's solve leave a world.             *)
LEMMA SolvedWorld ==
  ASSUME NEW w \in World, NEW entropy \in Entropy
  PROVE  Solve(w, entropy) \in World
<1>. DEFINE effect == entropy.own * entropy.settings
            digest == (2 * w.digest + 1 + effect + entropy.others) % DigestSpan
            joined == w.joined \/ entropy.added
<1>1. effect \in Nat
  <2>1. \A a, b \in Nat : a * b \in Nat
    OBVIOUS
  <2>. QED  BY <2>1 DEF Entropy
<1>2. w.digest \in Nat /\ entropy.others \in Nat /\ joined \in BOOLEAN
  BY DEF World, Entropy
<1>3. \A n \in Nat : n % DigestSpan \in 0..DigestSpan - 1
  BY LockstepAssumption
<1>. HIDE DEF effect
<1>4. digest \in 0..DigestSpan - 1
  BY <1>1, <1>2, <1>3
<1>5. Solve(w, entropy) = [w EXCEPT !.joined = joined, !.digest = digest]
  BY DEF Solve, effect
<1>. HIDE DEF digest, joined
<1>. QED  BY <1>2, <1>4, <1>5 DEF World

(* Playing the predictions on top of a world is a fold of Solve.           *)
LEMMA SolveAllIsFold == \A w, s : SolveAll(w, s) = Solves!Fold(w, s)
BY DEF SolveAll, Solves!Fold, Solves!FoldLeft, Solves!MapThenFoldSet, Solves!Max,
       FoldLeft, MapThenFoldSet, Max

(* Repredicting leaves a world.                                            *)
LEMMA SolvedAll ==
  ASSUME NEW w \in World, NEW s \in Seq(Entropy)
  PROVE  SolveAll(w, s) \in World
BY SolvedWorld, SolveAllIsFold, Solves!FoldClosed

-----------------------------------------------------------------------------
(* What the server sends. *)

(* advance_clients_state never accepts more commands than wait.            *)
LEMMA AcceptsWithin ==
  ASSUME server.pending_entropies \in Seq(Nat)
  PROVE  Accepts \in 0..Len(server.pending_entropies)
BY LockstepAssumption DEF Accepts

(* What send_server_step_entropies writes: how many commands it accepted,  *)
(* the hash of the world before the step, and the payload.                 *)
LEMMA StepIsMessage ==
  ASSUME TypeOK, NEW payload \in Payload
  PROVE  /\ Step(payload) \in StepMessage
         /\ Step(payload).accepted = Accepts
         /\ Step(payload).hash = Hash(server.world)
         /\ Step(payload).payload = payload
BY AcceptsWithin, WorldsStay DEF TypeOK, Server, Step, StepMessage

(* What the client makes of the steps it has got. *)
Result == [referential : World, accepted : Nat, desync : BOOLEAN, repredict : BOOLEAN]
Untouched == [referential |-> client.referential, accepted |-> 0, desync |-> FALSE,
              repredict |-> client.schedule_reprediction /\ client.predicted_entropies # <<>>]

(* Unpacking the incoming steps is a fold of the unpacking of one.         *)
LEMMA UnpackIsFold == UnpackDeterministicSteps = Unpacks!Fold(Untouched, client.incoming)
BY DEF UnpackDeterministicSteps, Untouched, Unpacks!Fold, Unpacks!FoldLeft,
       Unpacks!MapThenFoldSet, Unpacks!Max, FoldLeft, MapThenFoldSet, Max

(* One unpacked step leaves a result of the loop of                        *)
(* unpack_deterministic_steps.                                             *)
LEMMA UnpackedResult ==
  ASSUME TypeOK, NEW result \in Result, NEW message \in StepMessage
  PROVE  UnpackStep(result, message) \in Result
<1>. DEFINE entropy == Unpacked(message.payload, result.referential.joined, client.own_settings)
<1>1. entropy \in Entropy
  BY WorldsStay DEF TypeOK, Client, Result, World, StepMessage
<1>2. Solve(result.referential, entropy) \in World
  BY <1>1, SolvedWorld DEF Result
<1>. QED  BY <1>2 DEF UnpackStep, Result, StepMessage, Payload

(* So do all of them.                                                      *)
LEMMA ResultIsResult ==
  ASSUME TypeOK
  PROVE  UnpackDeterministicSteps \in Result
<1>1. Untouched \in Result
  BY DEF Untouched, Result, TypeOK, Client
<1>2. client.incoming \in Seq(StepMessage)
  BY DEF TypeOK, Client
<1>3. \A result \in Result, message \in StepMessage : UnpackStep(result, message) \in Result
  BY UnpackedResult
<1>. QED  BY <1>1, <1>2, <1>3, UnpackIsFold, Unpacks!FoldClosed

-----------------------------------------------------------------------------
(* Types are kept.                                                         *)
LEMMA ServerKeepsTypes ==
  ASSUME TypeOK,
         \/ ServerHandlesSettings \/ ServerHandlesCommand \/ ServerHandlesResync
         \/ \E arena \in Arenas : ServerAppliesSolvableVars(arena)
  PROVE  TypeOK'
<1>. USE DEF TypeOK
<1>0. to_server # <<>> => Head(to_server) \in ToServer /\ Tail(to_server) \in Seq(ToServer)
  OBVIOUS
<1>1. CASE ServerHandlesSettings
  <2>1. Head(to_server).settings \in Sensitivities
    BY <1>0, <1>1 DEF ServerHandlesSettings, ServerTakes, ToServer, StepMessage
  <2>2. server' \in Server
    BY <1>1, <2>1 DEF ServerHandlesSettings, Server
  <2>. QED  BY <1>0, <1>1, <2>2 DEF ServerHandlesSettings, ServerTakes
<1>2. CASE ServerHandlesCommand
  <2>1. Head(to_server).motion \in Nat
    BY <1>0, <1>2 DEF ServerHandlesCommand, ServerTakes, ToServer
  <2>2. Append(server.pending_entropies, Head(to_server).motion) \in Seq(Nat)
    BY <2>1 DEF Server
  <2>3. server' \in Server
    BY <1>2, <2>2 DEF ServerHandlesCommand, Server
  <2>. QED  BY <1>0, <1>2, <2>3 DEF ServerHandlesCommand, ServerTakes
<1>3. CASE ServerHandlesResync
  <2>1. InitialState(server.world) \in ToClient
    BY DEF InitialState, ToClient, Server
  <2>2. PICK counter \in {1, server.resyncs_counter + 1} :
          IF TooManyResyncs(counter)
          THEN UNCHANGED <<server, to_client>>
          ELSE /\ server' = [server EXCEPT !.resyncs_counter = counter,
                                           !.reinference_necessary = TRUE]
               /\ to_client' = Append(to_client, InitialState(server.world))
    BY <1>3 DEF ServerHandlesResync
  <2>3. counter \in Nat
    BY DEF Server
  <2>4. server' \in Server
    BY <2>2, <2>3 DEF Server
  <2>5. to_client' \in Seq(ToClient)
    BY <2>1, <2>2
  <2>. QED  BY <1>0, <1>3, <2>4, <2>5 DEF ServerHandlesResync, ServerTakes
<1>4. ASSUME NEW arena \in Arenas, ServerAppliesSolvableVars(arena) PROVE TypeOK'
  <2>1. Vars(arena) \in ToClient
    BY DEF Vars, ToClient
  <2>2. Fresh(arena, server.world.joined) \in World
    BY WorldsStay DEF World, Server
  <2>3. server' = [server EXCEPT !.world = Fresh(arena, server.world.joined)]
    BY <1>4 DEF ServerAppliesSolvableVars
  <2>4. server' \in Server
    BY <2>2, <2>3 DEF Server
  <2>5. to_client' \in Seq(ToClient)
    BY <1>4, <2>1 DEF ServerAppliesSolvableVars
  <2>. QED  BY <1>4, <2>4, <2>5 DEF ServerAppliesSolvableVars
<1>. QED  BY <1>1, <1>2, <1>3, <1>4

(* What a tick of the server sends, and what it solves. *)
Joining == server.state # "PENDING_WELCOME" /\ ~server.world.joined
First   == Joining /\ server.state = "WELCOME_ARRIVED"
State   == IF First THEN "RECEIVING_INITIAL_STATE" ELSE server.state
Taken(others) ==
  [own |-> Total(SubSeq(server.pending_entropies, 1, Accepts)), others |-> others, added |-> Joining]
Welcome == <<Vars(server.world.arena), InitialState(server.world), Settings(server.settings)>>
SentFirst        == IF First THEN Welcome ELSE <<>>
SentSettings     == IF server.rebroadcast THEN <<Settings(server.settings)>> ELSE <<>>
SentStep(others) == IF Receives(State) THEN <<Step(Taken(others))>> ELSE <<>>
Sent(others)     == SentFirst \o SentSettings \o SentStep(others)
Solved(others) == Solve(server.world, Unpacked(Taken(others), server.world.joined, server.settings))

(* A tick of the server: what it sends, in which order, and what it        *)
(* leaves waiting.                                                         *)
LEMMA ServerTicks ==
  ASSUME TypeOK, NEW others \in Others, ServerTick(others)
  PROVE  /\ Taken(others) \in Payload /\ Step(Taken(others)) \in StepMessage
         /\ Solved(others) \in World
         /\ SentFirst \in Seq(ToClient) /\ SentSettings \in Seq(ToClient)
         /\ SentStep(others) \in Seq(ToClient) /\ Sent(others) \in Seq(ToClient)
         /\ to_client' = to_client \o SentFirst \o SentSettings \o SentStep(others)
         /\ to_client' = to_client \o Sent(others)
         /\ server' = [server EXCEPT
              !.state = State, !.rebroadcast = FALSE,
              !.pending_entropies = SubSeq(server.pending_entropies, Accepts + 1, Len(server.pending_entropies)),
              !.reinference_necessary = FALSE, !.world = Solved(others)]
         /\ TypeOK'
         /\ UNCHANGED <<client, to_server, link, history>>
<1>0. /\ server.pending_entropies \in Seq(Nat) /\ server.world \in World
      /\ server.settings \in Sensitivities /\ Joining \in BOOLEAN
      /\ server.world.joined \in BOOLEAN /\ server.world.arena \in Arenas
  BY DEF TypeOK, Server, Joining, World
<1>1. Taken(others) \in Payload
  <2>1. SubSeq(server.pending_entropies, 1, Accepts) \in Seq(Nat)
    BY <1>0, AcceptsWithin, SubSeqProperties
  <2>2. Total(SubSeq(server.pending_entropies, 1, Accepts)) \in Nat
    BY <2>1, TotalConcat
  <2>. QED  BY <1>0, <2>2, LockstepAssumption DEF Taken, Payload
<1>2. Step(Taken(others)) \in StepMessage
  BY <1>1, StepIsMessage
<1>3. Solved(others) \in World
  BY <1>0, <1>1, WorldsStay, SolvedWorld DEF Solved
<1>4. SentFirst \in Seq(ToClient) /\ SentSettings \in Seq(ToClient) /\ SentStep(others) \in Seq(ToClient)
  <2>1. /\ Vars(server.world.arena) \in ToClient /\ InitialState(server.world) \in ToClient
        /\ Settings(server.settings) \in ToClient /\ Step(Taken(others)) \in ToClient
    BY <1>0, <1>2 DEF Vars, InitialState, Settings, ToClient
  <2>2. \A a, b, c \in ToClient : <<a, b, c>> \in Seq(ToClient) /\ <<a>> \in Seq(ToClient)
    OBVIOUS
  <2>. QED  BY <2>1, <2>2 DEF Welcome, SentFirst, SentSettings, SentStep
<1>5. /\ Sent(others) \in Seq(ToClient) /\ to_client' = to_client \o Sent(others)
      /\ to_client' = to_client \o SentFirst \o SentSettings \o SentStep(others)
  <2>1. to_client' = to_client \o SentFirst \o SentSettings \o SentStep(others)
    BY DEF ServerTick, First, Joining, State, Taken, Welcome, SentFirst, SentSettings, SentStep
  <2>2. Sent(others) = SentFirst \o SentSettings \o SentStep(others)
    BY DEF Sent
  <2>3. ASSUME NEW a \in Seq(ToClient), NEW b \in Seq(ToClient) PROVE a \o b \in Seq(ToClient)
    BY ConcatProperties
  <2>4. ASSUME NEW a \in Seq(ToClient), NEW b \in Seq(ToClient), NEW c \in Seq(ToClient)
        PROVE  (a \o b) \o c = a \o (b \o c)
    BY ConcatAssociative
  <2>5. to_client \in Seq(ToClient)
    BY DEF TypeOK
  <2>6. SentFirst \o SentSettings \o SentStep(others) \in Seq(ToClient)
    <3>1. SentFirst \o SentSettings \in Seq(ToClient)
      BY <1>4, <2>3
    <3>. QED  BY <1>4, <2>3, <3>1
  <2>7. to_client \o SentFirst \o SentSettings \o SentStep(others)
          = to_client \o (SentFirst \o SentSettings \o SentStep(others))
    <3>1. to_client \o SentFirst \o SentSettings = to_client \o (SentFirst \o SentSettings)
      BY <1>4, <2>4, <2>5
    <3>2. SentFirst \o SentSettings \in Seq(ToClient)
      BY <1>4, <2>3
    <3>3. (to_client \o (SentFirst \o SentSettings)) \o SentStep(others)
            = to_client \o ((SentFirst \o SentSettings) \o SentStep(others))
      BY <1>4, <2>4, <2>5, <3>2
    <3>. QED  BY <3>1, <3>3
  <2>. QED  BY <2>1, <2>2, <2>6, <2>7
<1>6. server' = [server EXCEPT
              !.state = State, !.rebroadcast = FALSE,
              !.pending_entropies = SubSeq(server.pending_entropies, Accepts + 1, Len(server.pending_entropies)),
              !.reinference_necessary = FALSE, !.world = Solved(others)]
  BY DEF ServerTick, State, First, Joining, Solved, Taken, TypeOK, Server
<1>7. UNCHANGED <<client, to_server, link, history>>
  BY DEF ServerTick
<1>8. TypeOK'
  <2>1. SubSeq(server.pending_entropies, Accepts + 1, Len(server.pending_entropies)) \in Seq(Nat)
    BY <1>0, AcceptsWithin, SubSeqProperties
  <2>2. State \in {"PENDING_WELCOME", "WELCOME_ARRIVED", "RECEIVING_INITIAL_STATE", "IN_GAME"}
    BY DEF State, TypeOK, Server
  <2>3. to_client \o Sent(others) \in Seq(ToClient)
    <3>1. to_client \in Seq(ToClient)
      BY DEF TypeOK
    <3>. QED  BY <1>5, <3>1, ConcatProperties
  <2>. HIDE DEF State
  <2>4. server' \in Server
    BY <1>3, <1>6, <2>1, <2>2 DEF TypeOK, Server
  <2>. QED  BY <1>5, <1>7, <2>3, <2>4 DEF TypeOK
<1>. QED  BY <1>1, <1>2, <1>3, <1>4, <1>5, <1>6, <1>7, <1>8

(* What a handler of the client takes off its channel.                     *)
LEMMA ClientHears ==
  ASSUME TypeOK, NEW type, ClientTakes(type)
  PROVE  /\ to_client # <<>> /\ Head(to_client) \in ToClient /\ Head(to_client).type = type
         /\ to_client' = Tail(to_client) /\ Tail(to_client) \in Seq(ToClient)
         /\ to_client = <<Head(to_client)>> \o Tail(to_client)
BY HeadTailProperties DEF TypeOK, ClientTakes

(* A handler of the client keeps the types.                                *)
LEMMA ClientKeepsTypes ==
  ASSUME TypeOK,
         ClientHandlesVars \/ ClientHandlesInitialState \/ ClientHandlesSettings \/ ClientHandlesStep
  PROVE  TypeOK'
<1>. DEFINE m == Head(to_client)
<1>1. CASE ClientHandlesVars
  <2>1. m.arena \in Arenas /\ to_client' \in Seq(ToClient)
    BY <1>1, ClientHears DEF ClientHandlesVars, ToClient, StepMessage
  <2>2. Fresh(m.arena, client.referential.joined) \in World
    BY <2>1, WorldsStay DEF TypeOK, Client, World
  <2>3. client' \in Client
    BY <1>1, <2>1, <2>2 DEF ClientHandlesVars, TypeOK, Client
  <2>4. history' \in History
    <3>1. /\ (history.overtaken \/ ~(client.state = "PENDING_WELCOME" \/ m.arena # client.sv_arena)
                \/ client.incoming # <<>>) \in BOOLEAN
          /\ (client.predicted_entropies # <<>>) \in BOOLEAN
      OBVIOUS
    <3>. QED  BY <1>1, <3>1 DEF ClientHandlesVars, TypeOK, History
  <2>. QED  BY <1>1, <2>1, <2>3, <2>4 DEF ClientHandlesVars, TypeOK
<1>2. CASE ClientHandlesInitialState
  <2>1. m.world \in World /\ to_client' \in Seq(ToClient)
    <3>1. ClientTakes("initial")
      BY <1>2 DEF ClientHandlesInitialState
    <3>2. m \in ToClient /\ m.type = "initial" /\ to_client' \in Seq(ToClient)
      BY <3>1, ClientHears
    <3>. QED  BY <3>2 DEF ToClient, StepMessage
  <2>2. client' \in Client
    <3>1. (client.schedule_reprediction \/ client.now_resyncing) \in BOOLEAN
      OBVIOUS
    <3>2. <<>> \in Seq(StepMessage)
      OBVIOUS
    <3>. QED  BY <1>2, <2>1, <3>1, <3>2, ZenonT(40) DEF ClientHandlesInitialState, TypeOK, Client
  <2>3. Total([i \in DOMAIN client.incoming |-> client.incoming[i].accepted]) \in Nat
    <3>1. client.incoming \in Seq(StepMessage)
      BY DEF TypeOK, Client
    <3>2. [i \in DOMAIN client.incoming |-> client.incoming[i].accepted] \in Seq(Nat)
      <4>1. \A i \in DOMAIN client.incoming : client.incoming[i].accepted \in Nat
        <5>1. \A i \in DOMAIN client.incoming : client.incoming[i] \in StepMessage
          BY <3>1
        <5>. QED  BY <5>1 DEF StepMessage
      <4>. QED  BY <3>1, <4>1
    <3>. QED  BY <3>2, TotalConcat
  <2>4. history' \in History
    <3>. DEFINE lost == Total([i \in DOMAIN client.incoming |-> client.incoming[i].accepted])
    <3>1. \/ history' = [overtaken |-> FALSE, behind |-> FALSE, forgotten |-> history.forgotten + lost]
          \/ history' = history
      BY <1>2 DEF ClientHandlesInitialState
    <3>2. lost \in Nat
      BY <2>3
    <3>3. history.forgotten \in Nat
      BY DEF TypeOK, History
    <3>. HIDE DEF lost
    <3>4. history.forgotten + lost \in Nat
      BY <3>2, <3>3
    <3>5. [overtaken |-> FALSE, behind |-> FALSE, forgotten |-> history.forgotten + lost] \in History
      BY <3>4 DEF History
    <3>. QED  BY <3>1, <3>5 DEF TypeOK
  <2>. QED  BY <1>2, <2>1, <2>2, <2>4 DEF ClientHandlesInitialState, TypeOK
<1>3. CASE ClientHandlesSettings
  <2>1. m.settings \in Sensitivities /\ to_client' \in Seq(ToClient)
    BY <1>3, ClientHears, SMTT(20) DEF ClientHandlesSettings, ToClient, StepMessage
  <2>2. client' \in Client
    BY <1>3, <2>1 DEF ClientHandlesSettings, TypeOK, Client
  <2>3. history' \in History
    <3>1. (history.overtaken \/ (m.settings # client.own_settings /\ client.incoming # <<>>)) \in BOOLEAN
      OBVIOUS
    <3>. QED  BY <1>3, <3>1 DEF ClientHandlesSettings, TypeOK, History
  <2>. QED  BY <1>3, <2>1, <2>2, <2>3 DEF ClientHandlesSettings, TypeOK
<1>4. CASE ClientHandlesStep
  <2>1. m \in StepMessage /\ to_client' \in Seq(ToClient)
    <3>1. ClientTakes("step")
      BY <1>4 DEF ClientHandlesStep
    <3>2. m \in ToClient /\ m.type = "step" /\ to_client' \in Seq(ToClient)
      BY <3>1, ClientHears
    <3>. QED  BY <3>2 DEF ToClient
  <2>2. Append(client.incoming, m) \in Seq(StepMessage)
    BY <2>1 DEF TypeOK, Client
  <2>3. client' \in Client
    BY <1>4, <2>2 DEF ClientHandlesStep, TypeOK, Client
  <2>. QED  BY <1>4, <2>1, <2>3 DEF ClientHandlesStep, TypeOK
<1>. QED  BY <1>1, <1>2, <1>3, <1>4

(* What a step of the client unpacks, contributes and predicts. *)
Got           == UnpackDeterministicSteps
Local(motion) == Unpacked([own |-> motion, others |-> 0, added |-> FALSE],
                          client.referential.joined, client.settings)
Rest          == Remaining(Got.accepted)
Current       == IF Got.repredict THEN SolveAll(Got.referential, Rest) ELSE client.predicted
Noticed       == Got.desync /\ ~client.now_resyncing

(* send_pending_commands adds no command of the game and at most one       *)
(* request for the state.                                                  *)
LEMMA SendsMessages ==
  ASSUME TypeOK, NEW settings \in Sensitivities
  PROVE  /\ Sends(settings) \in Seq(ToServer)
         /\ Weigh(Commands, Sends(settings)) = 0
         /\ Weigh(Requests, Sends(settings)) = IF client.pending_request THEN 1 ELSE 0
<1>. DEFINE changed == client.state = "INITIATING_CONNECTION" \/ settings # client.settings
            news    == IF changed THEN <<Settings(settings)>> ELSE <<>>
            asks    == IF client.pending_request THEN <<Resync>> ELSE <<>>
<1>1. Settings(settings) \in ToServer /\ Resync \in ToServer
  BY DEF Settings, Resync, ToServer
<1>2. news \in Seq(ToServer) /\ asks \in Seq(ToServer)
  BY <1>1
<1>3. Weigh(Commands, news) = 0 /\ Weigh(Requests, news) = 0
  <2>1. Commands[Settings(settings)] = 0 /\ Requests[Settings(settings)] = 0
    BY <1>1 DEF Commands, Requests, IsCommand, Settings
  <2>. QED  BY <1>1, <2>1, WeighSmall, WeightsAre
<1>4. Weigh(Commands, asks) = 0 /\ Weigh(Requests, asks) = IF client.pending_request THEN 1 ELSE 0
  <2>1. Commands[Resync] = 0 /\ Requests[Resync] = 1
    BY <1>1 DEF Commands, Requests, IsCommand, Resync
  <2>. QED  BY <1>1, <2>1, WeighSmall, WeightsAre
<1>5. Sends(settings) = news \o asks
  BY DEF Sends
<1>. HIDE DEF news, asks
<1>6. Sends(settings) \in Seq(ToServer)
  BY <1>2, <1>5
<1>7. /\ Weigh(Commands, Sends(settings)) = Weigh(Commands, news) + Weigh(Commands, asks)
      /\ Weigh(Requests, Sends(settings)) = Weigh(Requests, news) + Weigh(Requests, asks)
  <2>1. \A w \in [ToServer -> Nat] : Weigh(w, news \o asks) = Weigh(w, news) + Weigh(w, asks)
    BY <1>2, WeighConcat
  <2>. QED  BY <1>5, <2>1, WeightsAre
<1>. QED  BY <1>3, <1>4, <1>6, <1>7

(* A step of the client in game, its fields one by one: the result of      *)
(* unpacking, the predictions left and the new one, and the messages       *)
(* sent.                                                                   *)
LEMMA ClientSteps ==
  ASSUME TypeOK, NEW motion \in Motions, NEW settings \in Sensitivities, ClientStep(motion, settings)
  PROVE  /\ Got \in Result /\ Local(motion) \in Entropy /\ Rest \in Seq(Entropy)
         /\ Command(Local(motion).own) \in ToServer
         /\ to_server' = to_server \o Sends(settings) \o <<Command(Local(motion).own)>>
         /\ client.state = "IN_GAME"
         /\ client' = [client EXCEPT
              !.settings = settings, !.referential = Got.referential, !.incoming = <<>>,
              !.predicted_entropies = Append(Rest, Local(motion)),
              !.predicted = Solve(Current, Local(motion)),
              !.schedule_reprediction = client.schedule_reprediction /\ client.predicted_entropies = <<>>,
              !.pending_request = Noticed,
              !.now_resyncing = client.now_resyncing \/ Noticed]
         /\ link' = IF Got.accepted > Len(client.predicted_entropies) THEN "malicious server"
                    ELSE IF Len(Rest) > MaxPredicted THEN "too many predictions" ELSE link
         /\ history' = [history EXCEPT !.behind = history.behind /\ ~Got.repredict]
         /\ UNCHANGED <<server, to_client>>
         /\ TypeOK'
<1>1. Got \in Result
  BY ResultIsResult DEF Got
<1>2. Local(motion) \in Entropy
  <2>1. [own |-> motion, others |-> 0, added |-> FALSE] \in Payload
    BY LockstepAssumption DEF Payload
  <2>. QED  BY <2>1, WorldsStay DEF Local, TypeOK, Client, World
<1>3. Rest \in Seq(Entropy)
  <2>1. client.predicted_entropies \in Seq(Entropy) /\ Got.accepted \in Nat
    BY <1>1 DEF TypeOK, Client, Result
  <2>. QED  BY <2>1, SubSeqProperties DEF Rest, Remaining
<1>4. Command(Local(motion).own) \in ToServer
  BY <1>2 DEF Command, ToServer, Entropy
<1>5. /\ to_server' = to_server \o Sends(settings) \o <<Command(Local(motion).own)>>
      /\ client.state = "IN_GAME"
      /\ client' = [client EXCEPT
           !.settings = settings, !.referential = Got.referential, !.incoming = <<>>,
           !.predicted_entropies = Append(Rest, Local(motion)),
           !.predicted = Solve(Current, Local(motion)),
           !.schedule_reprediction = client.schedule_reprediction /\ client.predicted_entropies = <<>>,
           !.pending_request = Noticed,
           !.now_resyncing = client.now_resyncing \/ Noticed]
      /\ link' = IF Got.accepted > Len(client.predicted_entropies) THEN "malicious server"
                 ELSE IF Len(Rest) > MaxPredicted THEN "too many predictions" ELSE link
      /\ history' = [history EXCEPT !.behind = history.behind /\ ~Got.repredict]
      /\ UNCHANGED <<server, to_client>>
  BY DEF ClientStep, Got, Local, Rest, Current, Noticed
<1>6. TypeOK'
  <2>1. Current \in World
    BY <1>1, <1>3, SolvedAll DEF Current, Result, TypeOK, Client
  <2>2. Solve(Current, Local(motion)) \in World
    BY <1>2, <2>1, SolvedWorld
  <2>3. Append(Rest, Local(motion)) \in Seq(Entropy) /\ <<>> \in Seq(StepMessage)
    BY <1>2, <1>3
  <2>4. /\ Noticed \in BOOLEAN /\ (client.now_resyncing \/ Noticed) \in BOOLEAN
        /\ (client.schedule_reprediction /\ client.predicted_entropies = <<>>) \in BOOLEAN
    BY DEF Noticed
  <2>5. client' \in Client
    BY <1>1, <1>5, <2>2, <2>3, <2>4 DEF TypeOK, Client, Result
  <2>6. to_server' \in Seq(ToServer)
    <3>1. to_server \o Sends(settings) \in Seq(ToServer)
      BY SendsMessages DEF TypeOK
    <3>2. <<Command(Local(motion).own)>> \in Seq(ToServer)
      BY <1>4
    <3>. QED  BY <1>5, <3>1, <3>2, ConcatProperties
  <2>7. history' \in History
    BY <1>5 DEF TypeOK, History
  <2>. QED  BY <1>5, <2>5, <2>6, <2>7 DEF TypeOK
<1>. QED  BY <1>1, <1>2, <1>3, <1>4, <1>5, <1>6

(* Before the game the client only sends its settings and its requests.    *)
LEMMA StepBeforeGame ==
  ASSUME TypeOK, NEW settings \in Sensitivities, ClientStepBeforeGame(settings)
  PROVE  /\ to_server' = to_server \o Sends(settings) /\ TypeOK'
<1>1. to_server' = to_server \o Sends(settings) /\ to_server' \in Seq(ToServer)
  BY SendsMessages DEF ClientStepBeforeGame, TypeOK
<1>2. client' \in Client
  BY DEF ClientStepBeforeGame, TypeOK, Client
<1>. QED  BY <1>1, <1>2 DEF ClientStepBeforeGame, TypeOK

-----------------------------------------------------------------------------
(* The handshake: what either side may assume of the other when a message  *)
(* of a certain type arrives.                                              *)
(* A state is preceded by the solvable variables, a step by the state.     *)
Prepared(state, messages) ==
  \A i \in DOMAIN messages :
    /\ IsInitial(messages[i]) =>
         \/ state \in {"RECEIVING_INITIAL_STATE", "IN_GAME"}
         \/ state = "PENDING_WELCOME" /\ \E j \in 1..i - 1 : messages[j].type = "vars"
    /\ IsStep(messages[i]) =>
         state = "IN_GAME" \/ \E j \in 1..i - 1 : IsInitial(messages[j])

NotInGame ==
  /\ ~client.pending_request /\ ~client.now_resyncing /\ ~client.schedule_reprediction
  /\ client.predicted_entropies = <<>> /\ client.incoming = <<>>
  /\ \A i \in DOMAIN to_server : to_server[i].type = "settings"
  /\ Weigh(States, to_client) = IF Receives(server.state) THEN 1 ELSE 0

Handshake ==
  /\ client.state = "INITIATING_CONNECTION" => to_server = <<>> /\ server.state = "PENDING_WELCOME"
  /\ client.state # "IN_GAME" => NotInGame
  /\ ~Receives(server.state) => client.state # "IN_GAME"
  /\ Prepared(client.state, to_client)

-----------------------------------------------------------------------------
(* What is conserved, by weights.                                          *)
Account ==
  Len(client.predicted_entropies) =
    Weigh(Commands, to_server) + Len(server.pending_entropies)
      + Weigh(Accepted, to_client) + Weigh(Accepted, client.incoming) + history.forgotten

Handed ==
  (IF client.now_resyncing THEN 1 ELSE 0) =
    (IF client.pending_request THEN 1 ELSE 0) + Weigh(Requests, to_server)
      + (IF client.state = "IN_GAME" THEN Weigh(States, to_client) ELSE 0)

(* The requests under way, counted as AnswerUnderWay does.                 *)
LEMMA ResyncsWeigh ==
  ASSUME NEW s \in Seq(ToServer)
  PROVE  Number(s, LAMBDA message : message.type = "resync") = Weigh(Requests, s)
<1>1. [i \in DOMAIN s |-> IF s[i].type = "resync" THEN 1 ELSE 0] = [i \in DOMAIN s |-> Requests[s[i]]]
  BY DEF Requests
<1>. QED  BY <1>1 DEF Number, Weigh

(* The states under way, counted as AnswerUnderWay does.                   *)
LEMMA StatesWeigh ==
  ASSUME NEW s \in Seq(ToClient), NEW state
  PROVE  Total([i \in DOMAIN s |-> IF s[i].type = "initial" /\ state = "IN_GAME" THEN 1 ELSE 0])
           = IF state = "IN_GAME" THEN Weigh(States, s) ELSE 0
<1>1. CASE state = "IN_GAME"
  <2>1. [i \in DOMAIN s |-> IF s[i].type = "initial" /\ state = "IN_GAME" THEN 1 ELSE 0]
          = [i \in DOMAIN s |-> States[s[i]]]
    BY <1>1 DEF States, IsInitial
  <2>. QED  BY <1>1, <2>1 DEF Weigh
<1>2. CASE state # "IN_GAME"
  <2>1. [i \in DOMAIN s |-> IF s[i].type = "initial" /\ state = "IN_GAME" THEN 1 ELSE 0] \in Seq({0})
    BY <1>2
  <2>. QED  BY <1>2, <2>1, TotalNothing
<1>. QED  BY <1>1, <1>2

(* The two properties that runs check say the same as the two accounts by  *)
(* weights.                                                                *)
LEMMA Weighed ==
  ASSUME TypeOK
  PROVE  /\ CommandsConserved <=> (link = "up" => Account)
         /\ AnswerUnderWay <=> (link = "up" => Handed)
<1>1. client.incoming \in Seq(ToClient) /\ to_client \in Seq(ToClient) /\ to_server \in Seq(ToServer)
  <2>1. client.incoming \in Seq(StepMessage)
    BY DEF TypeOK, Client
  <2>. QED  BY <2>1 DEF TypeOK, ToClient
<1>2. CommandsConserved <=> (link = "up" => Account)
  BY <1>1, WeightsAre DEF CommandsConserved, Account, Unanswered
<1>3. Number(to_server, LAMBDA message : message.type = "resync") = Weigh(Requests, to_server)
  BY <1>1, ResyncsWeigh
<1>4. Number(to_client, LAMBDA message : message.type = "initial" /\ client.state = "IN_GAME")
        = IF client.state = "IN_GAME" THEN Weigh(States, to_client) ELSE 0
  BY <1>1, StatesWeigh DEF Number
<1>. QED  BY <1>2, <1>3, <1>4 DEF AnswerUnderWay, Handed

(* Both sides keep to the protocol and nothing is lost on the way.         *)
Protocol ==
  /\ TypeOK
  /\ Handshake
  /\ link \in {"up", "too many resyncs", "too many predictions"}
  /\ link = "up" => Account /\ Handed

-----------------------------------------------------------------------------
(* Once the client is in game anything may come.                           *)
LEMMA PreparedInGame == \A messages : Prepared("IN_GAME", messages)
BY DEF Prepared

(* A client that handles a message is as prepared for the next ones.       *)
LEMMA PreparedTail ==
  ASSUME NEW messages \in Seq(ToClient), messages # <<>>, NEW state, NEW next,
         Prepared(state, messages), ~IsInitial(Head(messages)),
         next = IF state = "PENDING_WELCOME" /\ Head(messages).type = "vars"
                THEN "RECEIVING_INITIAL_STATE" ELSE state
  PROVE  Prepared(next, Tail(messages))
<1>1. /\ Len(messages) \in Nat /\ Len(messages) >= 1
      /\ DOMAIN Tail(messages) = 1..Len(messages) - 1
      /\ DOMAIN messages = 1..Len(messages)
      /\ \A i \in 1..Len(messages) - 1 : Tail(messages)[i] = messages[i + 1]
      /\ Head(messages) = messages[1]
  OBVIOUS
<1>2. ASSUME NEW i \in 1..Len(messages) - 1, NEW j \in 1..i, j # 1
      PROVE  j - 1 \in 1..i - 1 /\ Tail(messages)[j - 1] = messages[j]
  BY <1>1, <1>2
<1>3. ASSUME NEW i \in 1..Len(messages) - 1, IsInitial(messages[i + 1])
      PROVE  \/ next \in {"RECEIVING_INITIAL_STATE", "IN_GAME"}
             \/ next = "PENDING_WELCOME" /\ \E j \in 1..i - 1 : Tail(messages)[j].type = "vars"
  <2>1. CASE state \in {"RECEIVING_INITIAL_STATE", "IN_GAME"}
    BY <2>1
  <2>2. CASE state = "PENDING_WELCOME" /\ \E j \in 1..i : messages[j].type = "vars"
    <3>1. PICK j \in 1..i : messages[j].type = "vars"
      BY <2>2
    <3>2. CASE j = 1
      BY <1>1, <2>2, <3>1, <3>2
    <3>3. CASE j # 1
      <4>1. j - 1 \in 1..i - 1 /\ Tail(messages)[j - 1].type = "vars"
        BY <1>2, <3>1, <3>3
      <4>. QED  BY <2>2, <4>1
    <3>. QED  BY <3>2, <3>3
  <2>. QED  BY <1>1, <1>3, <2>1, <2>2 DEF Prepared
<1>4. ASSUME NEW i \in 1..Len(messages) - 1, IsStep(messages[i + 1])
      PROVE  next = "IN_GAME" \/ \E j \in 1..i - 1 : IsInitial(Tail(messages)[j])
  <2>1. state = "IN_GAME" \/ \E j \in 1..i : IsInitial(messages[j])
    BY <1>1, <1>4 DEF Prepared
  <2>2. ASSUME NEW j \in 1..i, IsInitial(messages[j])
        PROVE  j - 1 \in 1..i - 1 /\ IsInitial(Tail(messages)[j - 1])
    BY <1>1, <1>2, <2>2
  <2>. QED  BY <2>1, <2>2
<1>. QED  BY <1>1, <1>3, <1>4 DEF Prepared

(* What is sent later may rely on what is on its way.                      *)
LEMMA PreparedMore ==
  ASSUME NEW s \in Seq(ToClient), NEW more \in Seq(ToClient), NEW state, Prepared(state, s),
         \A i \in DOMAIN more :
           /\ IsInitial(more[i]) =>
                \/ state \in {"RECEIVING_INITIAL_STATE", "IN_GAME"}
                \/ state = "PENDING_WELCOME" /\ \E j \in 1..i - 1 : more[j].type = "vars"
           /\ IsStep(more[i]) =>
                \/ state = "IN_GAME"
                \/ \E j \in DOMAIN s : IsInitial(s[j])
                \/ \E j \in 1..i - 1 : IsInitial(more[j])
  PROVE  Prepared(state, s \o more)
<1>1. /\ Len(s) \in Nat /\ Len(more) \in Nat
      /\ DOMAIN s = 1..Len(s) /\ DOMAIN more = 1..Len(more)
      /\ DOMAIN (s \o more) = 1..Len(s) + Len(more)
      /\ \A i \in 1..Len(s) : (s \o more)[i] = s[i]
      /\ \A i \in 1..Len(more) : (s \o more)[Len(s) + i] = more[i]
  OBVIOUS
<1>2. ASSUME NEW i \in 1..Len(s)
      PROVE  /\ IsInitial(s[i]) =>
                  \/ state \in {"RECEIVING_INITIAL_STATE", "IN_GAME"}
                  \/ state = "PENDING_WELCOME" /\ \E j \in 1..i - 1 : (s \o more)[j].type = "vars"
             /\ IsStep(s[i]) =>
                  state = "IN_GAME" \/ \E j \in 1..i - 1 : IsInitial((s \o more)[j])
  <2>1. \A j \in 1..i - 1 : (s \o more)[j] = s[j]
    BY <1>1
  <2>. QED  BY <1>1, <2>1 DEF Prepared
<1>3. ASSUME NEW i \in 1..Len(more)
      PROVE  /\ IsInitial(more[i]) =>
                  \/ state \in {"RECEIVING_INITIAL_STATE", "IN_GAME"}
                  \/ /\ state = "PENDING_WELCOME"
                     /\ \E j \in 1..Len(s) + i - 1 : (s \o more)[j].type = "vars"
             /\ IsStep(more[i]) =>
                  state = "IN_GAME" \/ \E j \in 1..Len(s) + i - 1 : IsInitial((s \o more)[j])
  <2>1. \A j \in 1..i - 1 : Len(s) + j \in 1..Len(s) + i - 1 /\ (s \o more)[Len(s) + j] = more[j]
    BY <1>1
  <2>2. \A j \in 1..Len(s) : j \in 1..Len(s) + i - 1 /\ (s \o more)[j] = s[j]
    BY <1>1
  <2>. QED  BY <1>1, <2>1, <2>2
<1>4. ASSUME NEW k \in 1..Len(s) + Len(more)
      PROVE  /\ IsInitial((s \o more)[k]) =>
                  \/ state \in {"RECEIVING_INITIAL_STATE", "IN_GAME"}
                  \/ state = "PENDING_WELCOME" /\ \E j \in 1..k - 1 : (s \o more)[j].type = "vars"
             /\ IsStep((s \o more)[k]) =>
                  state = "IN_GAME" \/ \E j \in 1..k - 1 : IsInitial((s \o more)[j])
  <2>1. CASE k \in 1..Len(s)
    BY <1>1, <1>2, <2>1
  <2>2. CASE k \notin 1..Len(s)
    <3>1. PICK i \in 1..Len(more) : k = Len(s) + i
      <4>1. k - Len(s) \in 1..Len(more) /\ k = Len(s) + (k - Len(s))
        BY <1>1, <2>2
      <4>. QED  BY <4>1
    <3>. QED  BY <1>1, <1>3, <3>1, SMTT(20)
  <2>. QED  BY <2>1, <2>2
<1>. QED  BY <1>1, <1>4 DEF Prepared

(* A channel that weighs something holds something that weighs.            *)
LEMMA StatesComing ==
  ASSUME NEW s \in Seq(ToClient), Weigh(States, s) # 0
  PROVE  \E i \in DOMAIN s : IsInitial(s[i])
<1>1. ASSUME \A i \in DOMAIN s : ~IsInitial(s[i]) PROVE FALSE
  <2>1. \A i \in DOMAIN s : States[s[i]] = 0
    BY <1>1 DEF States
  <2>. QED  BY <2>1, WeightsAre, WeighNothing
<1>. QED  BY <1>1

(* What the channels and the queue weigh is a number.                      *)
LEMMA Weights ==
  ASSUME TypeOK
  PROVE  /\ client.incoming \in Seq(ToClient) /\ server.pending_entropies \in Seq(Nat)
         /\ client.predicted_entropies \in Seq(Entropy)
         /\ Weigh(Commands, to_server) \in Nat /\ Weigh(Requests, to_server) \in Nat
         /\ Weigh(States, to_client) \in Nat /\ Weigh(Accepted, to_client) \in Nat
         /\ Weigh(Accepted, client.incoming) \in Nat
         /\ history.forgotten \in Nat
<1>1. client.incoming \in Seq(ToClient)
  <2>1. client.incoming \in Seq(StepMessage)
    BY DEF TypeOK, Client
  <2>. QED  BY <2>1 DEF ToClient
<1>2. to_client \in Seq(ToClient) /\ to_server \in Seq(ToServer)
  BY DEF TypeOK
<1>3. /\ server.pending_entropies \in Seq(Nat) /\ client.predicted_entropies \in Seq(Entropy)
      /\ history.forgotten \in Nat
  BY DEF TypeOK, Server, Client, History
<1>. QED  BY <1>1, <1>2, <1>3, WeightsAre, WeighConcat

(* The steps a client has got weigh what they say was accepted.            *)
LEMMA IncomingWeighs ==
  ASSUME TypeOK
  PROVE  /\ Total([i \in DOMAIN client.incoming |-> client.incoming[i].accepted])
              = Weigh(Accepted, client.incoming)
         /\ \A i \in DOMAIN client.incoming :
              client.incoming[i] \in ToClient /\ Accepted[client.incoming[i]] = client.incoming[i].accepted
<1>1. client.incoming \in Seq(StepMessage)
  BY DEF TypeOK, Client
<1>2. \A m \in StepMessage : m \in ToClient /\ Accepted[m] = m.accepted
  BY DEF Accepted, IsStep, ToClient, StepMessage
<1>3. \A i \in DOMAIN client.incoming : client.incoming[i] \in StepMessage
  BY <1>1
<1>4. [i \in DOMAIN client.incoming |-> client.incoming[i].accepted]
        = [i \in DOMAIN client.incoming |-> Accepted[client.incoming[i]]]
  BY <1>2, <1>3
<1>. QED  BY <1>2, <1>3, <1>4 DEF Weigh

(* A message that the server takes no longer weighs in its channel.        *)
LEMMA ServerHears ==
  ASSUME TypeOK, NEW type, ServerTakes(type)
  PROVE  /\ link = "up" /\ to_server # <<>> /\ Head(to_server) \in ToServer
         /\ Head(to_server).type = type /\ to_server[1] = Head(to_server) /\ 1 \in DOMAIN to_server
         /\ to_server' = Tail(to_server) /\ to_server' \in Seq(ToServer)
         /\ type = "command" => Weigh(Commands, to_server) = 1 + Weigh(Commands, to_server')
         /\ type = "resync" => Weigh(Requests, to_server) = 1 + Weigh(Requests, to_server')
         /\ type # "command" => Weigh(Commands, to_server') = Weigh(Commands, to_server)
         /\ type # "resync" => Weigh(Requests, to_server') = Weigh(Requests, to_server)
         /\ Weigh(Commands, to_server') \in Nat /\ Weigh(Requests, to_server') \in Nat
         /\ \A i \in DOMAIN to_server' : \E j \in DOMAIN to_server : to_server'[i] = to_server[j]
<1>1. /\ link = "up" /\ to_server # <<>> /\ Head(to_server).type = type
      /\ to_server' = Tail(to_server) /\ to_server \in Seq(ToServer)
  BY DEF ServerTakes, TypeOK
<1>2. /\ Head(to_server) \in ToServer /\ to_server' \in Seq(ToServer)
      /\ to_server[1] = Head(to_server) /\ 1 \in DOMAIN to_server
  BY <1>1
<1>3. /\ Weigh(Commands, to_server) = Commands[Head(to_server)] + Weigh(Commands, to_server')
      /\ Weigh(Requests, to_server) = Requests[Head(to_server)] + Weigh(Requests, to_server')
      /\ Weigh(Commands, to_server') \in Nat /\ Weigh(Requests, to_server') \in Nat
  <2>1. \A w \in [ToServer -> Nat] :
          Weigh(w, to_server) = w[Head(to_server)] + Weigh(w, Tail(to_server)) /\ Weigh(w, Tail(to_server)) \in Nat
    BY <1>1, WeighTail
  <2>. QED  BY <1>1, <2>1, WeightsAre
<1>4. /\ Commands[Head(to_server)] = IF type = "command" THEN 1 ELSE 0
      /\ Requests[Head(to_server)] = IF type = "resync" THEN 1 ELSE 0
  BY <1>1, <1>2 DEF Commands, Requests, IsCommand
<1>5. ASSUME NEW i \in DOMAIN to_server' PROVE \E j \in DOMAIN to_server : to_server'[i] = to_server[j]
  <2>1. i + 1 \in DOMAIN to_server /\ to_server'[i] = to_server[i + 1]
    BY <1>1, <1>5
  <2>. QED  BY <2>1
<1>. QED  BY <1>1, <1>2, <1>3, <1>4, <1>5

(* A message that the client takes no longer weighs in its channel.        *)
LEMMA ClientTakesOff ==
  ASSUME TypeOK, NEW type, ClientTakes(type)
  PROVE  /\ link = "up"
         /\ type = "initial" => Weigh(States, to_client) = 1 + Weigh(States, to_client')
         /\ type = "step" =>
              Weigh(Accepted, to_client) = Head(to_client).accepted + Weigh(Accepted, to_client')
         /\ type # "initial" => Weigh(States, to_client') = Weigh(States, to_client)
         /\ type # "step" => Weigh(Accepted, to_client') = Weigh(Accepted, to_client)
         /\ Weigh(States, to_client') \in Nat /\ Weigh(Accepted, to_client') \in Nat
<1>1. /\ to_client # <<>> /\ Head(to_client) \in ToClient /\ Head(to_client).type = type
      /\ to_client' = Tail(to_client) /\ to_client \in Seq(ToClient) /\ link = "up"
  BY ClientHears DEF TypeOK, ClientTakes
<1>2. /\ Weigh(States, to_client) = States[Head(to_client)] + Weigh(States, to_client')
      /\ Weigh(Accepted, to_client) = Accepted[Head(to_client)] + Weigh(Accepted, to_client')
      /\ Weigh(States, to_client') \in Nat /\ Weigh(Accepted, to_client') \in Nat
  <2>1. \A w \in [ToClient -> Nat] :
          Weigh(w, to_client) = w[Head(to_client)] + Weigh(w, Tail(to_client)) /\ Weigh(w, Tail(to_client)) \in Nat
    BY <1>1, WeighTail
  <2>. QED  BY <1>1, <2>1, WeightsAre
<1>3. /\ States[Head(to_client)] = IF type = "initial" THEN 1 ELSE 0
      /\ Accepted[Head(to_client)] = IF type = "step" THEN Head(to_client).accepted ELSE 0
  BY <1>1 DEF States, Accepted, IsInitial, IsStep
<1>. QED  BY <1>1, <1>2, <1>3

(* A server that takes the client's settings (and lets a new client        *)
(* proceed to the initial state) keeps the protocol.                       *)
LEMMA ServerHandlesSettingsOrderly ==
  ASSUME Protocol, ServerHandlesSettings
  PROVE  Protocol'
<1>0. TypeOK /\ Handshake /\ (link = "up" => Account /\ Handed)
  BY DEF Protocol
<1>1. ServerTakes("settings")
  BY DEF ServerHandlesSettings
<1>2. TypeOK'
  BY <1>0, ServerKeepsTypes
<1>3. /\ UNCHANGED <<client, to_client, link, history>>
      /\ server'.state = IF server.state = "PENDING_WELCOME" THEN "WELCOME_ARRIVED" ELSE server.state
      /\ server'.pending_entropies = server.pending_entropies
  BY <1>0 DEF ServerHandlesSettings, TypeOK, Server
<1>4. Receives(server'.state) <=> Receives(server.state)
  BY <1>3 DEF Receives
<1>5. /\ Weigh(Commands, to_server') = Weigh(Commands, to_server)
      /\ Weigh(Requests, to_server') = Weigh(Requests, to_server)
  BY <1>0, <1>1, ServerHears
<1>6. Handshake'
  <2>1. client.state # "INITIATING_CONNECTION"
    BY <1>0, <1>1, ServerHears DEF Handshake
  <2>2. client.state # "IN_GAME" => NotInGame'
    BY <1>0, <1>1, <1>3, <1>4, ServerHears DEF Handshake, NotInGame
  <2>. QED  BY <1>0, <1>3, <1>4, <2>1, <2>2 DEF Handshake
<1>7. Account' /\ Handed'
  <2>1. link = "up"
    BY <1>0, <1>1, ServerHears
  <2>. QED  BY <1>0, <1>3, <1>5, <2>1 DEF Account, Handed
<1>. QED  BY <1>2, <1>3, <1>6, <1>7 DEF Protocol

(* A command comes from a client in game only, so the server that queues   *)
(* it is one that sends steps; it moves from the channel to the queue.     *)
LEMMA ServerHandlesCommandOrderly ==
  ASSUME Protocol, ServerHandlesCommand
  PROVE  Protocol'
<1>0. TypeOK /\ Handshake /\ (link = "up" => Account /\ Handed)
  BY DEF Protocol
<1>1. ServerTakes("command")
  BY DEF ServerHandlesCommand
<1>2. TypeOK'
  BY <1>0, ServerKeepsTypes
<1>3. client.state = "IN_GAME" /\ Receives(server.state)
  BY <1>0, <1>1, ServerHears DEF Handshake, NotInGame
<1>4. /\ UNCHANGED <<client, to_client, link, history>>
      /\ server'.state = "IN_GAME"
      /\ server'.pending_entropies = Append(server.pending_entropies, Head(to_server).motion)
  BY <1>0, <1>3 DEF ServerHandlesCommand, TypeOK, Server
<1>5. Len(server'.pending_entropies) = Len(server.pending_entropies) + 1
  <2>1. Head(to_server) \in ToServer /\ Head(to_server).type = "command"
    BY <1>0, <1>1, ServerHears
  <2>2. Head(to_server).motion \in Nat
    BY <2>1 DEF ToServer
  <2>3. server.pending_entropies \in Seq(Nat)
    BY <1>0, Weights
  <2>. QED  BY <1>4, <2>2, <2>3
<1>6. /\ Weigh(Commands, to_server) = 1 + Weigh(Commands, to_server')
      /\ Weigh(Requests, to_server') = Weigh(Requests, to_server)
  BY <1>0, <1>1, ServerHears
<1>7. Handshake'
  BY <1>0, <1>3, <1>4 DEF Handshake, Receives
<1>8. Account'
  <2>. DEFINE n == Len(client.predicted_entropies)
              q == Len(server.pending_entropies)
              x == Weigh(Commands, to_server)
              y == Weigh(Commands, to_server')
              a == Weigh(Accepted, to_client)
              i == Weigh(Accepted, client.incoming)
              f == history.forgotten
  <2>1. n = x + q + a + i + f
    BY <1>0, <1>1, ServerHears DEF Account
  <2>2. y \in Nat
    BY <1>0, <1>1, ServerHears
  <2>3. q \in Nat /\ a \in Nat /\ i \in Nat /\ f \in Nat
    BY <1>0, Weights
  <2>4. x = 1 + y
    BY <1>6
  <2>5. Account' <=> n = y + (q + 1) + a + i + f
    BY <1>4, <1>5 DEF Account
  <2>. HIDE DEF n, q, x, y, a, i, f
  <2>. QED  BY <2>1, <2>2, <2>3, <2>4, <2>5
<1>9. Handed'
  <2>1. link = "up"
    BY <1>0, <1>1, ServerHears
  <2>. QED  BY <1>0, <1>4, <1>6, <2>1 DEF Handed
<1>. QED  BY <1>2, <1>4, <1>7, <1>8, <1>9 DEF Protocol

(* Only a client in game asks for the state, and it awaits one answer.     *)
LEMMA ServerHandlesResyncOrderly ==
  ASSUME Protocol, ServerHandlesResync
  PROVE  Protocol'
<1>0. TypeOK /\ Handshake /\ (link = "up" => Account /\ Handed)
  BY DEF Protocol
<1>1. ServerTakes("resync")
  BY DEF ServerHandlesResync
<1>2. TypeOK'
  BY <1>0, ServerKeepsTypes
<1>3. client.state = "IN_GAME" /\ Receives(server.state)
  BY <1>0, <1>1, ServerHears DEF Handshake, NotInGame
<1>4. /\ UNCHANGED <<client, history>>
      /\ server'.state = server.state /\ server'.pending_entropies = server.pending_entropies
      /\ \/ link' = "too many resyncs"
         \/ link' = link /\ to_client' = Append(to_client, InitialState(server.world))
  BY <1>0 DEF ServerHandlesResync, TypeOK, Server
<1>5. Handshake'
  BY <1>3, <1>4, PreparedInGame DEF Handshake
<1>6. CASE link' = "too many resyncs"
  BY <1>2, <1>5, <1>6 DEF Protocol
<1>7. CASE link' = link /\ to_client' = Append(to_client, InitialState(server.world))
  <2>1. link = "up"
    BY <1>0, <1>1, ServerHears
  <2>2. /\ Weigh(Commands, to_server') = Weigh(Commands, to_server)
        /\ Weigh(Requests, to_server) = 1 + Weigh(Requests, to_server')
        /\ Weigh(Requests, to_server') \in Nat
    BY <1>0, <1>1, ServerHears
  <2>3. InitialState(server.world) \in ToClient /\ to_client \in Seq(ToClient)
    BY <1>0 DEF TypeOK, Server, InitialState, ToClient
  <2>4. States[InitialState(server.world)] = 1 /\ Accepted[InitialState(server.world)] = 0
    BY <2>3 DEF States, Accepted, InitialState, IsInitial, IsStep
  <2>5. /\ Weigh(States, to_client') = Weigh(States, to_client) + 1
        /\ Weigh(Accepted, to_client') = Weigh(Accepted, to_client) + 0
    <3>1. \A w \in [ToClient -> Nat] :
            Weigh(w, Append(to_client, InitialState(server.world)))
              = Weigh(w, to_client) + w[InitialState(server.world)]
      BY <2>3, WeighAppend
    <3>. QED  BY <1>7, <2>4, <3>1, WeightsAre
  <2>6. Weigh(States, to_client) \in Nat /\ Weigh(Accepted, to_client) \in Nat
    BY <1>0, Weights
  <2>9. Weigh(Accepted, to_client') = Weigh(Accepted, to_client)
    BY <2>5, <2>6
  <2>7. Account'
    BY <1>0, <1>4, <2>1, <2>2, <2>9 DEF Account
  <2>8. Handed'
    <3>. DEFINE n == IF client.now_resyncing THEN 1 ELSE 0
                p == IF client.pending_request THEN 1 ELSE 0
                r == Weigh(Requests, to_server')
                s == Weigh(States, to_client)
    <3>1. n = p + (1 + r) + s
      BY <1>0, <1>3, <2>1, <2>2 DEF Handed
    <3>2. p \in Nat /\ r \in Nat /\ s \in Nat
      BY <2>2, <2>6
    <3>3. Handed' <=> n = p + r + (s + 1)
      BY <1>3, <1>4, <2>5 DEF Handed
    <3>. HIDE DEF n, p, r, s
    <3>. QED  BY <3>1, <3>2, <3>3
  <2>. QED  BY <1>2, <1>5, <1>7, <2>1, <2>7, <2>8 DEF Protocol
<1>. QED  BY <1>4, <1>6, <1>7

(* The solvable variables are neither a state nor a step.                  *)
LEMMA ServerAppliesSolvableVarsOrderly ==
  ASSUME Protocol, NEW arena \in Arenas, ServerAppliesSolvableVars(arena)
  PROVE  Protocol'
<1>0. TypeOK /\ Handshake /\ (link = "up" => Account /\ Handed)
  BY DEF Protocol
<1>1. TypeOK'
  BY <1>0, ServerKeepsTypes
<1>2. /\ UNCHANGED <<client, to_server, link, history>> /\ link = "up"
      /\ server'.state = server.state /\ server'.pending_entropies = server.pending_entropies
      /\ to_client' = Append(to_client, Vars(arena))
  BY <1>0 DEF ServerAppliesSolvableVars, TypeOK, Server
<1>3. Vars(arena) \in ToClient /\ to_client \in Seq(ToClient)
  BY <1>0 DEF TypeOK, Vars, ToClient
<1>4. States[Vars(arena)] = 0 /\ Accepted[Vars(arena)] = 0 /\ ~IsInitial(Vars(arena)) /\ ~IsStep(Vars(arena))
  BY <1>3 DEF States, Accepted, Vars, IsInitial, IsStep
<1>5. Weigh(States, to_client) \in Nat /\ Weigh(Accepted, to_client) \in Nat
  BY <1>0, Weights
<1>6. /\ Weigh(States, to_client') = Weigh(States, to_client) + 0
      /\ Weigh(Accepted, to_client') = Weigh(Accepted, to_client) + 0
  BY <1>2, <1>3, <1>4, WeightsAre, WeighAppend, SMTT(20)
<1>7. Handshake'
  <2>1. Prepared(client.state, to_client \o <<Vars(arena)>>)
    <3>1. <<Vars(arena)>> \in Seq(ToClient) /\ DOMAIN <<Vars(arena)>> = {1} /\ <<Vars(arena)>>[1] = Vars(arena)
      BY <1>3
    <3>2. Prepared(client.state, to_client)
      BY <1>0 DEF Handshake
    <3>. QED  BY <1>3, <1>4, <3>1, <3>2, PreparedMore
  <2>2. to_client' = to_client \o <<Vars(arena)>>
    BY <1>2, <1>3, AppendIsConcat
  <2>3. client.state # "IN_GAME" => NotInGame'
    BY <1>0, <1>2, <1>5, <1>6 DEF Handshake, NotInGame
  <2>. QED  BY <1>0, <1>2, <2>1, <2>2, <2>3 DEF Handshake
<1>8. Account' /\ Handed'
  BY <1>0, <1>2, <1>5, <1>6 DEF Account, Handed
<1>. QED  BY <1>1, <1>2, <1>7, <1>8 DEF Protocol

(* Once it has the solvable variables the client is prepared for a state.  *)
LEMMA ClientHandlesVarsOrderly ==
  ASSUME Protocol, ClientHandlesVars
  PROVE  Protocol'
<1>0. TypeOK /\ Handshake /\ (link = "up" => Account /\ Handed)
  BY DEF Protocol
<1>1. ClientTakes("vars")
  BY DEF ClientHandlesVars
<1>2. TypeOK'
  BY <1>0, ClientKeepsTypes
<1>3. /\ UNCHANGED <<server, to_server, link>> /\ history'.forgotten = history.forgotten
      /\ client'.state = IF client.state = "PENDING_WELCOME" THEN "RECEIVING_INITIAL_STATE" ELSE client.state
      /\ client'.incoming = client.incoming /\ client'.predicted_entropies = client.predicted_entropies
      /\ client'.pending_request = client.pending_request /\ client'.now_resyncing = client.now_resyncing
      /\ client'.schedule_reprediction = client.schedule_reprediction
  BY <1>0 DEF ClientHandlesVars, TypeOK, Client, History
<1>4. /\ Weigh(States, to_client') = Weigh(States, to_client)
      /\ Weigh(Accepted, to_client') = Weigh(Accepted, to_client) /\ link = "up"
  BY <1>0, <1>1, ClientTakesOff
<1>5. Handshake'
  <2>1. Prepared(client'.state, to_client')
    <3>1. to_client # <<>> /\ Head(to_client).type = "vars" /\ to_client' = Tail(to_client)
      BY <1>0, <1>1, ClientHears
    <3>2. to_client \in Seq(ToClient) /\ Prepared(client.state, to_client)
      BY <1>0 DEF TypeOK, Handshake
    <3>3. Prepared(client'.state, Tail(to_client))
      BY <1>3, <3>1, <3>2, PreparedTail DEF IsInitial
    <3>. QED  BY <3>1, <3>3
  <2>2. client'.state # "IN_GAME" => NotInGame'
    BY <1>0, <1>3, <1>4 DEF Handshake, NotInGame
  <2>. QED  BY <1>0, <1>3, <2>1, <2>2 DEF Handshake
<1>6. Account'
  BY <1>0, <1>3, <1>4 DEF Account
<1>7. Handed'
  BY <1>0, <1>3, <1>4 DEF Handed
<1>. QED  BY <1>2, <1>3, <1>4, <1>5, <1>6, <1>7 DEF Protocol

(* The settings of a player change nothing of the protocol.                *)
LEMMA ClientHandlesSettingsOrderly ==
  ASSUME Protocol, ClientHandlesSettings
  PROVE  Protocol'
<1>0. TypeOK /\ Handshake /\ (link = "up" => Account /\ Handed)
  BY DEF Protocol
<1>1. ClientTakes("settings")
  BY DEF ClientHandlesSettings
<1>2. TypeOK'
  BY <1>0, ClientKeepsTypes
<1>3. /\ UNCHANGED <<server, to_server, link>> /\ history'.forgotten = history.forgotten
      /\ client'.state = client.state
      /\ client'.incoming = client.incoming /\ client'.predicted_entropies = client.predicted_entropies
      /\ client'.pending_request = client.pending_request /\ client'.now_resyncing = client.now_resyncing
      /\ client'.schedule_reprediction = client.schedule_reprediction
  BY <1>0 DEF ClientHandlesSettings, TypeOK, Client, History
<1>4. /\ Weigh(States, to_client') = Weigh(States, to_client)
      /\ Weigh(Accepted, to_client') = Weigh(Accepted, to_client) /\ link = "up"
  BY <1>0, <1>1, ClientTakesOff
<1>5. Handshake'
  <2>1. Prepared(client'.state, to_client')
    <3>1. to_client # <<>> /\ Head(to_client).type = "settings" /\ to_client' = Tail(to_client)
      BY <1>0, <1>1, ClientHears
    <3>2. to_client \in Seq(ToClient) /\ Prepared(client.state, to_client)
      BY <1>0 DEF TypeOK, Handshake
    <3>3. Prepared(client.state, Tail(to_client))
      BY <3>1, <3>2, PreparedTail DEF IsInitial
    <3>. QED  BY <1>3, <3>1, <3>3
  <2>2. client'.state # "IN_GAME" => NotInGame'
    BY <1>0, <1>3, <1>4 DEF Handshake, NotInGame
  <2>. QED  BY <1>0, <1>3, <2>1, <2>2 DEF Handshake
<1>6. Account'
  BY <1>0, <1>3, <1>4 DEF Account
<1>7. Handed'
  BY <1>0, <1>3, <1>4 DEF Handed
<1>. QED  BY <1>2, <1>3, <1>4, <1>5, <1>6, <1>7 DEF Protocol

(* No step comes before the state, and what it accepts goes with it.       *)
LEMMA ClientHandlesStepOrderly ==
  ASSUME Protocol, ClientHandlesStep
  PROVE  Protocol'
<1>0. TypeOK /\ Handshake /\ (link = "up" => Account /\ Handed)
  BY DEF Protocol
<1>1. ClientTakes("step")
  BY DEF ClientHandlesStep
<1>2. TypeOK'
  BY <1>0, ClientKeepsTypes
<1>3. /\ to_client # <<>> /\ Head(to_client) \in ToClient /\ Head(to_client).type = "step"
      /\ to_client \in Seq(ToClient)
  BY <1>0, <1>1, ClientHears DEF TypeOK
<1>4. client.state = "IN_GAME"
  <2>1. 1 \in DOMAIN to_client /\ to_client[1] = Head(to_client)
    BY <1>3
  <2>. QED  BY <1>0, <1>3, <2>1 DEF Handshake, Prepared, IsStep
<1>5. /\ UNCHANGED <<server, to_server, link, history>>
      /\ client'.state = client.state
      /\ client'.incoming = Append(client.incoming, Head(to_client))
      /\ client'.predicted_entropies = client.predicted_entropies
      /\ client'.pending_request = client.pending_request /\ client'.now_resyncing = client.now_resyncing
  BY <1>0, <1>4 DEF ClientHandlesStep, TypeOK, Client
<1>6. Handshake'
  BY <1>0, <1>4, <1>5, PreparedInGame DEF Handshake
<1>7. /\ Weigh(States, to_client') = Weigh(States, to_client) /\ link = "up"
      /\ Weigh(Accepted, to_client) = Head(to_client).accepted + Weigh(Accepted, to_client')
      /\ Weigh(Accepted, to_client') \in Nat
  BY <1>0, <1>1, ClientTakesOff
<1>8. Handed'
  BY <1>0, <1>5, <1>7 DEF Handed
<1>9. Account'
  <2>. DEFINE n == Len(client.predicted_entropies)
              q == Len(server.pending_entropies)
              x == Weigh(Commands, to_server)
              a == Weigh(Accepted, to_client')
              m == Head(to_client).accepted
              i == Weigh(Accepted, client.incoming)
              f == history.forgotten
  <2>1. n = x + q + (m + a) + i + f
    BY <1>0, <1>7 DEF Account
  <2>2. q \in Nat /\ x \in Nat /\ i \in Nat /\ f \in Nat
    BY <1>0, Weights
  <2>3. m \in Nat
    BY <1>3 DEF ToClient, StepMessage
  <2>4. a \in Nat
    BY <1>7
  <2>5. Weigh(Accepted, client'.incoming) = i + m
    <3>1. client.incoming \in Seq(ToClient)
      BY <1>0, Weights
    <3>2. Accepted[Head(to_client)] = m
      BY <1>3 DEF Accepted, IsStep
    <3>. HIDE DEF i, m
    <3>3. Weigh(Accepted, Append(client.incoming, Head(to_client))) = i + Accepted[Head(to_client)]
      BY <1>3, <3>1, WeighAppend, WeightsAre DEF i
    <3>. QED  BY <1>5, <3>2, <3>3
  <2>6. Account' <=> n = x + q + a + (i + m) + f
    BY <1>5, <2>5 DEF Account
  <2>. HIDE DEF n, q, x, a, m, i, f
  <2>. QED  BY <2>1, <2>2, <2>3, <2>4, <2>6
<1>. QED  BY <1>2, <1>5, <1>6, <1>7, <1>8, <1>9 DEF Protocol

(* No state comes early, and it is the one answer to the one request.      *)
LEMMA ClientHandlesInitialStateOrderly ==
  ASSUME Protocol, ClientHandlesInitialState
  PROVE  Protocol'
<1>0. TypeOK /\ Handshake /\ (link = "up" => Account /\ Handed)
  BY DEF Protocol
<1>1. ClientTakes("initial")
  BY DEF ClientHandlesInitialState
<1>2. TypeOK'
  BY <1>0, ClientKeepsTypes
<1>3. /\ to_client # <<>> /\ Head(to_client) \in ToClient /\ Head(to_client).type = "initial"
      /\ to_client \in Seq(ToClient)
  BY <1>0, <1>1, ClientHears DEF TypeOK
<1>4. /\ Weigh(States, to_client) = 1 + Weigh(States, to_client') /\ link = "up"
      /\ Weigh(Accepted, to_client') = Weigh(Accepted, to_client)
      /\ Weigh(States, to_client') \in Nat
  BY <1>0, <1>1, ClientTakesOff
<1>5. client.state \in {"RECEIVING_INITIAL_STATE", "IN_GAME"}
  <2>1. 1 \in DOMAIN to_client /\ to_client[1] = Head(to_client) /\ 1..1 - 1 = {}
    BY <1>3
  <2>. QED  BY <1>0, <1>3, <2>1 DEF Handshake, Prepared, IsInitial
<1>6. Weigh(Requests, to_server) \in Nat
  BY <1>0, Weights
<1>7. /\ client.now_resyncing \/ client.state = "RECEIVING_INITIAL_STATE"
      /\ ~client.pending_request /\ Receives(server.state)
      /\ Weigh(Requests, to_server) = 0 /\ Weigh(States, to_client') = 0
  <2>1. CASE client.state = "IN_GAME"
    <3>. DEFINE n == IF client.now_resyncing THEN 1 ELSE 0
                p == IF client.pending_request THEN 1 ELSE 0
                r == Weigh(Requests, to_server)
                s == Weigh(States, to_client')
    <3>1. n = p + r + (1 + s)
      BY <1>0, <1>4, <2>1 DEF Handed
    <3>2. n \in {0, 1} /\ p \in {0, 1} /\ r \in Nat /\ s \in Nat
      BY <1>4, <1>6
    <3>3. n = 1 /\ p = 0 /\ r = 0 /\ s = 0
      <4>. HIDE DEF n, p, r, s
      <4>. QED  BY <3>1, <3>2
    <3>. QED  BY <1>0, <2>1, <3>3 DEF Handshake
  <2>2. CASE client.state # "IN_GAME"
    <3>1. NotInGame
      BY <1>0, <2>2 DEF Handshake
    <3>2. Weigh(Requests, to_server) = 0
      <4>1. to_server \in Seq(ToServer) /\ \A i \in DOMAIN to_server : to_server[i].type = "settings"
        BY <1>0, <3>1 DEF NotInGame, TypeOK
      <4>2. \A i \in DOMAIN to_server : Requests[to_server[i]] = 0
        BY <4>1 DEF Requests
      <4>. QED  BY <4>1, <4>2, WeighNothing, WeightsAre
    <3>3. 1 + Weigh(States, to_client') = IF Receives(server.state) THEN 1 ELSE 0
      BY <1>4, <3>1 DEF NotInGame
    <3>4. Receives(server.state) /\ Weigh(States, to_client') = 0
      BY <1>4, <3>3
    <3>. QED  BY <1>5, <2>2, <3>1, <3>2, <3>4 DEF NotInGame
  <2>. QED  BY <2>1, <2>2
<1>8. /\ UNCHANGED <<server, to_server, link>>
      /\ client'.state = "IN_GAME" /\ client'.incoming = <<>>
      /\ client'.predicted_entropies = client.predicted_entropies
      /\ client'.pending_request = client.pending_request /\ client'.now_resyncing = FALSE
      /\ history'.forgotten = history.forgotten
           + Total([i \in DOMAIN client.incoming |-> client.incoming[i].accepted])
  <2>1. /\ UNCHANGED <<server, to_server, link>>
        /\ client' = [client EXCEPT
             !.state = "IN_GAME", !.now_resyncing = FALSE,
             !.referential = Head(to_client).world, !.predicted = Head(to_client).world,
             !.schedule_reprediction = client.schedule_reprediction \/ client.now_resyncing,
             !.incoming = <<>>]
        /\ history' = [overtaken |-> FALSE, behind |-> FALSE,
             forgotten |-> history.forgotten
               + Total([i \in DOMAIN client.incoming |-> client.incoming[i].accepted])]
    BY <1>7 DEF ClientHandlesInitialState
  <2>2. client \in Client
    BY <1>0 DEF TypeOK
  <2>3. /\ client'.state = "IN_GAME" /\ client'.incoming = <<>>
        /\ client'.predicted_entropies = client.predicted_entropies
        /\ client'.pending_request = client.pending_request /\ client'.now_resyncing = FALSE
    BY <2>1, <2>2 DEF Client
  <2>4. history'.forgotten = history.forgotten
           + Total([i \in DOMAIN client.incoming |-> client.incoming[i].accepted])
    BY <2>1
  <2>. QED  BY <2>1, <2>3, <2>4
<1>9. Handshake'
  BY <1>7, <1>8, PreparedInGame DEF Handshake
<1>10. Handed'
  BY <1>7, <1>8 DEF Handed
<1>11. Account'
  <2>1. Total([i \in DOMAIN client.incoming |-> client.incoming[i].accepted]) = Weigh(Accepted, client.incoming)
    BY <1>0, IncomingWeighs
  <2>. DEFINE n == Len(client.predicted_entropies)
              q == Len(server.pending_entropies)
              x == Weigh(Commands, to_server)
              a == Weigh(Accepted, to_client)
              i == Weigh(Accepted, client.incoming)
              f == history.forgotten
  <2>2. n = x + q + a + i + f
    BY <1>0, <1>4 DEF Account
  <2>3. x \in Nat /\ q \in Nat /\ a \in Nat /\ i \in Nat /\ f \in Nat
    BY <1>0, Weights
  <2>4. Weigh(Accepted, client'.incoming) = 0
    BY <1>8, WeighSmall, WeightsAre
  <2>5. Account' <=> n = x + q + a + 0 + (f + i)
    BY <1>4, <1>8, <2>1, <2>4 DEF Account
  <2>. HIDE DEF n, q, x, a, i, f
  <2>. QED  BY <2>2, <2>3, <2>5
<1>. QED  BY <1>2, <1>4, <1>8, <1>9, <1>10, <1>11 DEF Protocol

(* A client that is not in game announces its settings and nothing else.   *)
LEMMA ClientStepBeforeGameOrderly ==
  ASSUME Protocol, NEW settings \in Sensitivities, ClientStepBeforeGame(settings)
  PROVE  Protocol'
<1>0. TypeOK /\ Handshake /\ (link = "up" => Account /\ Handed)
  BY DEF Protocol
<1>1. TypeOK' /\ to_server' = to_server \o Sends(settings)
  BY <1>0, StepBeforeGame
<1>2. /\ UNCHANGED <<server, to_client, link, history>> /\ link = "up" /\ client.state # "IN_GAME"
      /\ client' = [client EXCEPT
           !.state = IF client.state = "INITIATING_CONNECTION" THEN "PENDING_WELCOME" ELSE client.state,
           !.settings = settings, !.pending_request = FALSE]
  BY DEF ClientStepBeforeGame
<1>3. NotInGame
  BY <1>0, <1>2 DEF Handshake
<1>4. /\ client'.state = IF client.state = "INITIATING_CONNECTION" THEN "PENDING_WELCOME" ELSE client.state
      /\ client'.incoming = client.incoming /\ client'.predicted_entropies = client.predicted_entropies
      /\ ~client'.pending_request /\ client'.now_resyncing = client.now_resyncing
      /\ client'.schedule_reprediction = client.schedule_reprediction
  BY <1>0, <1>2 DEF TypeOK, Client
<1>5. /\ Sends(settings) \in Seq(ToServer) /\ to_server \in Seq(ToServer)
      /\ Weigh(Commands, Sends(settings)) = 0 /\ Weigh(Requests, Sends(settings)) = 0
  BY <1>0, <1>3, SendsMessages DEF NotInGame, TypeOK
<1>6. /\ Weigh(Commands, to_server') = Weigh(Commands, to_server) + Weigh(Commands, Sends(settings))
      /\ Weigh(Requests, to_server') = Weigh(Requests, to_server) + Weigh(Requests, Sends(settings))
  <2>1. \A w \in [ToServer -> Nat] :
          Weigh(w, to_server \o Sends(settings)) = Weigh(w, to_server) + Weigh(w, Sends(settings))
    BY <1>5, WeighConcat
  <2>. QED  BY <1>1, <2>1, WeightsAre
<1>7. /\ Weigh(Commands, to_server') = Weigh(Commands, to_server)
      /\ Weigh(Requests, to_server') = Weigh(Requests, to_server)
  <2>1. Weigh(Commands, to_server) \in Nat /\ Weigh(Requests, to_server) \in Nat
    BY <1>0, Weights
  <2>. QED  BY <1>5, <1>6, <2>1
<1>8. \A i \in DOMAIN to_server' : to_server'[i].type = "settings"
  <2>1. \A i \in DOMAIN Sends(settings) : Sends(settings)[i].type = "settings"
    BY <1>3 DEF NotInGame, Sends, Settings
  <2>2. \A i \in DOMAIN to_server : to_server[i].type = "settings"
    BY <1>3 DEF NotInGame
  <2>. QED  BY <1>1, <1>5, <2>1, <2>2
<1>9. Handshake'
  <2>1. Prepared(client'.state, to_client')
    <3>1. Prepared(client.state, to_client)
      BY <1>0 DEF Handshake
    <3>2. Prepared("INITIATING_CONNECTION", to_client) => Prepared("PENDING_WELCOME", to_client)
      BY DEF Prepared
    <3>. QED  BY <1>2, <1>4, <3>1, <3>2
  <2>2. NotInGame'
    BY <1>2, <1>3, <1>4, <1>8 DEF NotInGame
  <2>. QED  BY <1>2, <1>4, <2>1, <2>2 DEF Handshake
<1>10. Account'
  BY <1>0, <1>2, <1>4, <1>7 DEF Account
<1>11. Handed'
  BY <1>0, <1>2, <1>3, <1>4, <1>7 DEF Handed, NotInGame
<1>. QED  BY <1>1, <1>2, <1>9, <1>10, <1>11 DEF Protocol

(* What the steps accept in sum is what the client takes off its           *)
(* predictions.                                                            *)
LEMMA AcceptedInSum ==
  ASSUME TypeOK
  PROVE  Got.accepted = Weigh(Accepted, client.incoming)
<1>. DEFINE n == Len(client.incoming)
            amounts == [i \in DOMAIN client.incoming |-> client.incoming[i].accepted]
<1>1. client.incoming \in Seq(StepMessage)
  BY DEF TypeOK, Client
<1>2. n \in Nat /\ DOMAIN client.incoming = 1..n /\ DOMAIN amounts = 1..n
  BY <1>1
<1>3. PICK h : Unpacks!Unfolds(h, Untouched, client.incoming, n) /\ Got = h[n]
  BY <1>2, Unpacks!FoldUnfold, UnpackIsFold DEF Got
<1>. DEFINE g == [k \in 0..n |-> h[k].accepted]
<1>4. g[0] = 0 /\ g[n] = Got.accepted
  BY <1>2, <1>3 DEF Unpacks!Unfolds, Untouched
<1>5. ASSUME NEW k \in 0..n - 1 PROVE g[k + 1] = Plus(g[k], amounts[k + 1])
  <2>1. k + 1 \in 1..n /\ k \in 0..n /\ k + 1 \in 0..n
    BY <1>2
  <2>2. h[k + 1] = UnpackStep(h[k], client.incoming[k + 1])
    BY <1>3 DEF Unpacks!Unfolds
  <2>3. h[k + 1].accepted = h[k].accepted + client.incoming[k + 1].accepted
    BY <2>2 DEF UnpackStep
  <2>4. amounts[k + 1] = client.incoming[k + 1].accepted
    BY <1>2, <2>1
  <2>. QED  BY <2>1, <2>3, <2>4 DEF Plus
<1>6. Sums!Unfolds(g, 0, amounts, n)
  <2>. HIDE DEF g, amounts
  <2>. QED  BY <1>4, <1>5 DEF Sums!Unfolds
<1>7. Sums!Fold(0, amounts) = g[n]
  <2>. HIDE DEF g, amounts
  <2>. QED  BY <1>2, <1>6, Sums!FoldIs
<1>8. Total(amounts) = g[n]
  BY <1>7, TotalIsFold
<1>. QED  BY <1>4, <1>8, IncomingWeighs

(* Nothing is accepted that was not predicted, and a difference that is    *)
(* noticed is asked about once.                                            *)
LEMMA ClientStepOrderly ==
  ASSUME Protocol, NEW motion \in Motions, NEW settings \in Sensitivities, ClientStep(motion, settings)
  PROVE  Protocol' /\ Got.accepted <= Len(client.predicted_entropies)
<1>. DEFINE command == Command(Local(motion).own)
<1>0. TypeOK /\ Handshake /\ link = "up" /\ Account /\ Handed
  BY DEF Protocol, ClientStep
<1>1. /\ Got \in Result /\ Local(motion) \in Entropy /\ Rest \in Seq(Entropy)
      /\ command \in ToServer
      /\ to_server' = to_server \o Sends(settings) \o <<command>>
      /\ client.state = "IN_GAME" /\ UNCHANGED <<server, to_client>> /\ TypeOK'
  BY <1>0, ClientSteps
<1>2. /\ client' = [client EXCEPT
           !.settings = settings, !.referential = Got.referential, !.incoming = <<>>,
           !.predicted_entropies = Append(Rest, Local(motion)),
           !.predicted = Solve(Current, Local(motion)),
           !.schedule_reprediction = client.schedule_reprediction /\ client.predicted_entropies = <<>>,
           !.pending_request = Noticed,
           !.now_resyncing = client.now_resyncing \/ Noticed]
      /\ link' = IF Got.accepted > Len(client.predicted_entropies) THEN "malicious server"
                 ELSE IF Len(Rest) > MaxPredicted THEN "too many predictions" ELSE link
      /\ history' = [history EXCEPT !.behind = history.behind /\ ~Got.repredict]
  BY <1>0, ClientSteps
<1>3. /\ client'.state = "IN_GAME" /\ client'.incoming = <<>>
      /\ client'.predicted_entropies = Append(Rest, Local(motion))
      /\ client'.pending_request = Noticed /\ client'.now_resyncing = (client.now_resyncing \/ Noticed)
      /\ history'.forgotten = history.forgotten
  BY <1>0, <1>1, <1>2, ZenonT(40) DEF TypeOK, Client, History
<1>4. /\ Sends(settings) \in Seq(ToServer) /\ to_server \in Seq(ToServer) /\ <<command>> \in Seq(ToServer)
      /\ Weigh(Commands, Sends(settings)) = 0
      /\ Weigh(Requests, Sends(settings)) = IF client.pending_request THEN 1 ELSE 0
  BY <1>0, <1>1, SendsMessages DEF TypeOK
<1>5. Weigh(Commands, <<command>>) = 1 /\ Weigh(Requests, <<command>>) = 0
  <2>1. Commands[command] = 1 /\ Requests[command] = 0
    BY <1>1 DEF Commands, Requests, Command, IsCommand
  <2>. HIDE DEF command
  <2>. QED  BY <1>1, <2>1, WeighSmall, WeightsAre
<1>. HIDE DEF command
<1>6. \A w \in [ToServer -> Nat] :
        Weigh(w, to_server') = Weigh(w, to_server) + Weigh(w, Sends(settings)) + Weigh(w, <<command>>)
  <2>. TAKE w \in [ToServer -> Nat]
  <2>1. to_server \o Sends(settings) \in Seq(ToServer)
    BY <1>4, ConcatProperties
  <2>2. Weigh(w, to_server \o Sends(settings)) = Weigh(w, to_server) + Weigh(w, Sends(settings))
    BY <1>4, WeighConcat
  <2>3. Weigh(w, (to_server \o Sends(settings)) \o <<command>>)
          = Weigh(w, to_server \o Sends(settings)) + Weigh(w, <<command>>)
    BY <1>4, <2>1, WeighConcat
  <2>. QED  BY <1>1, <2>2, <2>3
<1>7. /\ Weigh(Commands, to_server') = Weigh(Commands, to_server) + 0 + 1
      /\ Weigh(Requests, to_server') = Weigh(Requests, to_server) + (IF client.pending_request THEN 1 ELSE 0) + 0
  BY <1>4, <1>5, <1>6, WeightsAre
<1>8. Handshake'
  <2>1. Receives(server.state)
    BY <1>0, <1>1 DEF Handshake
  <2>. QED  BY <1>1, <1>3, <2>1, PreparedInGame DEF Handshake
<1>9. Handed'
  <2>. DEFINE p == IF client.pending_request THEN 1 ELSE 0
              n == IF client.now_resyncing THEN 1 ELSE 0
              r == Weigh(Requests, to_server)
              s == Weigh(States, to_client)
              nn == IF client.now_resyncing \/ Noticed THEN 1 ELSE 0
              pp == IF Noticed THEN 1 ELSE 0
  <2>1. n = p + r + s
    BY <1>0, <1>1 DEF Handed
  <2>2. p \in Nat /\ r \in Nat /\ s \in Nat
    BY <1>0, Weights
  <2>3. Handed' <=> nn = pp + (r + p + 0) + s
    BY <1>1, <1>3, <1>7 DEF Handed
  <2>4. \/ n = 1 /\ nn = 1 /\ pp = 0
        \/ n = 0 /\ nn = pp /\ pp \in {0, 1}
    BY DEF Noticed
  <2>. HIDE DEF p, n, r, s, nn, pp
  <2>. QED  BY <2>1, <2>2, <2>3, <2>4
<1>10. Got.accepted <= Len(client.predicted_entropies) /\ Account'
  <2>. DEFINE l == Len(client.predicted_entropies)
              q == Len(server.pending_entropies)
              x == Weigh(Commands, to_server)
              a == Weigh(Accepted, to_client)
              i == Weigh(Accepted, client.incoming)
              f == history.forgotten
  <2>1. l = x + q + a + i + f
    BY <1>0 DEF Account
  <2>2. x \in Nat /\ q \in Nat /\ a \in Nat /\ i \in Nat /\ f \in Nat /\ l \in Nat
    BY <1>0, Weights
  <2>3. Got.accepted = i
    BY <1>0, AcceptedInSum
  <2>4. i <= l
    <3>. HIDE DEF l, q, x, a, i, f
    <3>. QED  BY <2>1, <2>2
  <2>5. Len(Append(Rest, Local(motion))) = l - i + 1
    <3>1. client.predicted_entropies \in Seq(Entropy)
      BY <1>0, Weights
    <3>2. Rest = SubSeq(client.predicted_entropies, i + 1, l)
      BY <2>3 DEF Rest, Remaining
    <3>. HIDE DEF i
    <3>3. Len(Rest) = l - i
      BY <2>2, <2>4, <3>1, <3>2, SubSeqProperties
    <3>4. Len(Append(Rest, Local(motion))) = Len(Rest) + 1
      BY <1>1
    <3>. QED  BY <3>3, <3>4
  <2>6. Weigh(Accepted, client'.incoming) = 0
    BY <1>3, WeighSmall, WeightsAre
  <2>7. Account' <=> l - i + 1 = (x + 0 + 1) + q + a + 0 + f
    BY <1>1, <1>3, <1>7, <2>5, <2>6 DEF Account
  <2>. HIDE DEF l, q, x, a, i, f
  <2>8. Account'
    BY <2>1, <2>2, <2>4, <2>7
  <2>. QED  BY <2>3, <2>4, <2>8 DEF l
<1>11. link' \in {"up", "too many resyncs", "too many predictions"}
  <2>1. ~(Got.accepted > Len(client.predicted_entropies))
    <3>1. Got.accepted \in Nat /\ Len(client.predicted_entropies) \in Nat
      BY <1>0, <1>1, Weights DEF Result
    <3>. QED  BY <1>10, <3>1
  <2>. QED  BY <1>0, <1>2, <2>1
<1>. QED  BY <1>1, <1>8, <1>9, <1>10, <1>11 DEF Protocol

(* What a tick sends: a state if the client gets its first one, and a step *)
(* that accepts what leaves the queue.                                     *)
LEMMA SentWeighs ==
  ASSUME TypeOK, NEW others \in Others, ServerTick(others)
  PROVE  /\ Weigh(States, SentFirst) = IF First THEN 1 ELSE 0
         /\ Weigh(States, SentSettings) = 0
         /\ Weigh(States, Sent(others)) = IF First THEN 1 ELSE 0
         /\ Weigh(Accepted, Sent(others)) = Accepts
<1>. DEFINE step == Step(Taken(others))
            vs == Vars(server.world.arena)
            st == InitialState(server.world)
            se == Settings(server.settings)
<1>1. /\ step \in ToClient /\ step.accepted = Accepts /\ step.type = "step"
      /\ Accepts \in Nat
  <2>1. Taken(others) \in Payload /\ step \in StepMessage
    BY ServerTicks
  <2>2. step.accepted = Accepts
    BY <2>1, StepIsMessage
  <2>. QED  BY <2>1, <2>2 DEF ToClient, StepMessage
<1>2. vs \in ToClient /\ st \in ToClient /\ se \in ToClient
  BY DEF Vars, InitialState, Settings, ToClient, TypeOK, Server, World
<1>3. /\ States[vs] = 0 /\ States[st] = 1 /\ States[se] = 0 /\ States[step] = 0
      /\ Accepted[vs] = 0 /\ Accepted[st] = 0 /\ Accepted[se] = 0 /\ Accepted[step] = Accepts
  <2>1. vs.type = "vars" /\ st.type = "initial" /\ se.type = "settings"
    BY DEF Vars, InitialState, Settings
  <2>. HIDE DEF vs, st, se, step
  <2>. QED  BY <1>1, <1>2, <2>1 DEF States, Accepted, IsInitial, IsStep
<1>4. Welcome = <<vs>> \o <<st>> \o <<se>>
  BY DEF Welcome
<1>. HIDE DEF vs, st, se, step
<1>5. ASSUME NEW w \in [ToClient -> Nat], NEW a \in Seq(ToClient), NEW b \in Seq(ToClient), NEW c \in Seq(ToClient)
      PROVE  Weigh(w, a \o b \o c) = Weigh(w, a) + Weigh(w, b) + Weigh(w, c)
  <2>1. a \o b \in Seq(ToClient)
    BY ConcatProperties
  <2>. QED  BY <2>1, WeighConcat
<1>6. ASSUME NEW w \in [ToClient -> Nat]
      PROVE  /\ Weigh(w, SentFirst) = IF First THEN w[vs] + w[st] + w[se] ELSE 0
             /\ Weigh(w, SentSettings) = IF server.rebroadcast THEN w[se] ELSE 0
             /\ Weigh(w, SentStep(others)) = IF Receives(State) THEN w[step] ELSE 0
  <2>1. Weigh(w, Welcome) = w[vs] + w[st] + w[se]
    <3>1. <<vs>> \in Seq(ToClient) /\ <<st>> \in Seq(ToClient) /\ <<se>> \in Seq(ToClient)
      BY <1>2
    <3>2. Weigh(w, <<vs>>) = w[vs] /\ Weigh(w, <<st>>) = w[st] /\ Weigh(w, <<se>>) = w[se]
      BY <1>2, WeighSmall
    <3>3. Weigh(w, <<vs>> \o <<st>> \o <<se>>) = Weigh(w, <<vs>>) + Weigh(w, <<st>>) + Weigh(w, <<se>>)
      BY <1>5, <3>1
    <3>. QED  BY <1>4, <3>2, <3>3
  <2>2. /\ Weigh(w, <<>>) = 0 /\ Weigh(w, <<se>>) = w[se] /\ Weigh(w, <<step>>) = w[step]
    BY <1>1, <1>2, WeighSmall
  <2>. QED  BY <2>1, <2>2 DEF SentFirst, SentSettings, SentStep, se, step
<1>7. ASSUME NEW w \in [ToClient -> Nat]
      PROVE  Weigh(w, Sent(others)) = Weigh(w, SentFirst) + Weigh(w, SentSettings) + Weigh(w, SentStep(others))
  BY <1>5, ServerTicks, ZenonT(40) DEF Sent
<1>8. ~Receives(State) => Accepts = 0
  <2>1. State # "IN_GAME" => server.state # "IN_GAME"
    BY DEF State, First
  <2>. QED  BY <2>1 DEF Receives, Accepts
<1>9. /\ Weigh(States, SentFirst) = IF First THEN 1 ELSE 0
      /\ Weigh(States, SentSettings) = 0
      /\ Weigh(States, Sent(others)) = IF First THEN 1 ELSE 0
  <2>1. /\ Weigh(States, SentFirst) = IF First THEN 1 ELSE 0
        /\ Weigh(States, SentSettings) = 0 /\ Weigh(States, SentStep(others)) = 0
    BY <1>3, <1>6, WeightsAre
  <2>2. Weigh(States, Sent(others)) = (IF First THEN 1 ELSE 0) + 0 + 0
    BY <1>7, <2>1, WeightsAre
  <2>. QED  BY <2>1, <2>2
<1>10. Weigh(Accepted, Sent(others)) = Accepts
  <2>1. /\ Weigh(Accepted, SentFirst) = 0
        /\ Weigh(Accepted, SentSettings) = 0 /\ Weigh(Accepted, SentStep(others)) = Accepts
    BY <1>3, <1>6, <1>8, WeightsAre
  <2>2. Weigh(Accepted, Sent(others)) = 0 + 0 + Accepts
    BY <1>7, <2>1, WeightsAre
  <2>. QED  BY <1>1, <2>2
<1>. QED  BY <1>9, <1>10

(* The first state follows the solvable variables, and steps follow it.    *)
LEMMA PreparedForTick ==
  ASSUME Protocol, NEW others \in Others, ServerTick(others)
  PROVE  Prepared(client.state, to_client \o Sent(others))
<1>. DEFINE s1 == to_client \o SentFirst
            s2 == s1 \o SentSettings
            s3 == s2 \o SentStep(others)
<1>0. TypeOK /\ Handshake
  BY DEF Protocol
<1>1. /\ SentFirst \in Seq(ToClient) /\ SentSettings \in Seq(ToClient)
      /\ SentStep(others) \in Seq(ToClient) /\ to_client \in Seq(ToClient)
      /\ s3 = to_client \o Sent(others)
  BY <1>0, ServerTicks DEF TypeOK
<1>2. s1 \in Seq(ToClient) /\ s2 \in Seq(ToClient)
  BY <1>1, ConcatProperties
<1>3. Prepared(client.state, s1)
  <2>1. Prepared(client.state, to_client)
    BY <1>0 DEF Handshake
  <2>2. CASE ~First
    <3>1. SentFirst = <<>>
      BY <2>2 DEF SentFirst
    <3>. QED  BY <1>1, <2>1, <3>1
  <2>3. CASE First
    <3>1. /\ SentFirst[1].type = "vars" /\ SentFirst[2].type = "initial" /\ SentFirst[3].type = "settings"
          /\ DOMAIN SentFirst = 1..3
      BY <2>3 DEF SentFirst, Welcome, Vars, InitialState, Settings
    <3>2. client.state \in {"PENDING_WELCOME", "RECEIVING_INITIAL_STATE", "IN_GAME"}
      BY <1>0, <2>3 DEF Handshake, First, TypeOK, Client
    <3>3. \A i \in DOMAIN SentFirst :
            /\ IsInitial(SentFirst[i]) => i = 2 /\ 1 \in 1..i - 1
            /\ ~IsStep(SentFirst[i])
      BY <3>1 DEF IsInitial, IsStep
    <3>. QED  BY <1>1, <2>1, <3>1, <3>2, <3>3, PreparedMore
  <2>. QED  BY <2>2, <2>3
<1>4. Prepared(client.state, s2)
  <2>1. \A i \in DOMAIN SentSettings : ~IsInitial(SentSettings[i]) /\ ~IsStep(SentSettings[i])
    BY DEF SentSettings, Settings, IsInitial, IsStep
  <2>. HIDE DEF s1
  <2>. QED  BY <1>1, <1>2, <1>3, <2>1, PreparedMore
<1>5. Receives(State) /\ client.state # "IN_GAME" => \E j \in DOMAIN s2 : IsInitial(s2[j])
  <2>. SUFFICES ASSUME Receives(State), client.state # "IN_GAME" PROVE Weigh(States, s2) # 0
    BY <1>2, StatesComing
  <2>1. Weigh(States, s1) = Weigh(States, to_client) + (IF First THEN 1 ELSE 0)
    <3>1. \A w \in [ToClient -> Nat] : Weigh(w, s1) = Weigh(w, to_client) + Weigh(w, SentFirst)
      BY <1>1, WeighConcat
    <3>. HIDE DEF s1
    <3>. QED  BY <1>0, <3>1, SentWeighs, WeightsAre
  <2>2. Weigh(States, s2) = Weigh(States, s1) + 0
    <3>. HIDE DEF s1
    <3>1. \A w \in [ToClient -> Nat] : Weigh(w, s1 \o SentSettings) = Weigh(w, s1) + Weigh(w, SentSettings)
      BY <1>1, <1>2, WeighConcat
    <3>. QED  BY <1>0, <3>1, SentWeighs, WeightsAre
  <2>3. Weigh(States, to_client) \in Nat
    BY <1>0, Weights
  <2>4. First \/ Weigh(States, to_client) = 1
    BY <1>0 DEF Handshake, NotInGame, State
  <2>. HIDE DEF s1, s2
  <2>. QED  BY <2>1, <2>2, <2>3, <2>4
<1>6. Prepared(client.state, s3)
  <2>1. \A i \in DOMAIN SentStep(others) : ~IsInitial(SentStep(others)[i]) /\ Receives(State)
    BY DEF SentStep, Step, IsInitial
  <2>. HIDE DEF s2
  <2>. QED  BY <1>1, <1>2, <1>4, <1>5, <2>1, PreparedMore
<1>. QED  BY <1>1, <1>6

(* A tick of the server sends the arena and the state before the first     *)
(* step, and hands what it accepts over to the step it sends: no command   *)
(* is lost or counted twice.                                               *)
LEMMA ServerTickOrderly ==
  ASSUME Protocol, NEW others \in Others, ServerTick(others)
  PROVE  Protocol'
<1>0. TypeOK /\ Handshake /\ link = "up" /\ Account /\ Handed
  BY DEF Protocol, ServerTick
<1>1. /\ Sent(others) \in Seq(ToClient) /\ to_client \in Seq(ToClient)
      /\ to_client' = to_client \o Sent(others) /\ TypeOK'
      /\ UNCHANGED <<client, to_server, link, history>>
  BY <1>0, ServerTicks DEF TypeOK
<1>2. /\ server'.state = State
      /\ server'.pending_entropies
           = SubSeq(server.pending_entropies, Accepts + 1, Len(server.pending_entropies))
  BY <1>0, ServerTicks DEF TypeOK, Server
<1>3. \A w \in [ToClient -> Nat] : Weigh(w, to_client') = Weigh(w, to_client) + Weigh(w, Sent(others))
  BY <1>1, WeighConcat
<1>4. /\ Weigh(States, to_client') = Weigh(States, to_client) + (IF First THEN 1 ELSE 0)
      /\ Weigh(Accepted, to_client') = Weigh(Accepted, to_client) + Accepts
  BY <1>0, <1>3, SentWeighs, WeightsAre
<1>5. Weigh(States, to_client) \in Nat
  BY <1>0, Weights
<1>6. First => ~Receives(server.state)
  BY DEF First, Receives
<1>7. Handshake'
  <2>1. client.state = "INITIATING_CONNECTION" => State = "PENDING_WELCOME"
    BY <1>0 DEF Handshake, State, First, Joining
  <2>2. ~Receives(State) => ~Receives(server.state)
    BY DEF State, Receives
  <2>3. client.state # "IN_GAME" => NotInGame'
    <3>. SUFFICES ASSUME client.state # "IN_GAME" PROVE NotInGame'
      OBVIOUS
    <3>1. NotInGame
      BY <1>0 DEF Handshake
    <3>2. Weigh(States, to_client') = IF Receives(State) THEN 1 ELSE 0
      <4>1. CASE First
        BY <1>4, <1>6, <3>1, <4>1 DEF NotInGame, State, Receives
      <4>2. CASE ~First
        BY <1>4, <1>5, <3>1, <4>2 DEF NotInGame, State
      <4>. QED  BY <4>1, <4>2
    <3>. QED  BY <1>1, <1>2, <3>1, <3>2 DEF NotInGame
  <2>4. Prepared(client.state, to_client')
    BY <1>1, PreparedForTick
  <2>. QED  BY <1>0, <1>1, <1>2, <2>1, <2>2, <2>3, <2>4 DEF Handshake
<1>8. Handed'
  <2>1. client.state = "IN_GAME" => Weigh(States, to_client') = Weigh(States, to_client)
    BY <1>0, <1>4, <1>5, <1>6 DEF Handshake
  <2>. QED  BY <1>0, <1>1, <2>1 DEF Handed
<1>9. Account'
  <2>. DEFINE n == Len(client.predicted_entropies)
              q == Len(server.pending_entropies)
              x == Weigh(Commands, to_server)
              a == Weigh(Accepted, to_client)
              i == Weigh(Accepted, client.incoming)
              f == history.forgotten
  <2>1. n = x + q + a + i + f
    BY <1>0 DEF Account
  <2>2. x \in Nat /\ q \in Nat /\ a \in Nat /\ i \in Nat /\ f \in Nat
    BY <1>0, Weights
  <2>3. Accepts \in 0..q
    BY <1>0, AcceptsWithin DEF TypeOK, Server
  <2>4. Len(server'.pending_entropies) = q - Accepts
    <3>1. server.pending_entropies \in Seq(Nat)
      BY <1>0, Weights
    <3>2. Accepts + 1 \in 1..q + 1 /\ q \in (Accepts + 1) - 1..q
      BY <2>2, <2>3
    <3>3. Len(SubSeq(server.pending_entropies, Accepts + 1, q)) = q - (Accepts + 1) + 1
      BY <2>2, <3>1, <3>2, SubSeqProperties
    <3>. HIDE DEF q
    <3>4. q - (Accepts + 1) + 1 = q - Accepts
      BY <2>2, <2>3
    <3>. QED  BY <1>2, <3>3, <3>4 DEF q
  <2>5. Account' <=> n = x + (q - Accepts) + (a + Accepts) + i + f
    BY <1>1, <1>4, <2>4 DEF Account
  <2>. HIDE DEF n, q, x, a, i, f
  <2>. QED  BY <2>1, <2>2, <2>3, <2>5
<1>. QED  BY <1>0, <1>1, <1>7, <1>8, <1>9 DEF Protocol

-----------------------------------------------------------------------------
(* A session starts with nothing sent, predicted or queued.                *)
LEMMA ProtocolInit == Init => Protocol
<1>. SUFFICES ASSUME Init PROVE Protocol
  OBVIOUS
<1>1. PICK arena \in Arenas :
        /\ server = [state |-> "PENDING_WELCOME", settings |-> DefaultSettings, rebroadcast |-> FALSE,
                     pending_entropies |-> <<>>, resyncs_counter |-> 0,
                     reinference_necessary |-> FALSE, world |-> Fresh(arena, FALSE)]
        /\ client = [state |-> "INITIATING_CONNECTION",
                     settings |-> DefaultSettings, own_settings |-> DefaultSettings,
                     sv_arena |-> arena, referential |-> Fresh(arena, FALSE),
                     predicted |-> Fresh(arena, FALSE), incoming |-> <<>>,
                     predicted_entropies |-> <<>>, schedule_reprediction |-> FALSE,
                     pending_request |-> FALSE, now_resyncing |-> FALSE]
  BY DEF Init
<1>2. /\ to_client = <<>> /\ to_server = <<>> /\ link = "up"
      /\ history = [overtaken |-> FALSE, behind |-> FALSE, forgotten |-> 0]
  BY DEF Init
<1>3. TypeOK
  <2>1. Fresh(arena, FALSE) \in World
    BY WorldsStay
  <2>5. /\ DefaultSettings \in Sensitivities
        /\ <<>> \in Seq(Nat) /\ <<>> \in Seq(StepMessage) /\ <<>> \in Seq(Entropy)
    BY LockstepAssumption
  <2>2. server \in Server
    BY <1>1, <2>1, <2>5 DEF Server
  <2>3. client \in Client
    BY <1>1, <2>1, <2>5 DEF Client
  <2>4. history \in History
    BY <1>2 DEF History
  <2>. QED  BY <1>2, <2>2, <2>3, <2>4 DEF TypeOK
<1>4. /\ Weigh(Commands, to_server) = 0 /\ Weigh(Requests, to_server) = 0
      /\ Weigh(States, to_client) = 0 /\ Weigh(Accepted, to_client) = 0
      /\ Weigh(Accepted, client.incoming) = 0
  BY <1>1, <1>2, WeighSmall, WeightsAre
<1>5. Handshake
  BY <1>1, <1>2, <1>4 DEF Handshake, NotInGame, Receives, Prepared
<1>6. Account /\ Handed
  BY <1>1, <1>2, <1>4 DEF Account, Handed
<1>. QED  BY <1>2, <1>3, <1>5, <1>6 DEF Protocol

(* No handler, no tick and no step of the client breaks the protocol.      *)
LEMMA ProtocolNext == Protocol /\ [Next]_vars => Protocol'
<1>. SUFFICES ASSUME Protocol, [Next]_vars PROVE Protocol'
  OBVIOUS
<1>1. CASE ServerHandlesSettings
  BY <1>1, ServerHandlesSettingsOrderly
<1>2. CASE ServerHandlesCommand
  BY <1>2, ServerHandlesCommandOrderly
<1>3. CASE ServerHandlesResync
  BY <1>3, ServerHandlesResyncOrderly
<1>4. CASE \E arena \in Arenas : ServerAppliesSolvableVars(arena)
  BY <1>4, ServerAppliesSolvableVarsOrderly
<1>5. CASE \E others \in Others : ServerTick(others)
  BY <1>5, ServerTickOrderly
<1>6. CASE ClientHandlesVars
  BY <1>6, ClientHandlesVarsOrderly
<1>7. CASE ClientHandlesInitialState
  BY <1>7, ClientHandlesInitialStateOrderly
<1>8. CASE ClientHandlesSettings
  BY <1>8, ClientHandlesSettingsOrderly
<1>9. CASE ClientHandlesStep
  BY <1>9, ClientHandlesStepOrderly
<1>10. CASE \E settings \in Sensitivities : ClientStepBeforeGame(settings)
  BY <1>10, ClientStepBeforeGameOrderly
<1>11. CASE \E settings \in Sensitivities, motion \in Motions : ClientStep(motion, settings)
  BY <1>11, ClientStepOrderly
<1>12. CASE UNCHANGED vars
  BY <1>12 DEF vars, Protocol, TypeOK, Handshake, NotInGame, Account, Handed
<1>. QED  BY <1>1, <1>2, <1>3, <1>4, <1>5, <1>6, <1>7, <1>8, <1>9, <1>10, <1>11, <1>12 DEF Next

(* Messages of server_setup and client_setup keep the types, the           *)
(* handshake of the session's states, and the two accounts (commands and   *)
(* requests for the state) as long as neither side disconnects.            *)
THEOREM KeepsProtocol == Spec => []Protocol
BY ProtocolInit, ProtocolNext, PTL DEF Spec

(* Neither side ever finds the other breaking the protocol                 *)
(* (handle_client_message and handle_server_payload never disconnect a     *)
(* peer for what it sent, but for too many resyncs, and a client else only *)
(* gives up with too many predictions), and each request for the state has *)
(* one answer.                                                             *)
THEOREM StaysOrderly == Spec => []Orderly
<1>1. Protocol => Orderly
  BY Weighed DEF Protocol, Orderly
<1>. QED  BY <1>1, KeepsProtocol, PTL

(* Every command sent by send_pending_commands is on its way, waits at     *)
(* the server, was accepted or was forgotten: predicted_entropies is as    *)
(* long.                                                                   *)
THEOREM ConservesCommands == Spec => []CommandsConserved
<1>1. Protocol => CommandsConserved
  BY Weighed DEF Protocol
<1>. QED  BY <1>1, KeepsProtocol, PTL

-----------------------------------------------------------------------------
(* The prediction.                                                         *)

(* Entropies are solved one by one.                                        *)
LEMMA SolvedInTurn ==
  ASSUME NEW w
  PROVE  /\ SolveAll(w, <<>>) = w
         /\ \A s \in Seq(Entropy), e \in Entropy : SolveAll(w, Append(s, e)) = Solve(SolveAll(w, s), e)
         /\ \A s, t \in Seq(Entropy) : SolveAll(w, s \o t) = SolveAll(SolveAll(w, s), t)
<1>1. SolveAll(w, <<>>) = w
  BY SolveAllIsFold, Solves!FoldEmpty
<1>2. ASSUME NEW s \in Seq(Entropy), NEW e \in Entropy
      PROVE  SolveAll(w, Append(s, e)) = Solve(SolveAll(w, s), e)
  BY SolveAllIsFold, Solves!FoldAppend
<1>3. ASSUME NEW s \in Seq(Entropy), NEW t \in Seq(Entropy)
      PROVE  SolveAll(w, s \o t) = SolveAll(SolveAll(w, s), t)
  BY SolveAllIsFold, Solves!FoldConcat
<1>. QED  BY <1>1, <1>2, <1>3

(* As long as nothing asks for a reprediction, what was unpacked is what   *)
(* was predicted first.                                                    *)
LEMMA UnpackedAsPredicted ==
  ASSUME TypeOK
  PROVE  /\ Untouched.repredict => Got.repredict
         /\ \/ Got.repredict
            \/ Got.accepted > Len(client.predicted_entropies)
            \/ Got.referential
                 = SolveAll(client.referential, SubSeq(client.predicted_entropies, 1, Got.accepted))
<1>. DEFINE pe == client.predicted_entropies
            first(n) == SolveAll(client.referential, SubSeq(pe, 1, n))
            P(r) == /\ Untouched.repredict => r.repredict
                    /\ \/ r.repredict
                       \/ r.accepted > Len(pe)
                       \/ r.referential = first(r.accepted)
            T == {r \in Result : P(r)}
<1>1. pe \in Seq(Entropy) /\ client.incoming \in Seq(StepMessage) /\ Len(pe) \in Nat
  BY DEF TypeOK, Client
<1>2. Untouched \in T
  <2>1. Untouched \in Result
    BY DEF Untouched, Result, TypeOK, Client
  <2>2. SubSeq(pe, 1, 0) = <<>>
    BY <1>1, SubSeqEmpty
  <2>3. Untouched.referential = client.referential /\ Untouched.accepted = 0
    BY DEF Untouched
  <2>. HIDE DEF pe
  <2>4. SolveAll(client.referential, SubSeq(pe, 1, 0)) = client.referential
    BY <2>2, SolvedInTurn
  <2>. QED  BY <2>1, <2>3, <2>4
<1>. HIDE DEF first
<1>4. \A x : x \in T <=> x \in Result /\ P(x)
  OBVIOUS
<1>. HIDE DEF T
<1>3. ASSUME NEW r \in T, NEW m \in StepMessage PROVE UnpackStep(r, m) \in T
  <2>. DEFINE entropy == Unpacked(m.payload, r.referential.joined, client.own_settings)
              next == UnpackStep(r, m)
  <2>1. next \in Result
    BY <1>4, UnpackedResult
  <2>2. /\ r.repredict => next.repredict
        /\ next.accepted = r.accepted + m.accepted
        /\ next.referential = Solve(r.referential, entropy)
        /\ ~next.repredict => m.accepted = 1 /\ Foreseen(entropy, r.accepted + 1)
    BY DEF UnpackStep
  <2>3. r \in Result /\ r.accepted \in Nat /\ P(r)
    BY <1>4 DEF Result
  <2>. HIDE DEF next, entropy
  <2>4. CASE next.repredict
    <3>1. P(next)
      BY <2>2, <2>4
    <3>. HIDE DEF P
    <3>. QED  BY <1>4, <2>1, <3>1 DEF next
  <2>5. CASE ~next.repredict
    <3>1. m.accepted = 1 /\ next.accepted = r.accepted + 1 /\ ~r.repredict
      BY <2>2, <2>5
    <3>2. CASE r.accepted + 1 > Len(pe)
      <4>1. P(next)
        BY <2>2, <2>3, <3>1, <3>2
      <4>. HIDE DEF P
      <4>. QED  BY <1>4, <2>1, <4>1 DEF next
    <3>3. CASE r.accepted + 1 <= Len(pe)
      <4>1. r.accepted + 1 \in DOMAIN pe
        BY <1>1, <2>3, <3>3
      <4>2. entropy = pe[r.accepted + 1]
        BY <2>2, <2>5, <4>1 DEF Foreseen
      <4>3. r.referential = first(r.accepted)
        BY <1>1, <2>3, <3>1, <3>3
      <4>4. /\ SubSeq(pe, 1, r.accepted + 1) = Append(SubSeq(pe, 1, r.accepted), pe[r.accepted + 1])
            /\ SubSeq(pe, 1, r.accepted) \in Seq(Entropy) /\ pe[r.accepted + 1] \in Entropy
        <5>. HIDE DEF pe
        <5>. QED  BY <1>1, <2>3, <4>1
      <4>5. first(r.accepted + 1) = Solve(r.referential, entropy)
        <5>1. first(r.accepted + 1) = Solve(first(r.accepted), pe[r.accepted + 1])
          <6>1. \A s \in Seq(Entropy), e \in Entropy :
                  SolveAll(client.referential, Append(s, e)) = Solve(SolveAll(client.referential, s), e)
            BY SolvedInTurn
          <6>. HIDE DEF pe
          <6>. QED  BY <4>4, <6>1 DEF first
        <5>. QED  BY <4>2, <4>3, <5>1
      <4>6. P(next)
        BY <2>2, <2>3, <3>1, <4>5
      <4>. HIDE DEF P
      <4>. QED  BY <1>4, <2>1, <4>6 DEF next
    <3>. QED  BY <1>1, <2>3, <3>2, <3>3
  <2>. QED  BY <2>4, <2>5 DEF next
<1>5. Got \in T
  <2>. QED  BY <1>1, <1>2, <1>3, UnpackIsFold, Unpacks!FoldClosed DEF Got
<1>. QED  BY <1>4, <1>5 DEF first

(* Unless it is repredicted, what remains continues what was unpacked.     *)
LEMMA PredictionContinues ==
  ASSUME TypeOK, Got.accepted <= Len(client.predicted_entropies), ~Got.repredict
  PROVE  SolveAll(Got.referential, Rest) = SolveAll(client.referential, client.predicted_entropies)
<1>. DEFINE pe == client.predicted_entropies
            n == Got.accepted
            taken == SubSeq(pe, 1, n)
            left == SubSeq(pe, n + 1, Len(pe))
<1>1. pe \in Seq(Entropy) /\ n \in Nat /\ Len(pe) \in Nat /\ n <= Len(pe)
  <2>1. Got \in Result
    BY ResultIsResult DEF Got
  <2>. QED  BY <2>1 DEF TypeOK, Client, Result
<1>2. Got.referential = SolveAll(client.referential, taken)
  BY <1>1, UnpackedAsPredicted
<1>3. Rest = left
  BY DEF Rest, Remaining
<1>. HIDE DEF pe, n
<1>4. taken \in Seq(Entropy) /\ left \in Seq(Entropy) /\ taken \o left = pe
  <2>1. taken \in Seq(Entropy) /\ left \in Seq(Entropy)
    BY <1>1
  <2>2. taken \o left = SubSeq(pe, 1, Len(pe))
    <3>1. 1 \in 1..Len(pe) + 1 /\ n \in 1 - 1..Len(pe) /\ Len(pe) \in n..Len(pe)
      BY <1>1
    <3>. QED  BY <1>1, <3>1, ConcatAdjacentSubSeq
  <2>3. SubSeq(pe, 1, Len(pe)) = pe
    BY <1>1, SubSeqFull
  <2>. QED  BY <2>1, <2>2, <2>3
<1>. HIDE DEF taken, left
<1>5. SolveAll(client.referential, taken \o left) = SolveAll(SolveAll(client.referential, taken), left)
  <2>1. \A s, t \in Seq(Entropy) :
          SolveAll(client.referential, s \o t) = SolveAll(SolveAll(client.referential, s), t)
    BY ONLY SolvedInTurn
  <2>. QED  BY ONLY <1>4, <2>1
<1>6. client.predicted_entropies = taken \o left
  BY <1>4 DEF pe
<1>. QED  BY ONLY <1>2, <1>3, <1>5, <1>6

(* Every handler that touches a world either leaves both as they were,     *)
(* makes them equal with nothing predicted, or schedules the               *)
(* reprediction.                                                           *)
LEMMA PredictionNext == Protocol /\ Protocol' /\ PredictionCurrent /\ [Next]_vars => PredictionCurrent'
<1>. SUFFICES ASSUME Protocol, Protocol', PredictionCurrent, [Next]_vars PROVE PredictionCurrent'
  OBVIOUS
<1>0. TypeOK /\ Handshake /\ client \in Client /\ history \in History
  BY DEF Protocol, TypeOK
<1>1. CASE UNCHANGED <<client, history>>
  BY <1>1 DEF PredictionCurrent
<1>2. CASE ClientHandlesVars
  <2>. DEFINE arena   == Head(to_client).arena
              initial == client.state = "PENDING_WELCOME"
              loads   == initial \/ arena # client.sv_arena
              world   == Fresh(arena, client.referential.joined)
  <2>1. /\ client'.schedule_reprediction = client.schedule_reprediction
        /\ client'.predicted_entropies = client.predicted_entropies
        /\ client'.referential = IF loads THEN world ELSE client.referential
        /\ client'.predicted = IF loads THEN world ELSE client.predicted
        /\ history'.behind = IF loads THEN client.predicted_entropies # <<>> ELSE history.behind
    BY <1>0, <1>2 DEF ClientHandlesVars, Client, History
  <2>. HIDE DEF world, loads
  <2>2. CASE loads /\ client.predicted_entropies = <<>>
    BY <2>1, <2>2, SolvedInTurn DEF PredictionCurrent
  <2>3. CASE loads /\ client.predicted_entropies # <<>>
    BY <2>1, <2>3 DEF PredictionCurrent
  <2>4. CASE ~loads
    BY <2>1, <2>4 DEF PredictionCurrent
  <2>. QED  BY <2>2, <2>3, <2>4
<1>3. CASE ClientHandlesInitialState
  <2>. DEFINE world == Head(to_client).world
  <2>1. link' \in {"up", "too many resyncs", "too many predictions"}
    BY DEF Protocol
  <2>2. /\ client.now_resyncing \/ client.state = "RECEIVING_INITIAL_STATE"
        /\ client' = [client EXCEPT
             !.state = "IN_GAME", !.now_resyncing = FALSE, !.referential = world, !.predicted = world,
             !.schedule_reprediction = client.schedule_reprediction \/ client.now_resyncing,
             !.incoming = <<>>]
    BY <1>3, <2>1 DEF ClientHandlesInitialState
  <2>3. /\ client'.schedule_reprediction = (client.schedule_reprediction \/ client.now_resyncing)
        /\ client'.predicted_entropies = client.predicted_entropies
        /\ client'.referential = world /\ client'.predicted = world
    BY <1>0, <2>2 DEF Client
  <2>4. CASE client.now_resyncing
    BY <2>3, <2>4 DEF PredictionCurrent
  <2>5. CASE ~client.now_resyncing
    <3>1. client.predicted_entropies = <<>>
      BY <1>0, <2>2, <2>5 DEF Handshake, NotInGame
    <3>. QED  BY <2>3, <3>1, SolvedInTurn DEF PredictionCurrent
  <2>. QED  BY <2>4, <2>5
<1>4. CASE ClientHandlesSettings
  BY <1>0, <1>4 DEF ClientHandlesSettings, PredictionCurrent, Client, History
<1>5. CASE ClientHandlesStep
  BY <1>0, <1>5 DEF ClientHandlesStep, PredictionCurrent, Client, History
<1>6. ASSUME NEW settings \in Sensitivities, ClientStepBeforeGame(settings) PROVE PredictionCurrent'
  BY <1>0, <1>6 DEF ClientStepBeforeGame, PredictionCurrent, Client
<1>7. ASSUME NEW settings \in Sensitivities, NEW motion \in Motions, ClientStep(motion, settings)
      PROVE  PredictionCurrent'
  <2>1. /\ Got \in Result /\ Local(motion) \in Entropy /\ Rest \in Seq(Entropy)
        /\ client' = [client EXCEPT
             !.settings = settings, !.referential = Got.referential, !.incoming = <<>>,
             !.predicted_entropies = Append(Rest, Local(motion)),
             !.predicted = Solve(Current, Local(motion)),
             !.schedule_reprediction = client.schedule_reprediction /\ client.predicted_entropies = <<>>,
             !.pending_request = Noticed,
             !.now_resyncing = client.now_resyncing \/ Noticed]
        /\ history' = [history EXCEPT !.behind = history.behind /\ ~Got.repredict]
    BY <1>0, <1>7, ClientSteps
  <2>2. /\ client'.predicted_entropies = Append(Rest, Local(motion))
        /\ client'.predicted = Solve(Current, Local(motion))
        /\ client'.referential = Got.referential
        /\ client'.schedule_reprediction = (client.schedule_reprediction /\ client.predicted_entropies = <<>>)
        /\ history'.behind = (history.behind /\ ~Got.repredict)
    BY <1>0, <2>1 DEF Client, History
  <2>3. Got.accepted <= Len(client.predicted_entropies)
    BY <1>7, ClientStepOrderly
  <2>4. \/ Current = SolveAll(Got.referential, Rest)
        \/ history.behind /\ ~Got.repredict
        \/ client.schedule_reprediction /\ client.predicted_entropies = <<>>
    <3>1. CASE Got.repredict
      BY <3>1 DEF Current
    <3>2. CASE ~Got.repredict
      <4>1. ~(client.schedule_reprediction /\ client.predicted_entropies # <<>>)
        BY <1>0, <3>2, UnpackedAsPredicted DEF Untouched
      <4>2. SolveAll(Got.referential, Rest) = SolveAll(client.referential, client.predicted_entropies)
        BY <1>0, <2>3, <3>2, PredictionContinues
      <4>. QED  BY <3>2, <4>1, <4>2 DEF PredictionCurrent, Current
    <3>. QED  BY <3>1, <3>2
  <2>5. SolveAll(Got.referential, Append(Rest, Local(motion))) = Solve(SolveAll(Got.referential, Rest), Local(motion))
    BY <2>1, SolvedInTurn
  <2>. QED  BY <2>2, <2>4, <2>5 DEF PredictionCurrent
<1>8. CASE \/ ServerHandlesSettings \/ ServerHandlesCommand \/ ServerHandlesResync
           \/ \E arena \in Arenas : ServerAppliesSolvableVars(arena)
           \/ \E others \in Others : ServerTick(others)
           \/ UNCHANGED vars
  <2>1. UNCHANGED <<client, history>>
    BY <1>8 DEF ServerHandlesSettings, ServerHandlesCommand, ServerHandlesResync,
                ServerAppliesSolvableVars, ServerTick, vars
  <2>. QED  BY <1>1, <2>1
<1>. QED  BY <1>2, <1>3, <1>4, <1>5, <1>6, <1>7, <1>8 DEF Next

(* After every step of client_setup::advance the predicted world is the    *)
(* referential one with the predictions on top, or is about to be.         *)
THEOREM KeepsPredictionCurrent == Spec => []PredictionCurrent
<1>1. Init => PredictionCurrent
  <2>. SUFFICES ASSUME Init PROVE PredictionCurrent
    OBVIOUS
  <2>1. client.predicted = client.referential /\ client.predicted_entropies = <<>>
    BY DEF Init
  <2>. QED  BY <2>1, SolvedInTurn DEF PredictionCurrent
<1>. QED  BY <1>1, PredictionNext, KeepsProtocol, PTL DEF Spec

-----------------------------------------------------------------------------
(* The run of what the client has still to hear.                           *)
Start ==
  [world |-> client.referential, settings |-> client.own_settings, arena |-> client.sv_arena,
   excused |-> history.overtaken \/ client.state # "IN_GAME", ok |-> TRUE]

HearStep(run, message) ==
  [run EXCEPT !.ok = @ /\ (run.excused \/ message.hash = Hash(run.world)),
              !.world = Solve(@, Unpacked(message.payload, @.joined, run.settings))]
HearVars(run, message) ==
  IF message.arena # run.arena
  THEN [run EXCEPT !.arena = message.arena, !.world = Fresh(message.arena, @.joined)]
  ELSE [run EXCEPT !.excused = TRUE]
HearInitial(run, message)  == [run EXCEPT !.world = message.world, !.excused = FALSE]
HearSettings(run, message) == [run EXCEPT !.settings = message.settings]

Hear(run, message) ==
  CASE message.type = "step"     -> HearStep(run, message)
    [] message.type = "vars"     -> HearVars(run, message)
    [] message.type = "initial"  -> HearInitial(run, message)
    [] message.type = "settings" -> HearSettings(run, message)

Hears == INSTANCE SeqFolds WITH Op <- Hear
Heard(run, messages) == Hears!Fold(run, messages)

(* Where it ends, it is as at the server, or else as it was once.          *)
Arrives(run) ==
  /\ run.ok
  /\ run.arena = server.world.arena
  /\ server.rebroadcast \/ run.settings = server.settings
  /\ Receives(server.state) => run.excused \/ run.world = server.world

End == Heard(Start, client.incoming \o to_client)
Agrees == Arrives(End)

Run == [world : World, settings : Sensitivities, arena : Arenas, excused : BOOLEAN, ok : BOOLEAN]

(* One message more, by its type.                                          *)
LEMMA HeardOne ==
  ASSUME NEW r \in Run, NEW m \in ToClient
  PROVE  /\ Hear(r, m) \in Run
         /\ m.type \in {"step", "vars", "initial", "settings"}
         /\ m.type = "step" =>
              /\ m \in StepMessage
              /\ Hear(r, m).world = Solve(r.world, Unpacked(m.payload, r.world.joined, r.settings))
              /\ Hear(r, m).settings = r.settings /\ Hear(r, m).arena = r.arena
              /\ Hear(r, m).excused = r.excused
              /\ Hear(r, m).ok = (r.ok /\ (r.excused \/ m.hash = Hash(r.world)))
         /\ m.type = "vars" =>
              /\ Hear(r, m).settings = r.settings /\ Hear(r, m).arena = m.arena /\ Hear(r, m).ok = r.ok
              /\ IF m.arena # r.arena
                 THEN Hear(r, m).world = Fresh(m.arena, r.world.joined) /\ Hear(r, m).excused = r.excused
                 ELSE Hear(r, m).excused
         /\ m.type = "initial" =>
              /\ Hear(r, m).world = m.world /\ ~Hear(r, m).excused
              /\ Hear(r, m).settings = r.settings /\ Hear(r, m).arena = r.arena /\ Hear(r, m).ok = r.ok
         /\ m.type = "settings" =>
              /\ Hear(r, m).settings = m.settings
              /\ Hear(r, m).world = r.world /\ Hear(r, m).arena = r.arena
              /\ Hear(r, m).excused = r.excused /\ Hear(r, m).ok = r.ok
<1>0. /\ r.world \in World /\ r.world.joined \in BOOLEAN /\ r.settings \in Sensitivities
      /\ r.arena \in Arenas /\ r.excused \in BOOLEAN /\ r.ok \in BOOLEAN
  BY DEF Run, World
<1>1. CASE m \in StepMessage
  <2>. DEFINE world == Solve(r.world, Unpacked(m.payload, r.world.joined, r.settings))
              ok == r.ok /\ (r.excused \/ m.hash = Hash(r.world))
  <2>1. m.type = "step"
    BY <1>1 DEF StepMessage
  <2>2. world \in World
    <3>1. Unpacked(m.payload, r.world.joined, r.settings) \in Entropy
      BY <1>0, <1>1, WorldsStay DEF StepMessage
    <3>. QED  BY <1>0, <3>1, SolvedWorld
  <2>3. ok \in BOOLEAN
    BY <1>0
  <2>4. Hear(r, m) = [r EXCEPT !.ok = ok, !.world = world]
    BY <2>1 DEF Hear, HearStep
  <2>. HIDE DEF world, ok
  <2>5. /\ Hear(r, m) \in Run /\ Hear(r, m).world = world /\ Hear(r, m).settings = r.settings
        /\ Hear(r, m).arena = r.arena /\ Hear(r, m).excused = r.excused /\ Hear(r, m).ok = ok
    BY <2>2, <2>3, <2>4 DEF Run
  <2>. QED  BY <1>1, <2>1, <2>5 DEF world, ok
<1>2. CASE m \in [type : {"vars"}, arena : Arenas]
  <2>. DEFINE world == Fresh(m.arena, r.world.joined)
  <2>1. m.type = "vars" /\ world \in World /\ m.arena \in Arenas
    BY <1>0, <1>2, WorldsStay
  <2>. HIDE DEF world
  <2>2. CASE m.arena # r.arena
    <3>1. Hear(r, m) = [r EXCEPT !.arena = m.arena, !.world = world]
      BY <2>1, <2>2 DEF Hear, HearVars, world
    <3>. QED  BY <2>1, <2>2, <3>1 DEF Run, world
  <2>3. CASE m.arena = r.arena
    <3>1. Hear(r, m) = [r EXCEPT !.excused = TRUE]
      BY <2>1, <2>3 DEF Hear, HearVars
    <3>. QED  BY <2>1, <2>3, <3>1 DEF Run
  <2>. QED  BY <2>2, <2>3
<1>3. CASE m \in [type : {"initial"}, world : World]
  <2>1. m.type = "initial" /\ m.world \in World
    BY <1>3
  <2>2. Hear(r, m) = [r EXCEPT !.world = m.world, !.excused = FALSE]
    BY <2>1 DEF Hear, HearInitial
  <2>. QED  BY <2>1, <2>2 DEF Run
<1>4. CASE m \in [type : {"settings"}, settings : Sensitivities]
  <2>1. m.type = "settings" /\ m.settings \in Sensitivities
    BY <1>4
  <2>2. Hear(r, m) = [r EXCEPT !.settings = m.settings]
    BY <2>1 DEF Hear, HearSettings
  <2>. QED  BY <2>1, <2>2 DEF Run
<1>. QED  BY <1>1, <1>2, <1>3, <1>4 DEF ToClient

(* Messages are heard one after the other.                                 *)
LEMMA HeardInTurn ==
  ASSUME NEW r \in Run
  PROVE  /\ Heard(r, <<>>) = r
         /\ \A s \in Seq(ToClient) : Heard(r, s) \in Run
         /\ \A m \in ToClient : Heard(r, <<m>>) = Hear(r, m)
         /\ \A s \in Seq(ToClient), m \in ToClient : Heard(r, Append(s, m)) = Hear(Heard(r, s), m)
         /\ \A s, t \in Seq(ToClient) : Heard(r, s \o t) = Heard(Heard(r, s), t)
<1>1. Heard(r, <<>>) = r
  BY Hears!FoldEmpty DEF Heard
<1>2. ASSUME NEW s \in Seq(ToClient) PROVE Heard(r, s) \in Run
  <2>1. \A x \in Run, m \in ToClient : Hear(x, m) \in Run
    BY HeardOne
  <2>. QED  BY <2>1, Hears!FoldClosed DEF Heard
<1>3. ASSUME NEW m \in ToClient PROVE Heard(r, <<m>>) = Hear(r, m)
  BY Hears!FoldSingle DEF Heard
<1>4. ASSUME NEW s \in Seq(ToClient), NEW m \in ToClient
      PROVE  Heard(r, Append(s, m)) = Hear(Heard(r, s), m)
  BY Hears!FoldAppend DEF Heard
<1>5. ASSUME NEW s \in Seq(ToClient), NEW t \in Seq(ToClient)
      PROVE  Heard(r, s \o t) = Heard(Heard(r, s), t)
  BY Hears!FoldConcat DEF Heard
<1>. QED  BY <1>1, <1>2, <1>3, <1>4, <1>5

(* Steps change nothing but the world, and what is excused stays right.    *)
LEMMA StepsKeep ==
  ASSUME NEW r \in Run, NEW s \in Seq(StepMessage)
  PROVE  /\ Heard(r, s) \in Run
         /\ Heard(r, s).settings = r.settings /\ Heard(r, s).arena = r.arena
         /\ Heard(r, s).excused = r.excused
         /\ r.excused /\ r.ok => Heard(r, s).ok
<1>. DEFINE T == {x \in Run : /\ x.settings = r.settings /\ x.arena = r.arena
                              /\ x.excused = r.excused
                              /\ r.excused /\ r.ok => x.ok}
<1>1. r \in T
  OBVIOUS
<1>2. ASSUME NEW x \in T, NEW m \in StepMessage PROVE Hear(x, m) \in T
  <2>1. m \in ToClient /\ m.type = "step" /\ x \in Run
    BY DEF ToClient, StepMessage
  <2>2. /\ Hear(x, m) \in Run /\ Hear(x, m).settings = x.settings /\ Hear(x, m).arena = x.arena
        /\ Hear(x, m).excused = x.excused /\ (x.ok /\ x.excused => Hear(x, m).ok)
    BY <2>1, HeardOne
  <2>. QED  BY <2>2
<1>3. Heard(r, s) \in T
  <2>. HIDE DEF T
  <2>. QED  BY <1>1, <1>2, Hears!FoldClosed DEF Heard
<1>. QED  BY <1>3

(* What was wrong stays wrong.                                             *)
LEMMA WrongStays ==
  ASSUME NEW r \in Run, NEW s \in Seq(ToClient), Heard(r, s).ok
  PROVE  r.ok
<1>. SUFFICES ASSUME ~r.ok PROVE FALSE
  OBVIOUS
<1>. DEFINE T == {x \in Run : ~x.ok}
<1>1. r \in T
  OBVIOUS
<1>2. ASSUME NEW x \in T, NEW m \in ToClient PROVE Hear(x, m) \in T
  <2>1. Hear(x, m) \in Run /\ ~Hear(x, m).ok
    BY HeardOne
  <2>. QED  BY <2>1
<1>3. Heard(r, s) \in T
  <2>. HIDE DEF T
  <2>. QED  BY <1>1, <1>2, Hears!FoldClosed DEF Heard
<1>. QED  BY <1>3

(* A run that claims no more than another, and so arrives if that does.    *)
Weaker(b, a) ==
  /\ b.settings = a.settings /\ b.arena = a.arena
  /\ a.ok => b.ok
  /\ b.excused \/ (~a.excused /\ b.world = a.world)

(* However much more is heard, it claims no more.                          *)
LEMMA WeakerStays ==
  ASSUME NEW a \in Run, NEW b \in Run, Weaker(b, a), NEW s \in Seq(ToClient)
  PROVE  Weaker(Heard(b, s), Heard(a, s))
<1>. DEFINE R == {q \in Run \X Run : Weaker(q[1], q[2])}
<1>0. \A x, y : <<x, y>> \in R <=> x \in Run /\ y \in Run /\ Weaker(x, y)
  OBVIOUS
<1>1. <<b, a>> \in R
  BY <1>0
<1>2. ASSUME NEW x, NEW y, NEW m \in ToClient, <<x, y>> \in R
      PROVE  <<Hear(x, m), Hear(y, m)>> \in R
  <2>1. x \in Run /\ y \in Run /\ Weaker(x, y)
    BY <1>0, <1>2
  <2>. HIDE DEF R
  <2>2. Hear(x, m) \in Run /\ Hear(y, m) \in Run
    BY <2>1, HeardOne
  <2>. SUFFICES Weaker(Hear(x, m), Hear(y, m))
    BY <1>0, <2>2
  <2>3. CASE m.type = "step"
    <3>1. /\ Hear(x, m).world = Solve(x.world, Unpacked(m.payload, x.world.joined, x.settings))
          /\ Hear(x, m).settings = x.settings /\ Hear(x, m).arena = x.arena
          /\ Hear(x, m).excused = x.excused
          /\ Hear(x, m).ok = (x.ok /\ (x.excused \/ m.hash = Hash(x.world)))
      BY <2>1, <2>3, HeardOne
    <3>2. /\ Hear(y, m).world = Solve(y.world, Unpacked(m.payload, y.world.joined, y.settings))
          /\ Hear(y, m).settings = y.settings /\ Hear(y, m).arena = y.arena
          /\ Hear(y, m).excused = y.excused
          /\ Hear(y, m).ok = (y.ok /\ (y.excused \/ m.hash = Hash(y.world)))
      BY <2>1, <2>3, HeardOne
    <3>. QED  BY <2>1, <3>1, <3>2 DEF Weaker
  <2>4. CASE m.type = "vars"
    <3>1. /\ Hear(x, m).settings = x.settings /\ Hear(x, m).arena = m.arena /\ Hear(x, m).ok = x.ok
          /\ IF m.arena # x.arena
             THEN Hear(x, m).world = Fresh(m.arena, x.world.joined) /\ Hear(x, m).excused = x.excused
             ELSE Hear(x, m).excused
      BY <2>1, <2>4, HeardOne
    <3>2. /\ Hear(y, m).settings = y.settings /\ Hear(y, m).arena = m.arena /\ Hear(y, m).ok = y.ok
          /\ IF m.arena # y.arena
             THEN Hear(y, m).world = Fresh(m.arena, y.world.joined) /\ Hear(y, m).excused = y.excused
             ELSE Hear(y, m).excused
      BY <2>1, <2>4, HeardOne
    <3>. QED  BY <2>1, <3>1, <3>2 DEF Weaker
  <2>5. CASE m.type = "initial"
    <3>1. /\ Hear(x, m).world = m.world /\ ~Hear(x, m).excused
          /\ Hear(x, m).settings = x.settings /\ Hear(x, m).arena = x.arena /\ Hear(x, m).ok = x.ok
      BY <2>1, <2>5, HeardOne
    <3>2. /\ Hear(y, m).world = m.world /\ ~Hear(y, m).excused
          /\ Hear(y, m).settings = y.settings /\ Hear(y, m).arena = y.arena /\ Hear(y, m).ok = y.ok
      BY <2>1, <2>5, HeardOne
    <3>. QED  BY <2>1, <3>1, <3>2 DEF Weaker
  <2>6. CASE m.type = "settings"
    <3>1. /\ Hear(x, m).settings = m.settings /\ Hear(x, m).world = x.world
          /\ Hear(x, m).arena = x.arena /\ Hear(x, m).excused = x.excused /\ Hear(x, m).ok = x.ok
      BY <2>1, <2>6, HeardOne
    <3>2. /\ Hear(y, m).settings = m.settings /\ Hear(y, m).world = y.world
          /\ Hear(y, m).arena = y.arena /\ Hear(y, m).excused = y.excused /\ Hear(y, m).ok = y.ok
      BY <2>1, <2>6, HeardOne
    <3>. QED  BY <2>1, <3>1, <3>2 DEF Weaker
  <2>. QED  BY <2>1, <2>3, <2>4, <2>5, <2>6, HeardOne
<1>3. <<Heard(b, s), Heard(a, s)>> \in R
  <2>. HIDE DEF R
  <2>. QED  BY <1>1, <1>2, Hears!FoldRelates DEF Heard
<1>. QED  BY <1>0, <1>3

(* A run that is excused where another is, and equal otherwise, arrives    *)
(* where the other does.                                                   *)
LEMMA WeakerArrives ==
  ASSUME NEW a \in Run, NEW b \in Run, Weaker(b, a), Arrives(a)
  PROVE  Arrives(b)
BY DEF Weaker, Arrives

(* What the client has resolved, queued and not yet received is a run,     *)
(* heard in turn.                                                          *)
LEMMA RunStarts ==
  ASSUME TypeOK
  PROVE  /\ Start \in Run /\ client.incoming \in Seq(ToClient) /\ to_client \in Seq(ToClient)
         /\ Heard(Start, client.incoming) \in Run
         /\ Heard(Start, client.incoming \o to_client) \in Run
         /\ Heard(Start, client.incoming \o to_client) = Heard(Heard(Start, client.incoming), to_client)
<1>1. Start \in Run
  BY DEF Start, Run, TypeOK, Client, History
<1>2. client.incoming \in Seq(ToClient) /\ to_client \in Seq(ToClient)
  BY Weights DEF TypeOK
<1>3. client.incoming \o to_client \in Seq(ToClient)
  BY <1>2, ConcatProperties
<1>. QED  BY <1>1, <1>2, <1>3, HeardInTurn

(* What the client makes of its steps is what the run makes of them.       *)
LEMMA UnpackRuns ==
  ASSUME TypeOK
  PROVE  /\ Heard(Start, client.incoming).world = Got.referential
         /\ Heard(Start, client.incoming).ok <=> Start.excused \/ ~Got.desync
<1>. DEFINE n == Len(client.incoming)
            Same(r, u) == /\ r \in Run /\ u \in Result
                          /\ r.settings = client.own_settings /\ r.excused = Start.excused
                          /\ r.world = u.referential
                          /\ r.ok <=> Start.excused \/ ~u.desync
<1>1. client.incoming \in Seq(StepMessage)
  BY DEF TypeOK, Client
<1>2. n \in Nat /\ DOMAIN client.incoming = 1..n
  BY <1>1
<1>3. PICK h : Unpacks!Unfolds(h, Untouched, client.incoming, n) /\ Got = h[n]
  BY <1>2, Unpacks!FoldUnfold, UnpackIsFold DEF Got
<1>4. PICK g : Hears!Unfolds(g, Start, client.incoming, n) /\ Heard(Start, client.incoming) = g[n]
  BY <1>2, Hears!FoldUnfold DEF Heard
<1>5. Same(g[0], h[0])
  <2>1. g[0] = Start /\ h[0] = Untouched
    BY <1>3, <1>4 DEF Unpacks!Unfolds, Hears!Unfolds
  <2>2. Start \in Run /\ Start.settings = client.own_settings /\ Start.world = client.referential /\ Start.ok
    BY RunStarts DEF Start
  <2>3. Untouched \in Result /\ Untouched.referential = client.referential /\ ~Untouched.desync
    BY DEF Untouched, Result, TypeOK, Client
  <2>. QED  BY <2>1, <2>2, <2>3
<1>6. ASSUME NEW r, NEW u, NEW m \in StepMessage, Same(r, u)
      PROVE  Same(Hear(r, m), UnpackStep(u, m))
  <2>1. m \in ToClient /\ m.type = "step"
    BY DEF ToClient, StepMessage
  <2>2. /\ Hear(r, m) \in Run
        /\ Hear(r, m).world = Solve(r.world, Unpacked(m.payload, r.world.joined, r.settings))
        /\ Hear(r, m).settings = r.settings /\ Hear(r, m).excused = r.excused
        /\ Hear(r, m).ok = (r.ok /\ (r.excused \/ m.hash = Hash(r.world)))
    BY <1>6, <2>1, HeardOne
  <2>3. UnpackStep(u, m) \in Result
    BY <1>6, UnpackedResult
  <2>4. /\ UnpackStep(u, m).referential
             = Solve(u.referential, Unpacked(m.payload, u.referential.joined, client.own_settings))
        /\ UnpackStep(u, m).desync = (u.desync \/ m.hash # Hash(u.referential))
    BY DEF UnpackStep
  <2>. QED  BY <1>6, <2>2, <2>3, <2>4
<1>. HIDE DEF Same
<1>. DEFINE P == {k \in Nat : k <= n => Same(g[k], h[k])}
<1>7. 0 \in P
  BY <1>5
<1>8. ASSUME NEW k \in Nat, k \in P PROVE k + 1 \in P
  <2>. SUFFICES ASSUME k + 1 <= n PROVE Same(g[k + 1], h[k + 1])
    OBVIOUS
  <2>1. k \in 0..n - 1 /\ Same(g[k], h[k]) /\ client.incoming[k + 1] \in StepMessage
    BY <1>1, <1>2, <1>8
  <2>2. g[k + 1] = Hear(g[k], client.incoming[k + 1]) /\ h[k + 1] = UnpackStep(h[k], client.incoming[k + 1])
    BY <1>3, <1>4, <2>1 DEF Unpacks!Unfolds, Hears!Unfolds
  <2>. QED  BY <1>6, <2>1, <2>2
<1>9. n \in P
  <2>. HIDE DEF P
  <2>. QED  BY <1>2, <1>7, <1>8, Sums!NatInduct
<1>. QED  BY <1>2, <1>3, <1>4, <1>9 DEF Same

(* What is sent now is heard at the end.                                   *)
LEMMA HeardLater ==
  ASSUME TypeOK, NEW more \in Seq(ToClient)
  PROVE  /\ End \in Run
         /\ Heard(Start, client.incoming \o (to_client \o more)) = Heard(End, more)
<1>1. /\ Start \in Run /\ client.incoming \in Seq(ToClient) /\ to_client \in Seq(ToClient)
      /\ End \in Run
  BY RunStarts DEF End
<1>2. client.incoming \o to_client \in Seq(ToClient)
  BY <1>1, ConcatProperties
<1>3. client.incoming \o (to_client \o more) = (client.incoming \o to_client) \o more
  <2>1. \A a, b, c \in Seq(ToClient) : a \o (b \o c) = (a \o b) \o c
    BY ConcatAssociative, SMTT(20)
  <2>. QED  BY <1>1, <2>1
<1>4. Heard(Start, (client.incoming \o to_client) \o more) = Heard(End, more)
  BY <1>1, <1>2, HeardInTurn, ZenonT(40) DEF End
<1>. QED  BY <1>1, <1>3, <1>4

(* While the client does nothing, the run goes on at its end.              *)
LEMMA AgreesLater ==
  ASSUME UNCHANGED <<client, history>>
  PROVE  /\ End' = Heard(Start, client.incoming \o to_client')
         /\ Agrees' <=> /\ End'.ok
                        /\ End'.arena = server'.world.arena
                        /\ server'.rebroadcast \/ End'.settings = server'.settings
                        /\ Receives(server'.state) => End'.excused \/ End'.world = server'.world
<1>1. Start' = Start
  BY DEF Start
<1>2. End' = Heard(Start, client.incoming \o to_client')
  BY <1>1 DEF End
<1>. QED  BY <1>2 DEF Agrees, Arrives

(* The server's handlers change no world without sending the news: the     *)
(* run of the client still arrives.                                        *)
LEMMA ServerHandlesAgrees ==
  ASSUME Protocol, Agrees,
         \/ ServerHandlesSettings \/ ServerHandlesCommand \/ ServerHandlesResync
         \/ \E arena \in Arenas : ServerAppliesSolvableVars(arena)
  PROVE  Agrees'
<1>0. TypeOK /\ Handshake /\ server \in Server
  BY DEF Protocol, TypeOK
<1>1. /\ End \in Run /\ End.ok /\ End.arena = server.world.arena
      /\ server.rebroadcast \/ End.settings = server.settings
      /\ Receives(server.state) => End.excused \/ End.world = server.world
  BY <1>0, RunStarts DEF Agrees, Arrives, End
<1>2. UNCHANGED <<client, history>>
  BY DEF ServerHandlesSettings, ServerHandlesCommand, ServerHandlesResync, ServerAppliesSolvableVars
<1>3. UNCHANGED to_client => End' = End
  BY <1>2, AgreesLater DEF End
<1>4. \A m \in ToClient : to_client' = Append(to_client, m) => End' = Hear(End, m)
  <2>. TAKE m \in ToClient
  <2>. HAVE to_client' = Append(to_client, m)
  <2>1. to_client' = to_client \o <<m>> /\ <<m>> \in Seq(ToClient)
    BY <1>0, AppendIsConcat DEF TypeOK
  <2>2. End' = Heard(End, <<m>>)
    BY <1>0, <1>2, <2>1, AgreesLater, HeardLater
  <2>. QED  BY <1>1, <2>2, HeardInTurn
<1>5. CASE ServerHandlesSettings
  <2>1. /\ server'.rebroadcast /\ server'.world = server.world /\ UNCHANGED to_client
        /\ Receives(server'.state) <=> Receives(server.state)
    BY <1>0, <1>5 DEF ServerHandlesSettings, Server, Receives
  <2>. QED  BY <1>1, <1>2, <1>3, <2>1, AgreesLater
<1>6. CASE ServerHandlesCommand
  <2>1. /\ server'.rebroadcast = server.rebroadcast /\ server'.settings = server.settings
        /\ server'.world = server.world /\ UNCHANGED to_client
        /\ Receives(server'.state) => Receives(server.state)
    BY <1>0, <1>6 DEF ServerHandlesCommand, Server
  <2>. QED  BY <1>1, <1>2, <1>3, <2>1, AgreesLater
<1>7. CASE ServerHandlesResync
  <2>. DEFINE m == InitialState(server.world)
  <2>1. /\ server'.rebroadcast = server.rebroadcast /\ server'.settings = server.settings
        /\ server'.world = server.world /\ server'.state = server.state
        /\ UNCHANGED to_client \/ to_client' = Append(to_client, m)
    BY <1>0, <1>7 DEF ServerHandlesResync, Server
  <2>2. CASE UNCHANGED to_client
    BY <1>1, <1>2, <1>3, <2>1, <2>2, AgreesLater
  <2>3. CASE to_client' = Append(to_client, m)
    <3>1. m \in ToClient /\ m.type = "initial" /\ m.world = server.world
      BY <1>0 DEF InitialState, ToClient, Server
    <3>. HIDE DEF m
    <3>2. End' = Hear(End, m)
      BY <1>4, <2>3, <3>1
    <3>3. /\ End'.ok = End.ok /\ End'.arena = End.arena /\ End'.settings = End.settings
          /\ End'.world = server.world
      BY <1>1, <3>1, <3>2, HeardOne
    <3>. QED  BY <1>1, <1>2, <2>1, <3>3, AgreesLater
  <2>. QED  BY <2>1, <2>2, <2>3
<1>8. ASSUME NEW arena \in Arenas, ServerAppliesSolvableVars(arena) PROVE Agrees'
  <2>. DEFINE m == Vars(arena)
              world == Fresh(arena, server.world.joined)
  <2>1. /\ server' = [server EXCEPT !.world = world] /\ to_client' = Append(to_client, m)
    BY <1>8 DEF ServerAppliesSolvableVars
  <2>2. m \in ToClient /\ m.type = "vars" /\ m.arena = arena /\ world.arena = arena
    BY DEF Vars, ToClient, Fresh
  <2>. HIDE DEF m
  <2>3. End' = Hear(End, m)
    BY <1>4, <2>1, <2>2
  <2>4. /\ server'.rebroadcast = server.rebroadcast /\ server'.settings = server.settings
        /\ server'.world = world /\ server'.state = server.state
    BY <1>0, <2>1 DEF Server
  <2>5. /\ End'.settings = End.settings /\ End'.arena = arena /\ End'.ok = End.ok
        /\ IF arena # End.arena
           THEN End'.world = Fresh(arena, End.world.joined) /\ End'.excused = End.excused
           ELSE End'.excused
    BY <1>1, <2>2, <2>3, HeardOne
  <2>. QED  BY <1>1, <1>2, <2>2, <2>4, <2>5, AgreesLater
<1>. QED  BY <1>5, <1>6, <1>7, <1>8

(* A step is hashed and solved as the client that has heard everything     *)
(* before it will find and solve it.                                       *)
LEMMA ServerTickAgrees ==
  ASSUME Protocol, Agrees, NEW others \in Others, ServerTick(others)
  PROVE  Agrees'
<1>. DEFINE step  == Step(Taken(others))
            first == Heard(End, SentFirst)
            ready == Heard(first, SentSettings)
            last  == Heard(ready, SentStep(others))
<1>0. TypeOK /\ Handshake /\ server \in Server /\ server.world \in World
  BY DEF Protocol, TypeOK, Server
<1>1. /\ End \in Run /\ End.ok /\ End.arena = server.world.arena
      /\ server.rebroadcast \/ End.settings = server.settings
      /\ Receives(server.state) => End.excused \/ End.world = server.world
  BY <1>0, RunStarts DEF Agrees, Arrives, End
<1>2. /\ SentFirst \in Seq(ToClient) /\ SentSettings \in Seq(ToClient)
      /\ SentStep(others) \in Seq(ToClient) /\ Sent(others) \in Seq(ToClient)
      /\ to_client' = to_client \o Sent(others) /\ step \in StepMessage /\ Taken(others) \in Payload
      /\ UNCHANGED <<client, history>>
  BY <1>0, ServerTicks
<1>3. first \in Run /\ ready \in Run /\ last \in Run
  BY <1>1, <1>2, HeardInTurn
<1>4. End' = last
  <2>1. End' = Heard(End, Sent(others))
    BY <1>0, <1>2, AgreesLater, HeardLater
  <2>2. SentFirst \o SentSettings \in Seq(ToClient)
    BY <1>2, ConcatProperties
  <2>3. Heard(End, (SentFirst \o SentSettings) \o SentStep(others))
          = Heard(Heard(End, SentFirst \o SentSettings), SentStep(others))
    <3>1. \A s, u \in Seq(ToClient) : Heard(End, s \o u) = Heard(Heard(End, s), u)
      BY <1>1, HeardInTurn
    <3>. QED  BY <1>2, <2>2, <3>1
  <2>4. Heard(End, SentFirst \o SentSettings) = ready
    BY <1>1, <1>2, HeardInTurn
  <2>. QED  BY <2>1, <2>3, <2>4 DEF Sent
<1>. HIDE DEF ready, last
<1>5. /\ first.ok /\ first.arena = server.world.arena
      /\ server.rebroadcast \/ first.settings = server.settings
      /\ Receives(State) => first.excused \/ first.world = server.world
  <2>1. CASE ~First
    <3>1. SentFirst = <<>> /\ State = server.state
      BY <2>1 DEF SentFirst, State
    <3>. QED  BY <1>1, <3>1, HeardInTurn
  <2>2. CASE First
    <3>. DEFINE vs == Vars(server.world.arena)
                st == InitialState(server.world)
                se == Settings(server.settings)
                r1 == Hear(End, vs)
                r2 == Hear(r1, st)
    <3>1. /\ vs \in ToClient /\ vs.type = "vars" /\ vs.arena = server.world.arena
          /\ st \in ToClient /\ st.type = "initial" /\ st.world = server.world
          /\ se \in ToClient /\ se.type = "settings" /\ se.settings = server.settings
      BY <1>0 DEF Vars, InitialState, Settings, ToClient, Server, World
    <3>2. SentFirst = Append(Append(<<vs>>, st), se)
      BY <2>2 DEF SentFirst, Welcome
    <3>. HIDE DEF vs, st, se
    <3>3. <<vs>> \in Seq(ToClient) /\ Append(<<vs>>, st) \in Seq(ToClient)
      BY <3>1
    <3>4. first = Hear(r2, se)
      <4>. HIDE DEF r1, r2
      <4>0. \A s \in Seq(ToClient), m \in ToClient : Heard(End, Append(s, m)) = Hear(Heard(End, s), m)
        BY <1>1, HeardInTurn
      <4>1. Heard(End, <<vs>>) = r1
        BY <1>1, <3>1, HeardInTurn DEF r1
      <4>2. Heard(End, Append(<<vs>>, st)) = r2
        BY <3>1, <3>3, <4>0, <4>1 DEF r2
      <4>3. Heard(End, Append(Append(<<vs>>, st), se)) = Hear(r2, se)
        BY <3>1, <3>3, <4>0, <4>2
      <4>. QED  BY <3>2, <4>3
    <3>5. r1 \in Run /\ r1.arena = server.world.arena /\ r1.ok = End.ok
      BY <1>1, <3>1, HeardOne
    <3>. HIDE DEF r1
    <3>6. r2 \in Run /\ r2.arena = r1.arena /\ r2.ok = r1.ok /\ r2.world = server.world
      BY <3>1, <3>5, HeardOne
    <3>. HIDE DEF r2
    <3>7. /\ Hear(r2, se).settings = server.settings /\ Hear(r2, se).world = r2.world
          /\ Hear(r2, se).arena = r2.arena /\ Hear(r2, se).ok = r2.ok
      BY <3>1, <3>6, HeardOne, SMTT(20)
    <3>. HIDE DEF first
    <3>. QED  BY <1>1, <3>4, <3>5, <3>6, <3>7
  <2>. QED  BY <2>1, <2>2
<1>. HIDE DEF first
<1>6. /\ ready.ok /\ ready.arena = server.world.arena /\ ready.settings = server.settings
      /\ Receives(State) => ready.excused \/ ready.world = server.world
  <2>1. CASE ~server.rebroadcast
    <3>1. SentSettings = <<>>
      BY <2>1 DEF SentSettings
    <3>2. ready = first
      BY <1>3, <3>1, HeardInTurn DEF ready
    <3>. QED  BY <1>5, <2>1, <3>2
  <2>2. CASE server.rebroadcast
    <3>. DEFINE se == Settings(server.settings)
    <3>1. se \in ToClient /\ se.type = "settings" /\ se.settings = server.settings
      BY <1>0 DEF Settings, ToClient, Server
    <3>2. SentSettings = <<se>>
      BY <2>2 DEF SentSettings
    <3>. HIDE DEF se
    <3>3. ready = Hear(first, se)
      BY <1>3, <3>1, <3>2, HeardInTurn DEF ready
    <3>4. /\ ready.settings = server.settings /\ ready.world = first.world
          /\ ready.arena = first.arena /\ ready.excused = first.excused /\ ready.ok = first.ok
      BY <1>3, <3>1, <3>3, HeardOne
    <3>. QED  BY <1>5, <3>4
  <2>. QED  BY <2>1, <2>2
<1>7. /\ server'.state = State /\ server'.settings = server.settings /\ server'.world = Solved(others)
  BY <1>0, ServerTicks DEF Server
<1>8. Solved(others).arena = server.world.arena
  BY <1>0 DEF Solved, Solve, World
<1>9. CASE ~Receives(State)
  <2>1. last = ready
    <3>1. SentStep(others) = <<>>
      BY <1>9 DEF SentStep
    <3>. QED  BY <1>3, <3>1, HeardInTurn DEF last
  <2>. QED  BY <1>2, <1>4, <1>6, <1>7, <1>8, <1>9, <2>1, AgreesLater
<1>10. CASE Receives(State)
  <2>1. /\ step \in ToClient /\ step.type = "step" /\ step.hash = Hash(server.world)
        /\ step.payload = Taken(others)
    <3>1. step.hash = Hash(server.world) /\ step.payload = Taken(others)
      BY <1>0, <1>2, StepIsMessage
    <3>. HIDE DEF step
    <3>. QED  BY <1>2, <3>1 DEF ToClient, StepMessage
  <2>2. SentStep(others) = <<step>>
    BY <1>10 DEF SentStep
  <2>. HIDE DEF step
  <2>3. last = Hear(ready, step)
    BY <1>3, <2>1, <2>2, HeardInTurn DEF last
  <2>4. /\ last.world = Solve(ready.world, Unpacked(step.payload, ready.world.joined, ready.settings))
        /\ last.settings = ready.settings /\ last.arena = ready.arena
        /\ last.excused = ready.excused
        /\ last.ok = (ready.ok /\ (ready.excused \/ step.hash = Hash(ready.world)))
    BY <1>3, <2>1, <2>3, HeardOne
  <2>5. ready.world = server.world => last.world = Solved(others)
    BY <1>6, <2>1, <2>4 DEF Solved
  <2>. QED  BY <1>2, <1>4, <1>6, <1>7, <1>8, <1>10, <2>1, <2>4, <2>5, AgreesLater
<1>. QED  BY <1>9, <1>10

(* The client may change its part of the run to one that claims no more.   *)
LEMMA ClientAgrees ==
  ASSUME TypeOK, TypeOK', Agrees, UNCHANGED server,
         NEW a \in Run, End = Heard(a, to_client'),
         Weaker(Heard(Start', client'.incoming), a)
  PROVE  Agrees' /\ a.ok
<1>. DEFINE b == Heard(Start', client'.incoming)
<1>1. Start' \in Run /\ client'.incoming \in Seq(ToClient) /\ to_client' \in Seq(ToClient)
  <2>1. Start' \in Run
    BY DEF Start, Run, TypeOK, Client, History
  <2>2. client'.incoming \in Seq(StepMessage)
    BY DEF TypeOK, Client
  <2>. QED  BY <2>1, <2>2 DEF TypeOK, ToClient
<1>2. b \in Run /\ End' = Heard(b, to_client')
  BY <1>1, HeardInTurn DEF End
<1>. HIDE DEF b
<1>3. Weaker(End', End) /\ End' \in Run /\ End \in Run
  BY <1>1, <1>2, WeakerStays, HeardInTurn DEF b
<1>4. a.ok
  <2>1. End.ok
    BY DEF Agrees, Arrives
  <2>. QED  BY <1>1, <2>1, WrongStays
<1>5. Agrees'
  BY <1>3 DEF Agrees, Arrives, Weaker
<1>. QED  BY <1>4, <1>5

(* The message at hand is heard after the steps that are queued.           *)
LEMMA HeardNow ==
  ASSUME TypeOK, NEW type, ClientTakes(type)
  PROVE  /\ Heard(Start, client.incoming) \in Run
         /\ Hear(Heard(Start, client.incoming), Head(to_client)) \in Run
         /\ End = Heard(Hear(Heard(Start, client.incoming), Head(to_client)), to_client')
<1>1. /\ Head(to_client) \in ToClient /\ to_client' = Tail(to_client) /\ Tail(to_client) \in Seq(ToClient)
      /\ to_client \in Seq(ToClient) /\ to_client # <<>>
  BY ClientHears DEF TypeOK
<1>2. Heard(Start, client.incoming) \in Run /\ End = Heard(Heard(Start, client.incoming), to_client)
  BY RunStarts DEF End
<1>3. \A r : Heard(r, to_client) = Heard(Hear(r, Head(to_client)), Tail(to_client))
  BY <1>1, Hears!FoldTail DEF Heard
<1>. QED  BY <1>1, <1>2, <1>3, HeardOne

(* Solvable variables that name another arena reload the client's world    *)
(* ahead of the queued steps; the run excuses what was queued.             *)
LEMMA ClientHandlesVarsAgrees ==
  ASSUME Protocol, Protocol', Agrees, DesyncOnlyIfOvertaken, ClientHandlesVars
  PROVE  Agrees' /\ DesyncOnlyIfOvertaken'
<1>. DEFINE m       == Head(to_client)
            loads   == client.state = "PENDING_WELCOME" \/ m.arena # client.sv_arena
            world   == Fresh(m.arena, client.referential.joined)
            heard   == Heard(Start, client.incoming)
            b       == Heard(Start', client'.incoming)
<1>0. TypeOK /\ TypeOK' /\ client \in Client /\ history \in History
  BY DEF Protocol, TypeOK
<1>1. ClientTakes("vars") /\ m \in ToClient /\ m.type = "vars"
  BY <1>0, ClientHears DEF ClientHandlesVars
<1>2. /\ client'.sv_arena = m.arena /\ client'.own_settings = client.own_settings
      /\ client'.referential = IF loads THEN world ELSE client.referential
      /\ client'.incoming = client.incoming /\ client'.now_resyncing = client.now_resyncing
      /\ client'.state = IF client.state = "PENDING_WELCOME" THEN "RECEIVING_INITIAL_STATE" ELSE client.state
      /\ history'.overtaken = (history.overtaken \/ ~loads \/ client.incoming # <<>>)
      /\ UNCHANGED server
  BY <1>0 DEF ClientHandlesVars, Client, History
<1>3. /\ Start \in Run /\ Start.arena = client.sv_arena /\ Start.settings = client.own_settings
      /\ Start.world = client.referential /\ Start.excused = (history.overtaken \/ client.state # "IN_GAME")
      /\ Start.ok
  BY <1>0, RunStarts DEF Start
<1>4. /\ Start' \in Run /\ Start'.arena = m.arena /\ Start'.settings = client.own_settings /\ Start'.ok
      /\ Start'.world = IF loads THEN world ELSE client.referential
      /\ Start'.excused = (history.overtaken \/ ~loads \/ client.incoming # <<>> \/ client.state # "IN_GAME")
  <2>1. Start' \in Run
    BY <1>0 DEF Start, Run, TypeOK, Client, History
  <2>2. client'.state # "IN_GAME" <=> client.state # "IN_GAME"
    BY <1>2
  <2>. HIDE DEF m, loads, world
  <2>. QED  BY <1>2, <2>1, <2>2 DEF Start
<1>5. client.incoming \in Seq(StepMessage)
  BY <1>0 DEF Client
<1>6. /\ heard \in Run /\ heard.settings = client.own_settings /\ heard.arena = client.sv_arena
  BY <1>3, <1>5, StepsKeep
<1>7. /\ Hear(heard, m).settings = client.own_settings /\ Hear(heard, m).arena = m.arena
      /\ Hear(heard, m).ok = heard.ok
      /\ IF m.arena # client.sv_arena
         THEN Hear(heard, m).world = Fresh(m.arena, heard.world.joined) /\ Hear(heard, m).excused = heard.excused
         ELSE Hear(heard, m).excused
  <2>. HIDE DEF heard, m
  <2>. QED  BY <1>1, <1>6, HeardOne
<1>8. Weaker(b, Hear(heard, m))
  <2>1. CASE client.incoming = <<>>
    <3>1. heard = Start /\ b = Start'
      BY <1>2, <1>3, <1>4, <2>1, HeardInTurn
    <3>. HIDE DEF heard, b, m
    <3>. QED  BY <1>3, <1>4, <1>7, <2>1, <3>1 DEF Weaker
  <2>2. CASE client.incoming # <<>>
    <3>1. Start'.excused
      BY <1>4, <2>2
    <3>2. b.settings = client.own_settings /\ b.arena = m.arena /\ b.excused /\ b.ok
      <4>. HIDE DEF m
      <4>. QED  BY <1>2, <1>4, <1>5, <3>1, StepsKeep
    <3>. HIDE DEF heard, b, m
    <3>. QED  BY <1>7, <3>2 DEF Weaker
  <2>. QED  BY <2>1, <2>2
<1>9. Agrees'
  <2>1. Hear(heard, m) \in Run /\ End = Heard(Hear(heard, m), to_client')
    BY <1>0, <1>1, HeardNow
  <2>. HIDE DEF heard, m
  <2>. QED  BY <1>0, <1>2, <1>8, <2>1, ClientAgrees
<1>10. DesyncOnlyIfOvertaken'
  BY <1>2 DEF DesyncOnlyIfOvertaken
<1>. QED  BY <1>9, <1>10

(* Settings applied by the client before the steps queued ahead of them    *)
(* are what overtaken records.                                             *)
LEMMA ClientHandlesSettingsAgrees ==
  ASSUME Protocol, Protocol', Agrees, DesyncOnlyIfOvertaken, ClientHandlesSettings
  PROVE  Agrees' /\ DesyncOnlyIfOvertaken'
<1>. DEFINE m     == Head(to_client)
            heard == Heard(Start, client.incoming)
            b     == Heard(Start', client'.incoming)
            late  == m.settings # client.own_settings /\ client.incoming # <<>>
<1>0. TypeOK /\ TypeOK' /\ client \in Client /\ history \in History
  BY DEF Protocol, TypeOK
<1>1. ClientTakes("settings") /\ m \in ToClient /\ m.type = "settings"
  BY <1>0, ClientHears DEF ClientHandlesSettings
<1>2. /\ client'.sv_arena = client.sv_arena /\ client'.own_settings = m.settings
      /\ client'.referential = client.referential
      /\ client'.incoming = client.incoming /\ client'.now_resyncing = client.now_resyncing
      /\ client'.state = client.state
      /\ history'.overtaken = (history.overtaken \/ late)
      /\ UNCHANGED server
  BY <1>0 DEF ClientHandlesSettings, Client, History
<1>3. /\ Start \in Run /\ Start.arena = client.sv_arena /\ Start.settings = client.own_settings
      /\ Start.world = client.referential /\ Start.excused = (history.overtaken \/ client.state # "IN_GAME")
      /\ Start.ok
  BY <1>0, RunStarts DEF Start
<1>4. /\ Start' \in Run /\ Start'.arena = client.sv_arena /\ Start'.settings = m.settings /\ Start'.ok
      /\ Start'.world = client.referential
      /\ Start'.excused = (history.overtaken \/ late \/ client.state # "IN_GAME")
      /\ m.settings = client.own_settings => Start' = Start
  <2>1. Start' \in Run
    BY <1>0 DEF Start, Run, TypeOK, Client, History
  <2>2. m.settings = client.own_settings => history'.overtaken = history.overtaken
    BY <1>0, <1>2 DEF History
  <2>. HIDE DEF m, late
  <2>. QED  BY <1>2, <2>1, <2>2 DEF Start
<1>5. client.incoming \in Seq(StepMessage)
  BY <1>0 DEF Client
<1>6. /\ heard \in Run /\ heard.settings = client.own_settings /\ heard.arena = client.sv_arena
  BY <1>3, <1>5, StepsKeep
<1>7. /\ Hear(heard, m).settings = m.settings /\ Hear(heard, m).arena = client.sv_arena
      /\ Hear(heard, m).ok = heard.ok /\ Hear(heard, m).world = heard.world
      /\ Hear(heard, m).excused = heard.excused
  <2>. HIDE DEF heard, m
  <2>. QED  BY <1>1, <1>6, HeardOne
<1>8. Weaker(b, Hear(heard, m))
  <2>1. CASE m.settings = client.own_settings
    <3>1. b = heard
      BY <1>2, <1>4, <2>1
    <3>2. heard.excused \in BOOLEAN
      BY <1>6 DEF Run
    <3>. HIDE DEF heard, b, m
    <3>. QED  BY <1>6, <1>7, <2>1, <3>1, <3>2 DEF Weaker
  <2>2. CASE client.incoming = <<>>
    <3>1. heard = Start /\ b = Start'
      BY <1>2, <1>3, <1>4, <2>2, HeardInTurn
    <3>. HIDE DEF heard, b, m
    <3>. QED  BY <1>3, <1>4, <1>7, <2>2, <3>1 DEF Weaker
  <2>3. CASE late
    <3>2. b.settings = m.settings /\ b.arena = client.sv_arena /\ b.excused /\ b.ok
      <4>1. Start'.excused
        BY <1>4, <2>3
      <4>. HIDE DEF m, late
      <4>. QED  BY <1>2, <1>4, <1>5, <4>1, StepsKeep
    <3>. HIDE DEF heard, b, m
    <3>. QED  BY <1>7, <3>2 DEF Weaker
  <2>. QED  BY <2>1, <2>2, <2>3
<1>9. Agrees'
  <2>1. Hear(heard, m) \in Run /\ End = Heard(Hear(heard, m), to_client')
    BY <1>0, <1>1, HeardNow
  <2>. HIDE DEF heard, m
  <2>. QED  BY <1>0, <1>2, <1>8, <2>1, ClientAgrees
<1>10. DesyncOnlyIfOvertaken'
  BY <1>2 DEF DesyncOnlyIfOvertaken
<1>. QED  BY <1>9, <1>10

(* The whole state makes good whatever was different.                      *)
LEMMA ClientHandlesInitialStateAgrees ==
  ASSUME Protocol, Protocol', Agrees, ClientHandlesInitialState
  PROVE  Agrees' /\ DesyncOnlyIfOvertaken'
<1>. DEFINE m     == Head(to_client)
            heard == Heard(Start, client.incoming)
            b     == Heard(Start', client'.incoming)
            lost  == Total([i \in DOMAIN client.incoming |-> client.incoming[i].accepted])
<1>0. TypeOK /\ TypeOK' /\ client \in Client
  BY DEF Protocol, TypeOK
<1>1. ClientTakes("initial") /\ m \in ToClient /\ m.type = "initial"
  BY <1>0, ClientHears DEF ClientHandlesInitialState
<1>2. /\ client' = [client EXCEPT
           !.state = "IN_GAME", !.now_resyncing = FALSE, !.referential = m.world, !.predicted = m.world,
           !.schedule_reprediction = client.schedule_reprediction \/ client.now_resyncing,
           !.incoming = <<>>]
      /\ history' = [overtaken |-> FALSE, behind |-> FALSE, forgotten |-> history.forgotten + lost]
      /\ UNCHANGED server
  <2>1. link' \in {"up", "too many resyncs", "too many predictions"}
    BY DEF Protocol
  <2>. QED  BY <2>1 DEF ClientHandlesInitialState
<1>3. /\ client'.sv_arena = client.sv_arena /\ client'.own_settings = client.own_settings
      /\ client'.referential = m.world /\ client'.incoming = <<>> /\ ~client'.now_resyncing
      /\ client'.state = "IN_GAME" /\ ~history'.overtaken
  BY <1>0, <1>2 DEF Client
<1>4. /\ Start' \in Run /\ Start'.arena = client.sv_arena /\ Start'.settings = client.own_settings
      /\ Start'.world = m.world /\ ~Start'.excused /\ Start'.ok
  <2>1. Start' \in Run
    BY <1>0 DEF Start, Run, TypeOK, Client, History
  <2>. HIDE DEF m
  <2>. QED  BY <1>3, <2>1 DEF Start
<1>5. b = Start'
  BY <1>3, <1>4, HeardInTurn
<1>6. /\ heard \in Run /\ heard.settings = client.own_settings /\ heard.arena = client.sv_arena
  <2>1. client.incoming \in Seq(StepMessage)
    BY <1>0 DEF Client
  <2>2. Start \in Run /\ Start.settings = client.own_settings /\ Start.arena = client.sv_arena
    BY <1>0, RunStarts DEF Start
  <2>. QED  BY <2>1, <2>2, StepsKeep
<1>7. /\ Hear(heard, m).world = m.world /\ ~Hear(heard, m).excused
      /\ Hear(heard, m).settings = client.own_settings /\ Hear(heard, m).arena = client.sv_arena
  <2>. HIDE DEF heard, m
  <2>. QED  BY <1>1, <1>6, HeardOne
<1>8. Weaker(b, Hear(heard, m))
  <2>. HIDE DEF heard, b, m
  <2>. QED  BY <1>4, <1>5, <1>7 DEF Weaker
<1>9. Agrees'
  <2>1. Hear(heard, m) \in Run /\ End = Heard(Hear(heard, m), to_client')
    BY <1>0, <1>1, HeardNow
  <2>. HIDE DEF heard, m
  <2>. QED  BY <1>0, <1>2, <1>8, <2>1, ClientAgrees
<1>10. DesyncOnlyIfOvertaken'
  BY <1>3 DEF DesyncOnlyIfOvertaken
<1>. QED  BY <1>9, <1>10

(* A queued step has still to be heard.                                    *)
LEMMA ClientHandlesStepAgrees ==
  ASSUME Protocol, Protocol', Agrees, DesyncOnlyIfOvertaken, ClientHandlesStep
  PROVE  Agrees' /\ DesyncOnlyIfOvertaken'
<1>. DEFINE m == Head(to_client)
<1>0. TypeOK /\ client \in Client
  BY DEF Protocol, TypeOK
<1>1. /\ m \in ToClient /\ Tail(to_client) \in Seq(ToClient) /\ to_client' = Tail(to_client)
      /\ to_client = <<m>> \o Tail(to_client)
  BY <1>0, ClientHears DEF ClientHandlesStep
<1>2. client' = [client EXCEPT !.incoming = Append(client.incoming, m)] /\ UNCHANGED <<server, history>>
  <2>1. link' \in {"up", "too many resyncs", "too many predictions"}
    BY DEF Protocol
  <2>. QED  BY <2>1 DEF ClientHandlesStep
<1>3. /\ client'.incoming = Append(client.incoming, m)
      /\ client'.sv_arena = client.sv_arena /\ client'.own_settings = client.own_settings
      /\ client'.referential = client.referential /\ client'.state = client.state
      /\ client'.now_resyncing = client.now_resyncing
  BY <1>0, <1>2 DEF Client
<1>4. Start' = Start
  BY <1>2, <1>3 DEF Start
<1>5. client'.incoming \o to_client' = client.incoming \o to_client
  <2>1. client.incoming \in Seq(ToClient) /\ <<m>> \in Seq(ToClient)
    BY <1>0, <1>1, Weights
  <2>2. Append(client.incoming, m) = client.incoming \o <<m>>
    BY <1>1, <2>1, AppendIsConcat
  <2>3. \A a, b, c \in Seq(ToClient) : (a \o b) \o c = a \o (b \o c)
    BY ConcatAssociative
  <2>. HIDE DEF m
  <2>4. (client.incoming \o <<m>>) \o Tail(to_client) = client.incoming \o (<<m>> \o Tail(to_client))
    BY <1>1, <2>1, <2>3
  <2>. QED  BY <1>1, <1>3, <2>2, <2>4
<1>6. End' = End
  BY <1>4, <1>5 DEF End
<1>. QED  BY <1>2, <1>3, <1>6 DEF Agrees, Arrives, DesyncOnlyIfOvertaken

(* A client not yet in game changes no world.                              *)
LEMMA ClientStepBeforeGameAgrees ==
  ASSUME Protocol, Agrees, DesyncOnlyIfOvertaken,
         NEW settings \in Sensitivities, ClientStepBeforeGame(settings)
  PROVE  Agrees' /\ DesyncOnlyIfOvertaken'
<1>0. TypeOK /\ client \in Client
  BY DEF Protocol, TypeOK
<1>1. /\ UNCHANGED <<server, to_client, history>>
      /\ client'.incoming = client.incoming
      /\ client'.sv_arena = client.sv_arena /\ client'.own_settings = client.own_settings
      /\ client'.referential = client.referential /\ client'.now_resyncing = client.now_resyncing
      /\ client.state # "IN_GAME" /\ client'.state # "IN_GAME"
  BY <1>0 DEF ClientStepBeforeGame, Client
<1>2. Start' = Start
  BY <1>1 DEF Start
<1>3. End' = End
  BY <1>1, <1>2 DEF End
<1>. QED  BY <1>1, <1>3 DEF Agrees, Arrives, DesyncOnlyIfOvertaken

(* A client in game that finds a hash to differ was told so in advance.    *)
LEMMA ClientStepAgrees ==
  ASSUME Protocol, Protocol', Agrees, DesyncOnlyIfOvertaken,
         NEW motion \in Motions, NEW settings \in Sensitivities, ClientStep(motion, settings)
  PROVE  Agrees' /\ DesyncOnlyIfOvertaken'
<1>. DEFINE heard == Heard(Start, client.incoming)
            b     == Heard(Start', client'.incoming)
<1>0. TypeOK /\ TypeOK' /\ client \in Client /\ history \in History
  BY DEF Protocol, TypeOK
<1>1. /\ client' = [client EXCEPT
           !.settings = settings, !.referential = Got.referential, !.incoming = <<>>,
           !.predicted_entropies = Append(Rest, Local(motion)),
           !.predicted = Solve(Current, Local(motion)),
           !.schedule_reprediction = client.schedule_reprediction /\ client.predicted_entropies = <<>>,
           !.pending_request = Noticed,
           !.now_resyncing = client.now_resyncing \/ Noticed]
      /\ history' = [history EXCEPT !.behind = history.behind /\ ~Got.repredict]
      /\ client.state = "IN_GAME" /\ UNCHANGED <<server, to_client>>
  BY <1>0, ClientSteps
<1>2. /\ client'.sv_arena = client.sv_arena /\ client'.own_settings = client.own_settings
      /\ client'.referential = Got.referential /\ client'.incoming = <<>>
      /\ client'.now_resyncing = (client.now_resyncing \/ Noticed)
      /\ client'.state = client.state /\ history'.overtaken = history.overtaken
  BY <1>0, <1>1 DEF Client, History
<1>3. /\ Start \in Run /\ Start.arena = client.sv_arena /\ Start.settings = client.own_settings
      /\ Start.excused = history.overtaken
  BY <1>0, <1>1, RunStarts DEF Start, History
<1>4. /\ Start' \in Run /\ Start'.arena = client.sv_arena /\ Start'.settings = client.own_settings
      /\ Start'.world = Got.referential /\ Start'.excused = history.overtaken /\ Start'.ok
  <2>1. Start' \in Run
    BY <1>0 DEF Start, Run, TypeOK, Client, History
  <2>. QED  BY <1>0, <1>1, <1>2, <2>1 DEF Start, History
<1>5. /\ heard \in Run /\ heard.settings = client.own_settings /\ heard.arena = client.sv_arena
      /\ heard.excused = history.overtaken
  <2>1. client.incoming \in Seq(StepMessage)
    BY <1>0 DEF Client
  <2>. QED  BY <1>3, <2>1, StepsKeep
<1>6. heard.world = Got.referential /\ (heard.ok => history.overtaken \/ ~Got.desync)
  BY <1>0, <1>3, UnpackRuns
<1>7. b = Start'
  BY <1>2, <1>4, HeardInTurn
<1>8. Weaker(b, heard)
  <2>1. heard.excused \in BOOLEAN
    BY <1>5 DEF Run
  <2>. HIDE DEF heard, b
  <2>. QED  BY <1>4, <1>5, <1>6, <1>7, <2>1 DEF Weaker
<1>9. Agrees' /\ heard.ok
  <2>1. End = Heard(heard, to_client')
    BY <1>0, <1>1, RunStarts DEF End
  <2>. HIDE DEF heard
  <2>. QED  BY <1>0, <1>1, <1>5, <1>8, <2>1, ClientAgrees
<1>10. DesyncOnlyIfOvertaken'
  BY <1>2, <1>6, <1>9 DEF DesyncOnlyIfOvertaken, Noticed
<1>. QED  BY <1>9, <1>10

(* Every action keeps the two sides agreeing about what is to come.        *)
LEMMA AgreesNext ==
  Protocol /\ Protocol' /\ Agrees /\ DesyncOnlyIfOvertaken /\ [Next]_vars => Agrees' /\ DesyncOnlyIfOvertaken'
<1>. SUFFICES ASSUME Protocol, Protocol', Agrees, DesyncOnlyIfOvertaken, [Next]_vars
     PROVE    Agrees' /\ DesyncOnlyIfOvertaken'
  OBVIOUS
<1>1. CASE \/ ServerHandlesSettings \/ ServerHandlesCommand \/ ServerHandlesResync
           \/ \E arena \in Arenas : ServerAppliesSolvableVars(arena)
  <2>1. UNCHANGED <<client, history>>
    BY <1>1 DEF ServerHandlesSettings, ServerHandlesCommand, ServerHandlesResync, ServerAppliesSolvableVars
  <2>. QED  BY <1>1, <2>1, ServerHandlesAgrees DEF DesyncOnlyIfOvertaken
<1>2. CASE \E others \in Others : ServerTick(others)
  <2>1. UNCHANGED <<client, history>>
    BY <1>2 DEF ServerTick
  <2>. QED  BY <1>2, <2>1, ServerTickAgrees DEF DesyncOnlyIfOvertaken
<1>3. CASE ClientHandlesVars
  BY <1>3, ClientHandlesVarsAgrees
<1>4. CASE ClientHandlesInitialState
  BY <1>4, ClientHandlesInitialStateAgrees
<1>5. CASE ClientHandlesSettings
  BY <1>5, ClientHandlesSettingsAgrees
<1>6. CASE ClientHandlesStep
  BY <1>6, ClientHandlesStepAgrees
<1>7. CASE \E settings \in Sensitivities : ClientStepBeforeGame(settings)
  BY <1>7, ClientStepBeforeGameAgrees
<1>8. CASE \E settings \in Sensitivities, motion \in Motions : ClientStep(motion, settings)
  BY <1>8, ClientStepAgrees
<1>9. CASE UNCHANGED vars
  BY <1>9 DEF vars, Agrees, Arrives, End, Start, DesyncOnlyIfOvertaken
<1>. QED  BY <1>1, <1>2, <1>3, <1>4, <1>5, <1>6, <1>7, <1>8, <1>9 DEF Next

(* As the session starts, the client is to resume from the arena and the   *)
(* settings that the server has, and nothing was handed over.              *)
LEMMA AgreesInit == Init => Agrees /\ DesyncOnlyIfOvertaken
<1>. SUFFICES ASSUME Init PROVE Agrees /\ DesyncOnlyIfOvertaken
  OBVIOUS
<1>1. PICK arena \in Arenas :
        /\ server = [state |-> "PENDING_WELCOME", settings |-> DefaultSettings, rebroadcast |-> FALSE,
                     pending_entropies |-> <<>>, resyncs_counter |-> 0,
                     reinference_necessary |-> FALSE, world |-> Fresh(arena, FALSE)]
        /\ client = [state |-> "INITIATING_CONNECTION",
                     settings |-> DefaultSettings, own_settings |-> DefaultSettings,
                     sv_arena |-> arena, referential |-> Fresh(arena, FALSE),
                     predicted |-> Fresh(arena, FALSE), incoming |-> <<>>,
                     predicted_entropies |-> <<>>, schedule_reprediction |-> FALSE,
                     pending_request |-> FALSE, now_resyncing |-> FALSE]
  BY DEF Init
<1>2. to_client = <<>> /\ ~history.overtaken
  BY DEF Init
<1>3. /\ client.incoming = <<>> /\ ~client.now_resyncing
      /\ client.state = "INITIATING_CONNECTION" /\ client.sv_arena = arena
      /\ client.own_settings = DefaultSettings /\ client.referential = Fresh(arena, FALSE)
      /\ server.world = Fresh(arena, FALSE) /\ server.settings = DefaultSettings
  BY <1>1
<1>4. TypeOK
  BY ProtocolInit DEF Protocol
<1>5. Start \in Run
  BY <1>4, RunStarts
<1>6. /\ Start.ok /\ Start.arena = server.world.arena /\ Start.settings = server.settings
      /\ Start.excused
  <2>1. server.world.arena = arena
    BY <1>3 DEF Fresh
  <2>2. client.state # "IN_GAME"
    BY <1>3
  <2>. QED  BY <1>3, <2>1, <2>2 DEF Start
<1>7. End = Start
  <2>1. <<>> \o <<>> = <<>>
    OBVIOUS
  <2>. QED  BY <1>2, <1>3, <1>5, <2>1, HeardInTurn DEF End
<1>. QED  BY <1>2, <1>3, <1>5, <1>6, <1>7 DEF Agrees, Arrives, DesyncOnlyIfOvertaken

(* Whatever the client has still to hear brings it to where the server     *)
(* is, and every state_hash on the way is right, unless an update was      *)
(* applied by handle_server_payload ahead of the queued steps.             *)
THEOREM KeepsAgreeing == Spec => [](Agrees /\ DesyncOnlyIfOvertaken)
BY AgreesInit, AgreesNext, KeepsProtocol, PTL DEF Spec

(* unpack_deterministic_steps only ever finds a wrong hash after an        *)
(* update that overtook queued steps.                                      *)
THEOREM DesyncsOnlyIfOvertaken == Spec => []DesyncOnlyIfOvertaken
<1>1. Agrees /\ DesyncOnlyIfOvertaken => DesyncOnlyIfOvertaken
  OBVIOUS
<1>. QED  BY <1>1, KeepsAgreeing, PTL
=============================================================================
