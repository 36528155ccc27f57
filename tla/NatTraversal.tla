---------------------------- MODULE NatTraversal ----------------------------
(***************************************************************************)
(* A client traverses the NAT of a game server, and its own, with the help *)
(* of the masterserver. Either side guesses which port the NAT of the      *)
(* other will open next, from a port a STUN server has just seen.          *)
(*                                                                         *)
(* The NATs are those that nat_detection_session tells apart, with a port  *)
(* delta of 1 and the strictest filter: a packet is let in only from where *)
(* one was sent to through the same port. A request to a STUN server and   *)
(* its response are one packet, so are the two legs of what the            *)
(* masterserver relays. Of the pings that only open holes the effect on    *)
(* the NAT is modelled. A tick is the interval between two requests: it    *)
(* comes when the network is idle, or else as one of MaxEvents events.     *)
(***************************************************************************)
EXTENDS Naturals, FiniteSets, Sequences, SequencesExt

CONSTANTS Types,           \* nat_type, PUBLIC_INTERNET aside
          Brute,           \* num_brute_force_packets
          StunTimeout,     \* stun_session_timeout_ms, in ticks
          AttemptTimeout,  \* traversal_attempt_timeout_secs, in ticks
          MaxAttempts,     \* bound on the number of sessions
          MaxEvents        \* bound on losses, delays, duplicates and aborts

ASSUME NatAssumption ==
  /\ Types \subseteq {"CONE", "ADDRESS_SENSITIVE", "PORT_SENSITIVE"}
  /\ {Brute, MaxEvents} \subseteq Nat
  /\ {StunTimeout, AttemptTimeout, MaxAttempts} \subseteq Nat \ {0}

VARIABLES types,       \* of the NATs on either side
          client,      \* nat_traversal_session
          traversals,  \* the sessions of server_nat_traversal by address
          nats,        \* the NATs: next port, mappings of the socket, holes
          net,         \* packets on their way
          events
vars == <<types, client, traversals, nats, net, events>>

Conic(t)     == t = "CONE"
Symmetric(t) == ~Conic(t)
BothSYMPS    == types.client = "PORT_SENSITIVE" /\ types.server = "PORT_SENSITIVE"

-----------------------------------------------------------------------------
(* A NAT. Addresses are a host and a port.                                 *)

Master == <<"master", 0>>
AtServer(port) == <<"server", port>>
AtClient(port) == <<"client", port>>

Key(t, to) == CASE t = "CONE"              -> "any"
                [] t = "ADDRESS_SENSITIVE" -> to[1]
                [] t = "PORT_SENSITIVE"    -> to

Closed == [k \in {} |-> 0]
With(f, k, value) == [l \in DOMAIN f \cup {k} |-> IF l = k THEN value ELSE f[l]]
NewSocket(nat) == [nat EXCEPT !.map = Closed, !.holes = {}]

\* A packet leaves for `to`: a port is mapped if there is none, and let answer.
Through(t, nat, to) ==
  LET k      == Key(t, to)
      mapped == IF k \in DOMAIN nat.map THEN nat
                ELSE [nat EXCEPT !.map = With(@, k, nat.next), !.next = @ + 1]
  IN  [mapped EXCEPT !.holes = @ \cup {<<mapped.map[k], to>>}]

PortTo(t, nat, to) == nat.map[Key(t, to)]
LetsIn(nat, port, from) == <<port, from>> \in nat.holes

\* Each STUN server is asked once: a symmetric NAT maps the next port.
Stunned(nat) == [nat EXCEPT !.next = @ + 1]

\* The port in the list of servers is the one the heartbeats came from.
Traversed == PortTo(types.server, nats.server, Master)

Happens == events < MaxEvents /\ events' = events + 1

-----------------------------------------------------------------------------
(* The client.                                                             *)

NewSession(guid, disturbed) ==
  [state |-> "INIT", guid |-> guid, stun |-> "none", asked |-> 0, stunned |-> 0, server_port |-> 0,
   due |-> TRUE, elapsed |-> 0, stun_age |-> 0, opened |-> 0, disturbed |-> disturbed]

Restun(c) == [c EXCEPT !.state = "AWAITING_STUN_RESPONSE", !.stun = "launched"]

OpenHole(nat, port) == Through(types.client, nat, AtServer(port))
OpenHolesForServer(nat) ==
  LET first   == client.server_port + 1
      targets == IF client.server_port = 0 THEN <<Traversed>>
                 ELSE [i \in 1 .. IF BothSYMPS THEN 1 ELSE Brute + 1 |-> first + i - 1]
  IN  FoldLeft(OpenHole, nat, targets)

\* The masterserver relays the port it sees, unless the step names one.
Step(nat, type) ==
  LET visible == PortTo(types.client, nat, Master)
  IN  [what |-> "step", type |-> type, guid |-> client.guid, visible |-> visible,
       predicted |-> IF Conic(types.client) THEN visible ELSE client.stunned + 1,
       multiple |-> Symmetric(types.client) /\ ~BothSYMPS]

Request(nat, type) ==
  LET sent == Through(types.client, nat, Master)
  IN  /\ nats' = [nats EXCEPT !.client = sent]
      /\ net' = net \cup {Step(sent, type)}

\* The holes are queued right behind the request: theirs is the next port.
SendStunRequest ==
  /\ client.stun = "launched"
  /\ LET stunned == Stunned(nats.client)
     IN  /\ nats' = [nats EXCEPT !.client = IF Conic(types.server) THEN OpenHolesForServer(stunned)
                                            ELSE stunned]
         /\ net' = net \cup {[what |-> "client_stun", port |-> nats.client.next]}
  /\ client' = [client EXCEPT !.stun = "sent", !.asked = nats.client.next, !.stun_age = 0]

Flow ==
  /\ client.stun = "none"
  /\ \/ /\ client.state = "INIT"
        /\ client' = IF Conic(types.client) THEN [client EXCEPT !.state = "CLIENT_STUN_REQUIREMENT_MET"]
                     ELSE Restun(client)
     \/ /\ client.state = "CLIENT_STUN_REQUIREMENT_MET"
        /\ client' = IF Conic(types.server) THEN [client EXCEPT !.state = "SERVER_STUN_REQUIREMENT_MET"]
                     ELSE [client EXCEPT !.state = "REQUESTING_REMOTE_PORT_INFO", !.due = TRUE]
     \/ /\ client.state = "SERVER_STUN_REQUIREMENT_MET"
        /\ client' = [client EXCEPT !.state = "TRAVERSING"]
  /\ UNCHANGED <<nats, net>>

RequestRemotePortInfo ==
  /\ client.state = "REQUESTING_REMOTE_PORT_INFO" /\ client.due
  /\ Request(nats.client, "RESTUN")
  /\ client' = [client EXCEPT !.due = FALSE]

Traverse ==
  /\ client.state = "TRAVERSING" /\ client.due
  /\ Request(OpenHolesForServer(nats.client), "PINGBACK")
  /\ client' = [client EXCEPT !.due = FALSE]

ClientAdvance == SendStunRequest \/ Flow \/ RequestRemotePortInfo \/ Traverse

\* A slip: the port that was predicted is taken for the one that answered.
PredictedPort(d) == client.server_port + 1

OpenedPort(d) == d.from

ClientReceives(d) ==
  IF client.state \in {"TRAVERSAL_COMPLETE", "TIMED_OUT"} THEN client ELSE
  CASE d.what = "client_stun" /\ client.stun = "sent" /\ d.port = client.asked ->
         [client EXCEPT !.stunned = d.port, !.stun = "none",
                        !.state = "CLIENT_STUN_REQUIREMENT_MET", !.due = TRUE]
    [] /\ d.what = "result" /\ d.guid = client.guid /\ LetsIn(nats.client, d.to, Master)
       /\ client.state = "REQUESTING_REMOTE_PORT_INFO" ->
         [client EXCEPT !.server_port = d.port, !.state = "SERVER_STUN_REQUIREMENT_MET"]
    [] /\ d.what = "success" /\ d.guid = client.guid
       /\ LetsIn(nats.client, d.to, AtServer(d.from)) ->
         [client EXCEPT !.opened = OpenedPort(d), !.state = "TRAVERSAL_COMPLETE"]
    [] OTHER -> client

ClientHandles(d) ==
  /\ d.what \in {"client_stun", "result", "success"}
  /\ client' = ClientReceives(d)
  /\ UNCHANGED <<traversals, nats>>

-----------------------------------------------------------------------------
(* The game server. A change is the session, the NAT and what was sent.    *)

Fresh(guid) == [guid |-> guid, stun |-> "none", asked |-> 0, holes_opened |-> FALSE, age |-> 0,
                visible |-> 0, multiple |-> FALSE]

Ping(change, port) ==
  LET nat == Through(types.server, change.nat, AtClient(port))
  IN  [change EXCEPT !.nat = nat, !.sent = @ \cup
         {[what |-> "success", guid |-> change.session.guid, to |-> port,
           from |-> PortTo(types.server, nat, AtClient(port))]}]

OpenHoles(change, address) ==
  LET session == change.session
      count   == IF session.multiple /\ ~session.holes_opened THEN Brute + 1 ELSE 1
  IN  FoldLeft(Ping, [change EXCEPT !.session.holes_opened = TRUE], [i \in 1 .. count |-> address + i - 1])

Result(session) ==
  [what |-> "result", guid |-> session.guid, to |-> session.visible, port |-> session.asked]

Becomes(address, change, others) ==
  /\ traversals' = With(traversals, address, change.session)
  /\ nats' = [nats EXCEPT !.server = change.nat]
  /\ net' = others \cup change.sent

\* A slip: the pings are queued before the request and take the port it is to show.
PingsBeforeStun(address) ==
  LET session == traversals[address]
      quiet   == [session |-> session, nat |-> nats.server, sent |-> {}]
      opened  == IF session.holes_opened THEN quiet ELSE OpenHoles(quiet, address)
      port    == opened.nat.next
  IN  /\ session.stun = "launched"
      /\ Becomes(address,
           [session |-> [opened.session EXCEPT !.stun = "sent", !.asked = port],
            nat |-> Stunned(opened.nat),
            sent |-> opened.sent \cup {[what |-> "server_stun", address |-> address, port |-> port]}], net)
      /\ UNCHANGED client

\* The STUN request, and right behind it the pings that are to get the next port.
SendServerStun(address) ==
  LET session == traversals[address]
      asked   == [session |-> [session EXCEPT !.stun = "sent", !.asked = nats.server.next],
                  nat |-> Stunned(nats.server),
                  sent |-> {[what |-> "server_stun", address |-> address, port |-> nats.server.next]}]
  IN  /\ session.stun = "launched"
      /\ Becomes(address, IF session.holes_opened THEN asked ELSE OpenHoles(asked, address), net)
      /\ UNCHANGED client

Entry(address, guid) ==
  IF address \in DOMAIN traversals /\ traversals[address].guid >= guid THEN traversals[address]
  ELSE Fresh(guid)

HandleStep(d, rest) ==
  LET known   == Entry(d.predicted, d.guid)
      session == [known EXCEPT !.visible = d.visible, !.multiple = d.multiple]
      change  == [session |-> session, nat |-> nats.server, sent |-> {}]
  IN  IF known.guid > d.guid THEN net' = rest /\ UNCHANGED <<traversals, nats>>
      ELSE Becomes(d.predicted,
             IF d.type = "PINGBACK" THEN OpenHoles(change, d.predicted) ELSE
             CASE session.stun = "none" -> [change EXCEPT !.session.stun = "launched"]
               [] session.stun = "completed" -> [change EXCEPT !.sent = {Result(session)}]
               [] OTHER -> change, rest)

\* advance() sends the result as soon as it finds the session completed.
HandleServerStun(d, rest) ==
  /\ traversals' = [a \in DOMAIN traversals |->
       IF a = d.address /\ traversals[a].stun = "sent" /\ traversals[a].asked = d.port
       THEN [traversals[a] EXCEPT !.stun = "completed"] ELSE traversals[a]]
  /\ net' = rest \cup {Result(traversals'[a]) : a \in {b \in DOMAIN traversals : traversals'[b] # traversals[b]}}
  /\ UNCHANGED nats

-----------------------------------------------------------------------------
(* The network, time, and the attempts.                                    *)

Receive(d, again) ==
  /\ d \in net
  /\ IF again THEN Happens ELSE UNCHANGED events
  /\ LET rest == IF again THEN net ELSE net \ {d}
     IN  \/ ClientHandles(d) /\ net' = rest
         \/ d.what = "step" /\ HandleStep(d, rest) /\ UNCHANGED client
         \/ d.what = "server_stun" /\ HandleServerStun(d, rest) /\ UNCHANGED client
  /\ UNCHANGED types

Lose(d) ==
  /\ d \in net /\ Happens
  /\ net' = net \ {d}
  /\ client' = [client EXCEPT !.disturbed = TRUE]
  /\ UNCHANGED <<types, traversals, nats>>

Busy ==
  \/ client.stun = "launched"
  \/ client.stun = "none" /\ client.state \in {"INIT", "CLIENT_STUN_REQUIREMENT_MET", "SERVER_STUN_REQUIREMENT_MET"}
  \/ client.due /\ client.state \in {"REQUESTING_REMOTE_PORT_INFO", "TRAVERSING"}
  \/ \E a \in DOMAIN traversals : traversals[a].stun = "launched"

Older(c) ==
  LET o == [c EXCEPT !.elapsed = @ + 1, !.stun_age = @ + 1, !.due = TRUE]
  IN  IF o.elapsed = AttemptTimeout THEN [o EXCEPT !.state = "TIMED_OUT", !.stun = "none"]
      ELSE IF o.stun = "sent" /\ o.stun_age = StunTimeout THEN Restun(o) ELSE o

Tick ==
  /\ ~Busy /\ client.state \notin {"TRAVERSAL_COMPLETE", "TIMED_OUT"}
  /\ IF net = {} THEN UNCHANGED events ELSE Happens
  /\ client' = [Older(client) EXCEPT !.disturbed = @ \/ net # {}]
  /\ LET older == [a \in DOMAIN traversals |-> [traversals[a] EXCEPT !.age = @ + 1]]
     IN  traversals' = [a \in {b \in DOMAIN older : older[b].age < AttemptTimeout} |-> older[a]]
  /\ UNCHANGED <<types, nats, net>>

\* A slip: the next attempt is made from the same socket.
SameSocketAgain ==
  /\ client.state = "TIMED_OUT" /\ client.guid < MaxAttempts
  /\ client' = NewSession(client.guid + 1, net # {})
  /\ UNCHANGED <<types, traversals, nats, net, events>>

\* The next attempt has a socket of its own.
NextAttempt ==
  /\ client.state = "TIMED_OUT" /\ client.guid < MaxAttempts
  /\ client' = NewSession(client.guid + 1, net # {})
  /\ nats' = [nats EXCEPT !.client = NewSocket(@)]
  /\ UNCHANGED <<types, traversals, net, events>>

\* Somebody gives up and tries again: on the same socket when it has a fixed port,
\* else on a new one, whose NAT is detected first.
Abort(fixed_port) ==
  /\ client.state # "TRAVERSAL_COMPLETE" /\ client.guid < MaxAttempts /\ Happens
  /\ client' = NewSession(client.guid + 1, fixed_port \/ net # {})
  /\ nats' = IF fixed_port THEN nats
             ELSE [nats EXCEPT !.client = Through(types.client, NewSocket(@), Master)]
  /\ UNCHANGED <<types, traversals, net>>

NoNat == [next |-> 1, map |-> Closed, holes |-> {}]

\* The client has detected its NAT, the server sends heartbeats.
Init ==
  /\ types \in [client : Types, server : Types]
  /\ client = NewSession(1, FALSE)
  /\ traversals = Closed
  /\ nats = [client |-> Through(types.client, NoNat, Master),
             server |-> Through(types.server, NoNat, Master)]
  /\ net = {}
  /\ events = 0

Advance == ClientAdvance /\ UNCHANGED <<types, traversals, events>>
Answer(address) == SendServerStun(address) /\ UNCHANGED <<types, events>>

Next ==
  \/ Advance
  \/ \E a \in DOMAIN traversals : Answer(a)
  \/ \E d \in net : Lose(d)
  \/ \E d \in net, again \in BOOLEAN : Receive(d, again)
  \/ Tick \/ NextAttempt
  \/ \E fixed_port \in BOOLEAN : Abort(fixed_port)

\* Either loop goes on, what is not lost arrives, and the client keeps trying.
Fairness ==
  /\ WF_vars(Advance) /\ WF_vars(Tick) /\ WF_vars(NextAttempt)
  /\ WF_vars(\E a \in DOMAIN traversals : Answer(a))
  /\ WF_vars(\E d \in net : Receive(d, FALSE))

Spec == Init /\ [][Next]_vars /\ Fairness

-----------------------------------------------------------------------------
(* Properties.                                                             *)

\* The pairs whose second attempt is as good as the first. Where both are symmetric,
\* the first packet from a new socket to the masterserver takes the predicted port.
\* An address-sensitive server keeps the port it opened towards the client's host.
Retryable == \/ Conic(types.server)
             \/ Conic(types.client) /\ types.server = "PORT_SENSITIVE"

\* An attempt times out only when a packet of it was lost or late: undisturbed, the two
\* predictions and the holes meet, in the first attempt between any two NATs and in
\* every later one of a pair that can be tried again.
FailsOnlyForCause ==
  client.state = "TIMED_OUT" /\ (client.guid = 1 \/ Retryable) => client.disturbed

\* The address on which the client goes on to connect is open both ways, whatever
\* was lost, late or answered twice, and however many attempts it took.
CompletedIsOpen ==
  client.state = "TRAVERSAL_COMPLETE" =>
    LET there == AtServer(client.opened)
        here  == PortTo(types.client, nats.client, there)
    IN  LetsIn(nats.client, here, there) /\ LetsIn(nats.server, client.opened, AtClient(here))

\* Losses, delays and aborted attempts do not keep the client out: a later attempt,
\* on another socket and so behind fresh mappings, gets through.
GetsThrough == Retryable ~> client.state = "TRAVERSAL_COMPLETE"
=============================================================================
