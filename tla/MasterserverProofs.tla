------------------------- MODULE MasterserverProofs -------------------------
(***************************************************************************)
(* What the two modules about the masterserver promise for all values of   *)
(* their constants.                                                        *)
(*                                                                         *)
(* NatTraversal.tla: the address on which a client that has traversed the  *)
(* NATs goes on to connect is open both ways, for every pair of NATs, any  *)
(* number of packets of brute force, attempts, losses, delays and          *)
(* duplicates, and all time-outs. A NAT forgets nothing as long as the     *)
(* socket is the same: a packet that arrives through a hole proves that    *)
(* hole for good, and the one it left through is still there, however late *)
(* it arrives. And an attempt times out only when something disturbed it:  *)
(* until then the client is on a course on which it knows, at each stage,  *)
(* which port comes next, and what it waits for is on its way.             *)
(*                                                                         *)
(* ServerList.tla, in the second half: what is served is the list kept     *)
(* because each way to change the list either makes it anew or changes     *)
(* ages only; a goodbye is said because a tick that forgets its last       *)
(* heartbeat sends one.                                                    *)
(***************************************************************************)
EXTENDS NatTraversal, ServerList, TLAPS

Holes == INSTANCE SeqFolds WITH Op <- OpenHole
Pings == INSTANCE SeqFolds WITH Op <- Ping

-----------------------------------------------------------------------------
(* Types. *)
Hosts   == {"master", "server", "client"}
Address == Hosts \X Nat
Keys    == {"any"} \cup Hosts \cup Address

NatState == [next : Nat, map : UNION {[D -> Nat] : D \in SUBSET Keys},
             holes : SUBSET (Nat \X Address)]

(* Whatever has left through a port of a NAT left through the port that is *)
(* mapped for where it went.                                               *)
Faithful(t, nat) ==
  \A port, to : <<port, to>> \in nat.holes =>
                  Key(t, to) \in DOMAIN nat.map /\ nat.map[Key(t, to)] = port

NatOf(t) == {nat \in NatState : Faithful(t, nat)}

(* A NAT forgets nothing. *)
Grows(nat, later) ==
  /\ nat.holes \subseteq later.holes
  /\ DOMAIN nat.map \subseteq DOMAIN later.map

Client ==
  [state : {"INIT", "CLIENT_STUN_REQUIREMENT_MET", "AWAITING_STUN_RESPONSE",
            "REQUESTING_REMOTE_PORT_INFO", "SERVER_STUN_REQUIREMENT_MET", "TRAVERSING",
            "TRAVERSAL_COMPLETE", "TIMED_OUT"},
   guid : Nat, stun : {"none", "launched", "sent"}, asked : Nat, stunned : Nat,
   server_port : Nat, due : BOOLEAN, elapsed : Nat, stun_age : Nat, opened : Nat,
   disturbed : BOOLEAN]

Session ==
  [guid : Nat, stun : {"none", "launched", "sent", "completed"}, asked : Nat,
   holes_opened : BOOLEAN, age : Nat, visible : Nat, multiple : BOOLEAN]

Packet ==
       [what : {"client_stun"}, port : Nat]
  \cup [what : {"step"}, type : {"RESTUN", "PINGBACK"}, guid : Nat, visible : Nat,
        predicted : Nat, multiple : BOOLEAN]
  \cup [what : {"server_stun"}, address : Nat, port : Nat]
  \cup [what : {"result"}, guid : Nat, to : Nat, port : Nat]
  \cup [what : {"success"}, guid : Nat, to : Nat, from : Nat]

TypeOK ==
  /\ types \in [client : Types, server : Types]
  /\ client \in Client
  /\ traversals \in UNION {[D -> Session] : D \in SUBSET Nat}
  /\ nats \in [client : NatOf(types.client), server : NatOf(types.server)]
  /\ net \subseteq Packet

-----------------------------------------------------------------------------
(* The inductive invariant. *)

(* A server that is listed has sent heartbeats. *)
Listed(server) == Key(types.server, Master) \in DOMAIN server.map

(* Every packet that tells of success went through a hole of the server's. *)
Left(server, packets) ==
  \A d \in packets : d.what = "success" => LetsIn(server, d.from, AtClient(d.to))

(* Between the two NATs there is a way through the port that was handed on. *)
Open(c, nat, server) ==
  c.state = "TRAVERSAL_COMPLETE" =>
    \E here \in Nat : LetsIn(nat, here, AtServer(c.opened)) /\ LetsIn(server, c.opened, AtClient(here))

IInv ==
  /\ TypeOK
  /\ Listed(nats.server)
  /\ Left(nats.server, net)
  /\ Open(client, nats.client, nats.server)

-----------------------------------------------------------------------------
(* The NATs. *)

(* Every destination has a key. *)
LEMMA KeyIsKey ==
  ASSUME NEW t \in Types, NEW to \in Address
  PROVE  Key(t, to) \in Keys
BY NatAssumption DEF Key, Keys, Address

(* The addresses that packets go to. *)
LEMMA Places ==
  /\ Master \in Address
  /\ \A port \in Nat : AtServer(port) \in Address /\ AtClient(port) \in Address
BY DEF Master, AtServer, AtClient, Address, Hosts

(* A packet that leaves opens the hole it leaves through, and closes none. *)
LEMMA Leaves ==
  ASSUME NEW t \in Types, NEW nat \in NatOf(t), NEW to \in Address
  PROVE  /\ Through(t, nat, to) \in NatOf(t)
         /\ Grows(nat, Through(t, nat, to))
         /\ Key(t, to) \in DOMAIN Through(t, nat, to).map
         /\ PortTo(t, Through(t, nat, to), to) \in Nat
         /\ LetsIn(Through(t, nat, to), PortTo(t, Through(t, nat, to), to), to)
<1>. DEFINE k      == Key(t, to)
            map    == IF k \in DOMAIN nat.map THEN nat.map ELSE With(nat.map, k, nat.next)
            next   == IF k \in DOMAIN nat.map THEN nat.next ELSE nat.next + 1
            holes  == nat.holes \cup {<<map[k], to>>}
            mapped == IF k \in DOMAIN nat.map THEN nat
                      ELSE [nat EXCEPT !.map = With(@, k, nat.next), !.next = @ + 1]
<1>0. /\ k \in Keys
      /\ nat = [next |-> nat.next, map |-> nat.map, holes |-> nat.holes]
      /\ nat.next \in Nat /\ nat.holes \subseteq Nat \X Address
      /\ DOMAIN nat.map \subseteq Keys /\ nat.map \in [DOMAIN nat.map -> Nat]
      /\ Faithful(t, nat)
  BY KeyIsKey DEF NatOf, NatState
<1>1. mapped = [next |-> next, map |-> map, holes |-> nat.holes]
  BY <1>0
<1>2. Through(t, nat, to) = [mapped EXCEPT !.holes = @ \cup {<<mapped.map[k], to>>}]
  BY DEF Through
<1>3. Through(t, nat, to) = [next |-> next, map |-> map, holes |-> holes]
  <2>. HIDE DEF mapped, map, next
  <2>. QED  BY <1>1, <1>2
<1>4. /\ next \in Nat
      /\ DOMAIN map = DOMAIN nat.map \cup {k}
      /\ map \in [DOMAIN map -> Nat]
      /\ \A l \in DOMAIN nat.map : map[l] = nat.map[l]
  BY <1>0 DEF With
<1>. HIDE DEF map, next
<1>5. holes \subseteq Nat \X Address
  BY <1>0, <1>4
<1>6. [next |-> next, map |-> map, holes |-> holes] \in NatState
  <2>1. map \in UNION {[D -> Nat] : D \in SUBSET Keys}
    BY <1>0, <1>4
  <2>. QED  BY <1>4, <1>5, <2>1 DEF NatState
<1>7. Faithful(t, [next |-> next, map |-> map, holes |-> holes])
  BY <1>0, <1>4 DEF Faithful
<1>. QED  BY <1>0, <1>3, <1>4, <1>6, <1>7 DEF NatOf, Grows, PortTo, LetsIn

(* Nor does a NAT forget anything in two steps. *)
LEMMA GrowsOn ==
  ASSUME NEW nat, NEW later, NEW latest, Grows(nat, later), Grows(later, latest)
  PROVE  Grows(nat, latest)
BY DEF Grows

(* A request to a STUN server takes a port that is used for nothing else. *)
LEMMA StunGrows ==
  ASSUME NEW t, NEW nat \in NatOf(t)
  PROVE  Stunned(nat) \in NatOf(t) /\ Grows(nat, Stunned(nat))
BY DEF NatOf, NatState, Stunned, Faithful, Grows

(* The pings of the client: as many as there are targets. *)
LEMMA HolesGrow ==
  ASSUME NEW t \in Types, t = types.client, NEW nat \in NatOf(t), NEW targets \in Seq(Nat)
  PROVE  /\ FoldLeft(OpenHole, nat, targets) \in NatOf(t)
         /\ Grows(nat, FoldLeft(OpenHole, nat, targets))
<1>. DEFINE T == {later \in NatOf(t) : Grows(nat, later)}
<1>1. nat \in T
  BY DEF Grows
<1>2. ASSUME NEW later \in T, NEW port \in Nat
      PROVE  OpenHole(later, port) \in T
  BY Leaves, Places, GrowsOn DEF OpenHole
<1>3. Holes!Fold(nat, targets) \in T
  <2>. HIDE DEF T
  <2>. QED  BY <1>1, <1>2, Holes!FoldClosed
<1>4. FoldLeft(OpenHole, nat, targets) = Holes!Fold(nat, targets)
  BY DEF Holes!Fold, Holes!FoldLeft, Holes!MapThenFoldSet, Holes!Max, FoldLeft, MapThenFoldSet, Max
<1>. QED  BY <1>3, <1>4

(* The list has a port of the server, as it is known from its heartbeats. *)
LEMMA ServerIsKnown ==
  ASSUME IInv
  PROVE  Traversed \in Nat
BY DEF IInv, TypeOK, Listed, Traversed, PortTo, NatOf, NatState

(* open_holes_for_server(): one hole, or as many as brute force needs. *)
LEMMA ClientOpens ==
  ASSUME IInv, NEW nat \in NatOf(types.client)
  PROVE  /\ OpenHolesForServer(nat) \in NatOf(types.client)
         /\ Grows(nat, OpenHolesForServer(nat))
<1>. DEFINE targets == IF client.server_port = 0 THEN <<Traversed>>
                       ELSE [i \in 1 .. IF BothSYMPS THEN 1 ELSE Brute + 1
                               |-> client.server_port + 1 + i - 1]
<1>1. targets \in Seq(Nat)
  <2>1. CASE client.server_port = 0
    BY <2>1, ServerIsKnown
  <2>2. CASE client.server_port # 0
    <3>. DEFINE n == IF BothSYMPS THEN 1 ELSE Brute + 1
    <3>1. n \in Nat /\ client.server_port \in Nat
      BY NatAssumption DEF IInv, TypeOK, Client
    <3>2. targets = [i \in 1..n |-> client.server_port + 1 + i - 1]
      BY <2>2
    <3>. HIDE DEF n, targets
    <3>. QED  BY <3>1, <3>2
  <2>. QED  BY <2>1, <2>2
<1>2. OpenHolesForServer(nat) = FoldLeft(OpenHole, nat, targets)
  BY DEF OpenHolesForServer
<1>. HIDE DEF targets
<1>. QED  BY <1>1, <1>2, HolesGrow DEF IInv, TypeOK

-----------------------------------------------------------------------------
(* Steps of the client. *)

(* A way that is open stays so while the NATs forget nothing. *)
LEMMA StaysOpen ==
  ASSUME NEW c, NEW later, NEW nat, NEW natlater, NEW server, NEW serverlater,
         Open(c, nat, server), Grows(nat, natlater), Grows(server, serverlater),
         later.state = "TRAVERSAL_COMPLETE" =>
           c.state = "TRAVERSAL_COMPLETE" /\ later.opened = c.opened
  PROVE  Open(later, natlater, serverlater)
BY DEF Open, Grows, LetsIn

(* The client acts through its NAT; the NAT of the server stays as it is. *)
LEMMA ClientMoves ==
  ASSUME IInv, UNCHANGED <<types, traversals>>,
         NEW nat \in NatOf(types.client), nats' = [nats EXCEPT !.client = nat],
         client' \in Client, net' \subseteq Packet, Left(nats.server, net'),
         Open(client', nat, nats.server)
  PROVE  IInv'
<1>1. nats'.client = nat /\ nats'.server = nats.server
      /\ nats' \in [client : NatOf(types.client), server : NatOf(types.server)]
  BY DEF IInv, TypeOK
<1>. QED  BY <1>1 DEF IInv, TypeOK, Listed, NatOf

(* What is sent to the masterserver: the step it relays. *)
LEMMA Requests ==
  ASSUME IInv, NEW nat \in NatOf(types.client), NEW type \in {"RESTUN", "PINGBACK"},
         Grows(nats.client, nat), Request(nat, type), UNCHANGED <<types, traversals>>,
         client' = [client EXCEPT !.due = FALSE], client.state # "TRAVERSAL_COMPLETE"
  PROVE  IInv'
<1>. DEFINE sent == Through(types.client, nat, Master)
<1>1. types.client \in Types
  BY DEF IInv, TypeOK
<1>2. sent \in NatOf(types.client) /\ PortTo(types.client, sent, Master) \in Nat
  BY <1>1, Leaves, Places
<1>3. Step(sent, type) \in Packet /\ Step(sent, type).what # "success"
  <2>1. client.guid \in Nat /\ client.stunned + 1 \in Nat
    BY DEF IInv, TypeOK, Client
  <2>. HIDE DEF sent
  <2>. QED  BY <1>2, <2>1 DEF Step, Packet, Symmetric, BothSYMPS, Conic
<1>4. net' \subseteq Packet /\ Left(nats.server, net')
  BY <1>3 DEF Request, IInv, TypeOK, Left
<1>5. client' \in Client /\ client'.state # "TRAVERSAL_COMPLETE"
  BY DEF IInv, TypeOK, Client
<1>6. nats' = [nats EXCEPT !.client = sent]
  BY DEF Request
<1>. HIDE DEF sent
<1>. QED  BY <1>2, <1>4, <1>5, <1>6, ClientMoves DEF Open

(* advance(): a STUN request, a request to the masterserver, or the flow. *)
LEMMA Advances ==
  ASSUME IInv, Advance
  PROVE  IInv'
<1>0. /\ types.client \in Types /\ nats.client \in NatOf(types.client)
      /\ UNCHANGED <<types, traversals>>
      /\ net \subseteq Packet /\ Left(nats.server, net)
      /\ client \in Client /\ Open(client, nats.client, nats.server)
      /\ nats = [client |-> nats.client, server |-> nats.server]
  BY DEF IInv, TypeOK, Advance
<1>1. CASE SendStunRequest
  <2>. DEFINE stunned == Stunned(nats.client)
              nat     == IF Conic(types.server) THEN OpenHolesForServer(stunned) ELSE stunned
              sent    == [what |-> "client_stun", port |-> nats.client.next]
  <2>1. nat \in NatOf(types.client) /\ Grows(nats.client, nat)
    BY <1>0, StunGrows, ClientOpens, GrowsOn
  <2>2. nats.client.next \in Nat
    BY <1>0 DEF NatOf, NatState
  <2>3. sent \in Packet /\ sent.what # "success"
    BY <2>2 DEF Packet
  <2>4. /\ client' = [client EXCEPT !.stun = "sent", !.asked = nats.client.next, !.stun_age = 0]
        /\ nats' = [nats EXCEPT !.client = nat]
        /\ net' = net \cup {sent}
    BY <1>1 DEF SendStunRequest
  <2>. HIDE DEF nat, sent
  <2>5. client' \in Client /\ client'.state = client.state /\ client'.opened = client.opened
    BY <1>0, <2>2, <2>4 DEF Client
  <2>6. Open(client', nat, nats.server)
    BY <1>0, <2>1, <2>5, StaysOpen DEF Grows
  <2>7. net' \subseteq Packet /\ Left(nats.server, net')
    BY <1>0, <2>3, <2>4 DEF Left
  <2>. QED  BY <1>0, <2>1, <2>4, <2>5, <2>6, <2>7, ClientMoves
<1>2. CASE Flow
  <2>1. client' \in Client /\ client'.state # "TRAVERSAL_COMPLETE"
    BY <1>0, <1>2, ZenonT(40) DEF Flow, Restun, Client
  <2>2. nats' = [nats EXCEPT !.client = nats.client] /\ net' = net
    BY <1>0, <1>2 DEF Flow
  <2>. QED  BY <1>0, <2>1, <2>2, ClientMoves DEF Open
<1>3. CASE RequestRemotePortInfo
  BY <1>0, <1>3, Requests DEF RequestRemotePortInfo, Grows
<1>4. CASE Traverse
  BY <1>0, <1>4, Requests, ClientOpens DEF Traverse
<1>. QED  BY <1>1, <1>2, <1>3, <1>4 DEF Advance, ClientAdvance

(* The packet that completes a traversal came in through a hole of the     *)
(* client's, and left through one of the server's.                         *)
LEMMA Completes ==
  ASSUME IInv, NEW d \in net, d.what \in {"client_stun", "result", "success"}
  PROVE  /\ ClientReceives(d) \in Client
         /\ Open(ClientReceives(d), nats.client, nats.server)
<1>0. /\ client \in Client /\ Open(client, nats.client, nats.server)
      /\ d \in Packet /\ Left(nats.server, net)
  BY DEF IInv, TypeOK
<1>1. CASE client.state \in {"TRAVERSAL_COMPLETE", "TIMED_OUT"}
  BY <1>0, <1>1 DEF ClientReceives
<1>2. CASE client.state \notin {"TRAVERSAL_COMPLETE", "TIMED_OUT"} /\ d.what = "client_stun"
  <2>1. d.port \in Nat
    BY <1>0, <1>2 DEF Packet
  <2>. QED  BY <1>0, <1>2, <2>1 DEF ClientReceives, Client, Open
<1>3. CASE client.state \notin {"TRAVERSAL_COMPLETE", "TIMED_OUT"} /\ d.what = "result"
  <2>1. d.port \in Nat
    BY <1>0, <1>3 DEF Packet
  <2>. QED  BY <1>0, <1>3, <2>1 DEF ClientReceives, Client, Open
<1>4. CASE client.state \notin {"TRAVERSAL_COMPLETE", "TIMED_OUT"} /\ d.what = "success"
  <2>1. d.from \in Nat /\ d.to \in Nat
    BY <1>0, <1>4 DEF Packet
  <2>2. CASE d.guid = client.guid /\ LetsIn(nats.client, d.to, AtServer(d.from))
    <3>1. ClientReceives(d) = [client EXCEPT !.opened = d.from, !.state = "TRAVERSAL_COMPLETE"]
      BY <1>4, <2>2 DEF ClientReceives, OpenedPort
    <3>2. LetsIn(nats.server, d.from, AtClient(d.to))
      BY <1>0, <1>4 DEF Left
    <3>3. ClientReceives(d) \in Client /\ ClientReceives(d).opened = d.from
      BY <1>0, <2>1, <3>1 DEF Client
    <3>. QED  BY <2>1, <2>2, <3>2, <3>3 DEF Open
  <2>3. CASE ~(d.guid = client.guid /\ LetsIn(nats.client, d.to, AtServer(d.from)))
    <3>1. ClientReceives(d) = client
      BY <1>4, <2>3 DEF ClientReceives
    <3>. QED  BY <1>0, <3>1
  <2>. QED  BY <2>2, <2>3
<1>. QED  BY <1>1, <1>2, <1>3, <1>4

(* receive_packets(): no packet changes a NAT. *)
LEMMA ClientTakes ==
  ASSUME IInv, NEW d \in net, ClientHandles(d), UNCHANGED types, net' \subseteq net
  PROVE  IInv'
<1>1. client' \in Client /\ Open(client', nats.client, nats.server)
  BY Completes DEF ClientHandles
<1>2. /\ nats' = [nats EXCEPT !.client = nats.client] /\ UNCHANGED <<types, traversals>>
      /\ nats.client \in NatOf(types.client)
      /\ net' \subseteq Packet /\ Left(nats.server, net')
  BY DEF IInv, TypeOK, ClientHandles, Left
<1>. QED  BY <1>1, <1>2, ClientMoves

-----------------------------------------------------------------------------
(* Steps of the game server. *)

(* What is made of a session, while the NAT forgets nothing: all that is   *)
(* told of success has left.                                               *)
Change == [session : Session, nat : NatOf(types.server), sent : SUBSET Packet]
Changes == {ch \in Change : Grows(nats.server, ch.nat) /\ Left(ch.nat, ch.sent)}

(* What has left through a hole has left through it later as well. *)
LEMMA StillLeft ==
  ASSUME NEW server, NEW later, Grows(server, later), NEW packets, Left(server, packets)
  PROVE  Left(later, packets)
BY DEF Left, Grows, LetsIn

(* One ping through a hole of its own. *)
LEMMA PingLeaves ==
  ASSUME types.server \in Types, NEW ch \in Changes, NEW port \in Nat
  PROVE  Ping(ch, port) \in Changes
<1>. DEFINE nat  == Through(types.server, ch.nat, AtClient(port))
            ping == [what |-> "success", guid |-> ch.session.guid, to |-> port,
                     from |-> PortTo(types.server, nat, AtClient(port))]
<1>0. ch.nat \in NatOf(types.server) /\ AtClient(port) \in Address
  BY Places DEF Changes, Change
<1>1. /\ nat \in NatOf(types.server) /\ Grows(ch.nat, nat)
      /\ PortTo(types.server, nat, AtClient(port)) \in Nat
      /\ LetsIn(nat, PortTo(types.server, nat, AtClient(port)), AtClient(port))
  BY <1>0, Leaves
<1>. HIDE DEF nat
<1>2. ping \in Packet
  BY <1>1 DEF Packet, Changes, Change, Session
<1>3. Ping(ch, port) = [ch EXCEPT !.nat = nat, !.sent = @ \cup {ping}]
  BY DEF Ping, nat
<1>4. Left(nat, ch.sent \cup {ping})
  <2>1. Left(nat, ch.sent)
    BY <1>1, StillLeft DEF Changes
  <2>. QED  BY <1>1, <2>1 DEF Left
<1>5. Grows(nats.server, nat)
  BY <1>1, GrowsOn DEF Changes
<1>. HIDE DEF ping
<1>. QED  BY <1>1, <1>2, <1>3, <1>4, <1>5 DEF Changes, Change

(* open_holes(): one ping, or many. *)
LEMMA ServerOpens ==
  ASSUME types.server \in Types, NEW ch \in Changes, NEW address \in Nat
  PROVE  OpenHoles(ch, address) \in Changes
<1>. DEFINE count == IF ch.session.multiple /\ ~ch.session.holes_opened THEN Brute + 1 ELSE 1
            begun == [ch EXCEPT !.session.holes_opened = TRUE]
            ports == [i \in 1 .. count |-> address + i - 1]
<1>1. OpenHoles(ch, address) = FoldLeft(Ping, begun, ports)
  BY DEF OpenHoles
<1>2. begun \in Changes
  <2>0. PICK s, nat, sent : s \in Session /\ ch = [session |-> s, nat |-> nat, sent |-> sent]
    BY DEF Changes, Change
  <2>. DEFINE opened == [s EXCEPT !.holes_opened = TRUE]
  <2>1. begun = [ch EXCEPT !.session = opened]
    BY <2>0
  <2>2. opened \in Session
    BY <2>0 DEF Session
  <2>. HIDE DEF opened
  <2>3. begun = [session |-> opened, nat |-> nat, sent |-> sent]
    BY <2>0, <2>1
  <2>. HIDE DEF begun
  <2>. QED  BY <2>0, <2>2, <2>3 DEF Changes, Change
<1>3. ports \in Seq(Nat)
  <2>1. count \in Nat
    BY NatAssumption
  <2>. HIDE DEF count
  <2>. QED  BY <2>1
<1>4. FoldLeft(Ping, begun, ports) = Pings!Fold(begun, ports)
  BY DEF Pings!Fold, Pings!FoldLeft, Pings!MapThenFoldSet, Pings!Max, FoldLeft, MapThenFoldSet, Max
<1>. HIDE DEF begun, ports
<1>. QED  BY <1>1, <1>2, <1>3, <1>4, PingLeaves, Pings!FoldClosed

(* What the server does with one session is what is made of it. *)
LEMMA ServerMoves ==
  ASSUME IInv, UNCHANGED <<types, client>>, NEW address \in Nat, NEW ch \in Changes,
         NEW others, others \subseteq net, Becomes(address, ch, others)
  PROVE  IInv'
<1>1. /\ nats' = [nats EXCEPT !.server = ch.nat] /\ net' = others \cup ch.sent
      /\ traversals' = With(traversals, address, ch.session)
  BY DEF Becomes
<1>2. /\ nats'.client = nats.client /\ nats'.server = ch.nat
      /\ nats' \in [client : NatOf(types.client), server : NatOf(types.server)]
  BY <1>1 DEF IInv, TypeOK, Changes, Change
<1>3. traversals' \in UNION {[D -> Session] : D \in SUBSET Nat}
  <2>1. ch.session \in Session
    BY DEF Changes, Change
  <2>. QED  BY <1>1, <2>1 DEF IInv, TypeOK, With
<1>4. net' \subseteq Packet /\ Left(ch.nat, net')
  <2>1. Left(ch.nat, net) /\ Left(ch.nat, ch.sent)
    BY StillLeft DEF IInv, Changes
  <2>. QED  BY <1>1, <2>1 DEF IInv, TypeOK, Changes, Change, Left
<1>5. Open(client', nats.client, ch.nat) /\ Listed(ch.nat)
  BY StaysOpen DEF IInv, Changes, Grows, Listed
<1>. QED  BY <1>2, <1>3, <1>4, <1>5 DEF IInv, TypeOK, Listed

(* advance(): the STUN request of a session and the pings behind it. *)
LEMMA Answers ==
  ASSUME IInv, NEW address \in DOMAIN traversals, Answer(address)
  PROVE  IInv'
<1>0. /\ types.server \in Types /\ nats.server \in NatOf(types.server)
      /\ address \in Nat /\ traversals[address] \in Session
  BY DEF IInv, TypeOK
<1>. DEFINE session == [traversals[address] EXCEPT !.stun = "sent", !.asked = nats.server.next]
            request == [what |-> "server_stun", address |-> address, port |-> nats.server.next]
            sent    == {request}
            asked   == [session |-> session, nat |-> Stunned(nats.server), sent |-> sent]
<1>1. nats.server.next \in Nat
  BY <1>0 DEF NatOf, NatState
<1>2. session \in Session
  BY <1>0, <1>1 DEF Session
<1>3. sent \in SUBSET Packet /\ Left(Stunned(nats.server), sent)
  <2>1. request \in Packet /\ request.what # "success"
    BY <1>0, <1>1 DEF Packet
  <2>. HIDE DEF request
  <2>. QED  BY <2>1 DEF Left
<1>4. Becomes(address, IF traversals[address].holes_opened THEN asked ELSE OpenHoles(asked, address), net)
  BY DEF Answer, SendServerStun
<1>. HIDE DEF session, sent
<1>5. asked \in Changes
  BY <1>0, <1>2, <1>3, StunGrows DEF Changes, Change
<1>. HIDE DEF asked
<1>. QED  BY <1>0, <1>4, <1>5, ServerOpens, ServerMoves DEF Answer, SendServerStun

(* handle_auxiliary_command(): a step of a known or a new session. *)
LEMMA ServerTakes ==
  ASSUME IInv, NEW d \in net, d.what = "step", NEW rest, rest \subseteq net,
         HandleStep(d, rest), UNCHANGED <<types, client>>
  PROVE  IInv'
<1>0. /\ types.server \in Types /\ nats.server \in NatOf(types.server)
      /\ d.predicted \in Nat /\ d.guid \in Nat /\ d.visible \in Nat /\ d.multiple \in BOOLEAN
  <2>1. d \in Packet
    BY DEF IInv, TypeOK
  <2>. QED  BY <2>1 DEF IInv, TypeOK, Packet
<1>. DEFINE known   == Entry(d.predicted, d.guid)
            session == [known EXCEPT !.visible = d.visible, !.multiple = d.multiple]
            Sending(s, packets) == [session |-> s, nat |-> nats.server, sent |-> packets]
<1>1. known \in Session
  BY <1>0 DEF Entry, Fresh, Session, IInv, TypeOK
<1>. HIDE DEF known
<1>2. session \in Session
  BY <1>0, <1>1 DEF Session
<1>. HIDE DEF session
<1>3. ASSUME NEW s \in Session, NEW packets \in SUBSET Packet,
             \A p \in packets : p.what # "success"
      PROVE  Sending(s, packets) \in Changes
  BY <1>0, <1>3 DEF Changes, Change, Grows, Left
<1>4. CASE known.guid > d.guid
  <2>1. net' = rest /\ UNCHANGED <<types, client, traversals, nats>>
    BY <1>4 DEF HandleStep, known
  <2>. QED  BY <2>1 DEF IInv, TypeOK, Left, Open, Listed, NatOf
<1>5. CASE ~(known.guid > d.guid) /\ d.type = "PINGBACK"
  <2>1. Becomes(d.predicted, OpenHoles(Sending(session, {}), d.predicted), rest)
    BY <1>5 DEF HandleStep, known, session
  <2>. HIDE DEF Sending
  <2>2. OpenHoles(Sending(session, {}), d.predicted) \in Changes
    BY <1>0, <1>2, <1>3, ServerOpens
  <2>. QED  BY <1>0, <2>1, <2>2, ServerMoves
<1>6. CASE ~(known.guid > d.guid) /\ d.type # "PINGBACK"
  <2>. DEFINE launched == [session EXCEPT !.stun = "launched"]
  <2>1. launched \in Session
    BY <1>2 DEF Session
  <2>2. Result(session) \in Packet /\ Result(session).what # "success"
    BY <1>2 DEF Result, Session, Packet
  <2>3. \/ Becomes(d.predicted, Sending(launched, {}), rest)
        \/ Becomes(d.predicted, Sending(session, {Result(session)}), rest)
        \/ Becomes(d.predicted, Sending(session, {}), rest)
    BY <1>6 DEF HandleStep, known, session
  <2>. HIDE DEF launched, Sending
  <2>4. /\ Sending(launched, {}) \in Changes
        /\ Sending(session, {Result(session)}) \in Changes
        /\ Sending(session, {}) \in Changes
    BY <1>2, <1>3, <2>1, <2>2
  <2>. QED  BY <1>0, <2>3, <2>4, ServerMoves
<1>. QED  BY <1>4, <1>5, <1>6

(* A result is sent by a session that is known. *)
LEMMA ServerIsStunned ==
  ASSUME IInv, NEW d \in net, NEW rest, rest \subseteq net,
         HandleServerStun(d, rest), UNCHANGED <<types, client>>
  PROVE  IInv'
<1>1. \A a \in DOMAIN traversals : traversals[a] \in Session
  BY DEF IInv, TypeOK
<1>2. /\ DOMAIN traversals' = DOMAIN traversals
      /\ \A a \in DOMAIN traversals : traversals'[a] \in Session
      /\ traversals' = [a \in DOMAIN traversals |-> traversals'[a]]
  BY <1>1 DEF HandleServerStun, Session
<1>3. \A a \in DOMAIN traversals :
        Result(traversals'[a]) \in Packet /\ Result(traversals'[a]).what # "success"
  BY <1>2 DEF Result, Session, Packet
<1>4. net' \subseteq Packet /\ Left(nats.server, net')
  BY <1>3 DEF HandleServerStun, IInv, TypeOK, Left
<1>5. traversals' \in UNION {[D -> Session] : D \in SUBSET Nat}
  BY <1>2 DEF IInv, TypeOK
<1>6. UNCHANGED nats
  BY DEF HandleServerStun
<1>. QED  BY <1>4, <1>5, <1>6 DEF IInv, TypeOK, Open, Listed, NatOf, Left

-----------------------------------------------------------------------------
(* Everything else. *)
LEMMA Receives ==
  ASSUME IInv, NEW d \in net, NEW again \in BOOLEAN, Receive(d, again)
  PROVE  IInv'
<1>1. CASE ClientHandles(d)
  BY <1>1, ClientTakes DEF Receive, ClientHandles
<1>2. CASE d.what = "step" /\ \E rest \in SUBSET net : HandleStep(d, rest) /\ UNCHANGED <<types, client>>
  BY <1>2, ServerTakes
<1>3. CASE \E rest \in SUBSET net : HandleServerStun(d, rest) /\ UNCHANGED <<types, client>>
  BY <1>3, ServerIsStunned
<1>4. (IF again THEN net ELSE net \ {d}) \in SUBSET net
  OBVIOUS
<1>. QED  BY <1>1, <1>2, <1>3, <1>4 DEF Receive

(* A lost packet leaves less to arrive. *)
LEMMA Loses ==
  ASSUME IInv, NEW d, Lose(d)
  PROVE  IInv'
BY DEF Lose, IInv, TypeOK, Client, Left, Open, Listed, NatOf

(* A tick, which may time out a request or an attempt. *)
LEMMA Ticks ==
  ASSUME IInv, Tick
  PROVE  IInv'
<1>1. client' \in Client /\ client'.state # "TRAVERSAL_COMPLETE"
  <2>. DEFINE o == [client EXCEPT !.elapsed = @ + 1, !.stun_age = @ + 1, !.due = TRUE]
  <2>0. client \in Client /\ client.state # "TRAVERSAL_COMPLETE"
    BY DEF Tick, IInv, TypeOK
  <2>1. o \in Client /\ o.state # "TRAVERSAL_COMPLETE"
    <3>. DEFINE later == [client EXCEPT !.elapsed = @ + 1]
    <3>1. later \in Client /\ later.state = client.state
      BY <2>0 DEF Client
    <3>. DEFINE latest == [later EXCEPT !.stun_age = @ + 1]
    <3>2. o = [latest EXCEPT !.due = TRUE]
      OBVIOUS
    <3>. HIDE DEF later
    <3>3. latest \in Client /\ latest.state = client.state
      BY <3>1 DEF Client
    <3>. HIDE DEF latest
    <3>. QED  BY <2>0, <3>2, <3>3 DEF Client
  <2>2. \/ Older(client) = [o EXCEPT !.state = "TIMED_OUT", !.stun = "none"]
        \/ Older(client) = Restun(o) \/ Older(client) = o
    BY DEF Older
  <2>. HIDE DEF o
  <2>3. Older(client) \in Client /\ Older(client).state # "TRAVERSAL_COMPLETE"
    BY <2>1, <2>2 DEF Restun, Client
  <2>4. client.disturbed \in BOOLEAN
    BY DEF IInv, TypeOK, Client
  <2>. QED  BY <2>3, <2>4 DEF Tick, Client
<1>2. traversals' \in UNION {[D -> Session] : D \in SUBSET Nat}
  <2>. DEFINE older == [a \in DOMAIN traversals |-> [traversals[a] EXCEPT !.age = @ + 1]]
              kept  == {b \in DOMAIN older : older[b].age < AttemptTimeout}
  <2>0. DOMAIN traversals \subseteq Nat /\ \A a \in DOMAIN traversals : traversals[a] \in Session
    BY DEF IInv, TypeOK
  <2>1. DOMAIN older \subseteq Nat /\ \A a \in DOMAIN older : older[a] \in Session
    BY <2>0 DEF Session
  <2>2. traversals' = [a \in kept |-> older[a]]
    BY DEF Tick
  <2>. HIDE DEF older
  <2>. QED  BY <2>1, <2>2
<1>. QED  BY <1>1, <1>2 DEF Tick, IInv, TypeOK, Open, Listed, Left, NatOf

(* A new attempt, on a new socket or not. *)
LEMMA StartsAnew ==
  ASSUME IInv, NEW disturbed \in BOOLEAN, NEW nat \in NatOf(types.client),
         client' = NewSession(client.guid + 1, disturbed),
         nats' = [nats EXCEPT !.client = nat], UNCHANGED <<types, traversals, net>>
  PROVE  IInv'
<1>1. client' \in Client /\ client'.state # "TRAVERSAL_COMPLETE"
  BY DEF NewSession, IInv, TypeOK, Client
<1>. QED  BY <1>1, ClientMoves DEF Open, IInv, TypeOK

(* Behind a new socket nothing is mapped. *)
LEMMA NewSocketIsNat ==
  ASSUME NEW t, NEW nat \in NatOf(t)
  PROVE  NewSocket(nat) \in NatOf(t)
<1>0. PICK n, m, h : n \in Nat /\ nat = [next |-> n, map |-> m, holes |-> h]
  BY DEF NatOf, NatState
<1>. DEFINE unmapped == [nat EXCEPT !.map = Closed]
<1>1. NewSocket(nat) = [next |-> n, map |-> Closed, holes |-> {}]
  <2>1. unmapped = [next |-> n, map |-> Closed, holes |-> h]
    BY <1>0
  <2>2. NewSocket(nat) = [unmapped EXCEPT !.holes = {}]
    BY DEF NewSocket
  <2>. HIDE DEF unmapped
  <2>. QED  BY <2>1, <2>2
<1>2. Closed \in UNION {[D -> Nat] : D \in SUBSET Keys}
  <2>1. Closed \in [{} -> Nat] /\ {} \in SUBSET Keys
    BY DEF Closed
  <2>. QED  BY <2>1
<1>3. NewSocket(nat) \in NatState
  BY <1>0, <1>1, <1>2 DEF NatState
<1>. QED  BY <1>1, <1>3 DEF NatOf, Faithful

(* check_nat_traversal_result(), or a player who gives up: the next attempt. *)
LEMMA Retries ==
  ASSUME IInv, NextAttempt \/ \E fixed_port \in BOOLEAN : Abort(fixed_port)
  PROVE  IInv'
<1>0. /\ types.client \in Types /\ nats.client \in NatOf(types.client)
      /\ nats = [nats EXCEPT !.client = nats.client]
      /\ (net # {}) \in BOOLEAN
  BY DEF IInv, TypeOK
<1>1. /\ NewSocket(nats.client) \in NatOf(types.client)
      /\ Through(types.client, NewSocket(nats.client), Master) \in NatOf(types.client)
  BY <1>0, NewSocketIsNat, Leaves, Places
<1>2. CASE NextAttempt
  <2>1. nats' = [nats EXCEPT !.client = NewSocket(nats.client)]
    BY <1>2 DEF NextAttempt
  <2>. QED  BY <1>0, <1>1, <1>2, <2>1, StartsAnew DEF NextAttempt
<1>3. ASSUME NEW fixed_port \in BOOLEAN, Abort(fixed_port) PROVE IInv'
  <2>1. \E nat \in NatOf(types.client) : nats' = [nats EXCEPT !.client = nat]
    BY <1>0, <1>1, <1>3 DEF Abort
  <2>2. (fixed_port \/ net # {}) \in BOOLEAN
    OBVIOUS
  <2>. QED  BY <1>3, <2>1, <2>2, StartsAnew DEF Abort
<1>. QED  BY <1>2, <1>3

(* Every step keeps the invariant. *)
LEMMA Inductive == IInv /\ [Next]_vars => IInv'
<1>. SUFFICES ASSUME IInv, [Next]_vars PROVE IInv'
  OBVIOUS
<1>1. CASE UNCHANGED vars
  BY <1>1 DEF vars, IInv, TypeOK, Left, Open, Listed, NatOf
<1>. QED  BY <1>1, Advances, Answers, Loses, Receives, Ticks, Retries DEF Next

(* The server has sent heartbeats, nothing else has happened. *)
LEMMA Initially == Init => IInv
<1>. SUFFICES ASSUME Init PROVE IInv
  OBVIOUS
<1>1. \A t \in Types : NoNat \in NatOf(t)
  BY DEF NoNat, NatOf, NatState, Closed, Faithful
<1>2. /\ types \in [client : Types, server : Types]
      /\ Through(types.client, NoNat, Master) \in NatOf(types.client)
      /\ Through(types.server, NoNat, Master) \in NatOf(types.server)
      /\ Listed(Through(types.server, NoNat, Master))
  BY <1>1, Leaves, Places DEF Init, Listed
<1>3. client \in Client /\ client.state # "TRAVERSAL_COMPLETE"
  BY DEF Init, NewSession, Client
<1>4. traversals \in [{} -> Session] /\ {} \in SUBSET Nat
  BY DEF Init, Closed
<1>5. net = {} /\ nats = [client |-> Through(types.client, NoNat, Master),
                         server |-> Through(types.server, NoNat, Master)]
  BY DEF Init
<1>6. TypeOK
  BY <1>2, <1>3, <1>4, <1>5 DEF TypeOK
<1>. QED  BY <1>2, <1>3, <1>5, <1>6 DEF IInv, Left, Open

(* All of it, in every reachable state. *)
THEOREM Invariant == Spec => []IInv
BY Initially, Inductive, PTL DEF Spec

(* Whatever the two NATs are, whatever was lost, late or answered twice,   *)
(* and however many attempts it took: the address the session hands on is  *)
(* open from the client to the server and back.                            *)
THEOREM HandsOnAnOpenAddress == Spec => []CompletedIsOpen
<1>1. IInv => CompletedIsOpen
  <2>. SUFFICES ASSUME IInv, client.state = "TRAVERSAL_COMPLETE" PROVE CompletedIsOpen
    BY DEF CompletedIsOpen
  <2>1. PICK here \in Nat : /\ LetsIn(nats.client, here, AtServer(client.opened))
                            /\ LetsIn(nats.server, client.opened, AtClient(here))
    BY DEF IInv, Open
  <2>2. PortTo(types.client, nats.client, AtServer(client.opened)) = here
    BY <2>1 DEF IInv, TypeOK, NatOf, Faithful, PortTo, LetsIn
  <2>. QED  BY <2>1, <2>2 DEF CompletedIsOpen
<1>. QED  BY <1>1, Invariant, PTL

-----------------------------------------------------------------------------
(* When an attempt times out. A NAT keeps the ports it has mapped, and the *)
(* ports it has mapped already are behind the next one.                    *)

Young(nat) == \A k \in DOMAIN nat.map : nat.map[k] < nat.next

Ages(nat, later) ==
  /\ Grows(nat, later)
  /\ \A k \in DOMAIN nat.map : later.map[k] = nat.map[k]
  /\ nat.next <= later.next
  /\ Young(nat) => Young(later)

(* No session or packet is of an attempt that is still to come. *)
Dated ==
  /\ client.guid >= 1 /\ nats.server.next >= 1
  /\ Young(nats.client)
  /\ \A a \in DOMAIN traversals : traversals[a].guid <= client.guid
  /\ \A d \in net : d.what = "step" => d.guid <= client.guid

(* Where the client's NAT is conic and the server's is strictest: no port  *)
(* is known to the server before the client's NAT has mapped it.           *)
Exact == types.client = "CONE" /\ types.server = "PORT_SENSITIVE"
Foreseen ==
  Exact =>
    /\ \A a \in DOMAIN traversals : a < nats.client.next /\ ~traversals[a].multiple
    /\ \A p \in Nat : AtClient(p) \in DOMAIN nats.server.map => p < nats.client.next
    /\ \A d \in net : d.what = "step" => d.predicted < nats.client.next /\ ~d.multiple

Undisturbed ==
  /\ ~client.disturbed /\ client.state # "TRAVERSAL_COMPLETE"
  /\ client.guid = 1 \/ Retryable

Registered == Key(types.client, Master) \in DOMAIN nats.client.map
Visible    == PortTo(types.client, nats.client, Master)

(* The port the client tells the server to answer to, and the one the      *)
(* client expects the answer from.                                         *)
Predicted  == IF Conic(types.client) THEN Visible ELSE client.stunned + 1
Answering  == IF client.server_port = 0 THEN Traversed ELSE client.server_port + 1

Reached(p)     == Key(types.server, AtClient(p)) \in DOMAIN nats.server.map
Answered(port) == /\ port >= 1 /\ Reached(Predicted)
                  /\ nats.server.map[Key(types.server, AtClient(Predicted))] = port + 1
Mine(it)       == it.guid = client.guid

(* The port behind one that was asked for is the server's, or still free.  *)
ReadyAt(port) ==
  Symmetric(types.client) =>
    IF Conic(types.server) THEN <<port + 1, AtServer(Traversed)>> \in nats.client.holes
    ELSE DOMAIN nats.client.map = {Key(types.client, Master)} /\ nats.client.next = port + 1

(* Nothing but the masterserver was sent to. *)
Virgin ==
  Symmetric(types.client) =>
    /\ DOMAIN nats.client.map \subseteq {Key(types.client, Master)}
    /\ Symmetric(types.server) => Registered

(* The client on its way to know its port, and the one of the server. *)
Opening ==
  /\ client.state # "TIMED_OUT"
  /\ client.state = "INIT" => client.stun = "none" /\ client.due /\ Virgin
  /\ client.state = "AWAITING_STUN_RESPONSE" =>
       /\ Symmetric(types.client) /\ client.due
       /\ \/ client.stun = "launched" /\ Virgin
          \/ /\ client.stun = "sent" /\ ReadyAt(client.asked)
             /\ [what |-> "client_stun", port |-> client.asked] \in net
  /\ client.state \notin {"INIT", "AWAITING_STUN_RESPONSE"} => client.stun = "none"
  /\ client.state \in {"CLIENT_STUN_REQUIREMENT_MET", "REQUESTING_REMOTE_PORT_INFO",
                       "SERVER_STUN_REQUIREMENT_MET"} => ReadyAt(client.stunned)
  /\ client.state = "CLIENT_STUN_REQUIREMENT_MET" => client.due
  /\ client.state = "REQUESTING_REMOTE_PORT_INFO" => Symmetric(types.server)
  /\ client.state = "SERVER_STUN_REQUIREMENT_MET" => client.due = Conic(types.server)
  /\ client.state # "TRAVERSING" => client.elapsed = 0
  /\ Conic(types.server) => client.server_port = 0

(* The steps under way are those of this attempt, and say what is right. *)
Telling ==
  \A d \in net : d.what = "step" =>
    /\ Mine(d) /\ Registered /\ d.visible = Visible /\ d.predicted = Predicted
    /\ client.state \in {"REQUESTING_REMOTE_PORT_INFO", "SERVER_STUN_REQUIREMENT_MET", "TRAVERSING"}
    /\ d.type = "PINGBACK" => client.state = "TRAVERSING"

Quiet ==
  \/ client.state \in {"INIT", "AWAITING_STUN_RESPONSE", "CLIENT_STUN_REQUIREMENT_MET"}
  \/ client.state = "REQUESTING_REMOTE_PORT_INFO" /\ client.due

(* Before a symmetric server is asked for its port it knows nothing of     *)
(* the attempt, nor has it ever sent to where it will be asked to.         *)
Unasked ==
  Quiet /\ Symmetric(types.server) =>
    /\ \A d \in net : d.what # "step" /\ (d.what = "result" => ~Mine(d))
    /\ \A a \in DOMAIN traversals : ~Mine(traversals[a])
    /\ client.guid = 1 =>
         DOMAIN traversals = {} /\ DOMAIN nats.server.map = {Key(types.server, Master)}
    /\ client.guid # 1 /\ Registered =>
         Predicted \notin DOMAIN traversals /\ ~Reached(Predicted)

(* Its session of this attempt. *)
Serving(session) ==
  /\ session.visible = Visible
  /\ \/ session.stun = "launched" /\ ~session.holes_opened /\ ~Reached(Predicted)
     \/ session.stun \in {"sent", "completed"} /\ Answered(session.asked)

(* The question, its answer, or what it waits for is under way. *)
Asking ==
  client.state = "REQUESTING_REMOTE_PORT_INFO" /\ ~client.due =>
    /\ Registered /\ LetsIn(nats.client, Visible, Master)
    /\ client.guid = 1 => DOMAIN traversals \subseteq {Predicted}
    /\ \A a \in DOMAIN traversals :
         Mine(traversals[a]) => a = Predicted /\ Serving(traversals[a])
    /\ \A d \in net : d.what = "result" /\ Mine(d) => d.to = Visible /\ Answered(d.port)
    /\ \/ /\ \E d \in net : d.what = "step"
          /\ Predicted \notin DOMAIN traversals /\ ~Reached(Predicted)
       \/ /\ Predicted \in DOMAIN traversals /\ Mine(traversals[Predicted])
          /\ \/ traversals[Predicted].stun = "launched"
             \/ /\ traversals[Predicted].stun = "sent"
                /\ [what |-> "server_stun", address |-> Predicted,
                    port |-> traversals[Predicted].asked] \in net
             \/ \E d \in net : d.what = "result" /\ Mine(d)

(* The port that was told is the one the server has sent from. *)
Told ==
  client.state \in {"SERVER_STUN_REQUIREMENT_MET", "TRAVERSING"} /\ Symmetric(types.server) =>
    Registered /\ Answered(client.server_port)

Success == [what |-> "success", guid |-> client.guid, to |-> Predicted, from |-> Answering]

(* The client is about to ask for a ping, or lets a unit of time pass      *)
(* before it does, or is open for the ping that is under way.              *)
Traversing ==
  client.state = "TRAVERSING" =>
    \/ /\ client.due /\ ReadyAt(client.stunned)
       /\ client.elapsed = IF Conic(types.server) THEN 0 ELSE 1
    \/ ~client.due /\ ReadyAt(client.stunned) /\ client.elapsed = 0 /\ Symmetric(types.server)
    \/ /\ ~client.due /\ Registered /\ LetsIn(nats.client, Predicted, AtServer(Answering))
       /\ Success \in net \/ \E d \in net : d.what = "step" /\ d.type = "PINGBACK"

OnTrack ==
  Undisturbed => Opening /\ Telling /\ Unasked /\ Asking /\ Told /\ Traversing

(* A port is mapped for each new key, and it is the next one. *)
LEMMA LeavesAs ==
  ASSUME NEW t \in Types, NEW nat \in NatOf(t), NEW to \in Address
  PROVE  /\ Ages(nat, Through(t, nat, to))
         /\ DOMAIN Through(t, nat, to).map = DOMAIN nat.map \cup {Key(t, to)}
         /\ Key(t, to) \in DOMAIN nat.map => Through(t, nat, to).next = nat.next
         /\ Key(t, to) \notin DOMAIN nat.map => PortTo(t, Through(t, nat, to), to) = nat.next
<1>. DEFINE k      == Key(t, to)
            map    == IF k \in DOMAIN nat.map THEN nat.map ELSE With(nat.map, k, nat.next)
            next   == IF k \in DOMAIN nat.map THEN nat.next ELSE nat.next + 1
            holes  == nat.holes \cup {<<map[k], to>>}
            mapped == IF k \in DOMAIN nat.map THEN nat
                      ELSE [nat EXCEPT !.map = With(@, k, nat.next), !.next = @ + 1]
<1>0. /\ k \in Keys
      /\ nat = [next |-> nat.next, map |-> nat.map, holes |-> nat.holes]
      /\ nat.next \in Nat
      /\ DOMAIN nat.map \subseteq Keys /\ nat.map \in [DOMAIN nat.map -> Nat]
  BY KeyIsKey DEF NatOf, NatState
<1>1. mapped = [next |-> next, map |-> map, holes |-> nat.holes]
  BY <1>0
<1>2. Through(t, nat, to) = [mapped EXCEPT !.holes = @ \cup {<<mapped.map[k], to>>}]
  BY DEF Through
<1>3. Through(t, nat, to) = [next |-> next, map |-> map, holes |-> holes]
  <2>. HIDE DEF mapped, map, next
  <2>. QED  BY <1>1, <1>2
<1>4. /\ nat.next <= next
      /\ DOMAIN map = DOMAIN nat.map \cup {k}
      /\ \A l \in DOMAIN nat.map : map[l] = nat.map[l]
      /\ k \in DOMAIN nat.map => next = nat.next
      /\ k \notin DOMAIN nat.map => map[k] = nat.next /\ next = nat.next + 1
  BY <1>0 DEF With
<1>. HIDE DEF map, next
<1>5. Young(nat) => Young([next |-> next, map |-> map, holes |-> holes])
  BY <1>0, <1>4 DEF Young
<1>. DEFINE later == Through(t, nat, to)
<1>6. later.map = map /\ later.next = next /\ Grows(nat, later)
  <2>1. Grows(nat, later)
    BY Leaves
  <2>. HIDE DEF map, next, holes
  <2>. QED  BY <1>3, <2>1
<1>7. Ages(nat, later)
  BY <1>3, <1>4, <1>5, <1>6 DEF Ages
<1>8. k \notin DOMAIN nat.map => PortTo(t, later, to) = nat.next
  BY <1>4, <1>6 DEF PortTo
<1>. HIDE DEF later, k
<1>. QED  BY <1>4, <1>6, <1>7, <1>8 DEF later, k

(* As it is kept in one step, it is kept in two. *)
LEMMA AgesOn ==
  ASSUME NEW t, NEW nat \in NatOf(t), NEW later \in NatOf(t), NEW latest \in NatOf(t),
         Ages(nat, later), Ages(later, latest)
  PROVE  Ages(nat, latest)
<1>1. nat.next \in Nat /\ later.next \in Nat /\ latest.next \in Nat
  BY DEF NatOf, NatState
<1>. QED  BY <1>1, GrowsOn DEF Ages, Grows

(* A request to a STUN server maps nothing that is kept. *)
LEMMA StunAges ==
  ASSUME NEW t, NEW nat \in NatOf(t)
  PROVE  /\ Ages(nat, Stunned(nat))
         /\ Stunned(nat).map = nat.map /\ Stunned(nat).next = nat.next + 1
         /\ Stunned(nat).holes = nat.holes
<1>1. /\ nat.next \in Nat /\ nat.map \in UNION {[D -> Nat] : D \in SUBSET Keys}
      /\ Stunned(nat) = [next |-> nat.next + 1, map |-> nat.map, holes |-> nat.holes]
  BY DEF NatOf, NatState, Stunned
<1>. QED  BY <1>1 DEF Ages, Grows, Young

(* A hole is the hole of the port that is mapped for where it leads to. *)
LEMMA HoleIsMapped ==
  ASSUME NEW t, NEW nat \in NatOf(t), NEW port, NEW to, LetsIn(nat, port, to)
  PROVE  Key(t, to) \in DOMAIN nat.map /\ PortTo(t, nat, to) = port
BY DEF NatOf, NatState, Faithful, LetsIn, PortTo

(* The targets of the client's pings, of which the first is what counts. *)
LEMMA ClientAims ==
  ASSUME IInv, NEW nat \in NatOf(types.client)
  PROVE  /\ Answering \in Nat
         /\ Ages(OpenHole(nat, Answering), OpenHolesForServer(nat))
         /\ OpenHolesForServer(nat) \in NatOf(types.client)
<1>. DEFINE n       == IF BothSYMPS THEN 1 ELSE Brute + 1
            targets == IF client.server_port = 0 THEN <<Traversed>>
                       ELSE [i \in 1 .. n |-> client.server_port + 1 + i - 1]
            first   == OpenHole(nat, Answering)
            T       == {later \in NatOf(types.client) : Ages(first, later)}
<1>0. n \in Nat \ {0} /\ client.server_port \in Nat /\ types.client \in Types
  BY NatAssumption DEF IInv, TypeOK, Client
<1>1. targets \in Seq(Nat) /\ targets # <<>> /\ Head(targets) = Answering /\ Answering \in Nat
  <2>1. CASE client.server_port = 0
    BY <2>1, ServerIsKnown DEF Answering
  <2>2. CASE client.server_port # 0
    <3>1. targets = [i \in 1 .. n |-> client.server_port + 1 + i - 1]
      BY <2>2
    <3>2. Answering = client.server_port + 1
      BY <2>2 DEF Answering
    <3>. HIDE DEF n, targets
    <3>. QED  BY <1>0, <3>1, <3>2
  <2>. QED  BY <2>1, <2>2
<1>2. OpenHolesForServer(nat) = FoldLeft(OpenHole, nat, targets)
  BY DEF OpenHolesForServer
<1>3. FoldLeft(OpenHole, nat, targets) = Holes!Fold(nat, targets)
  BY DEF Holes!Fold, Holes!FoldLeft, Holes!MapThenFoldSet, Holes!Max, FoldLeft, MapThenFoldSet, Max
<1>. HIDE DEF targets
<1>4. Holes!Fold(nat, targets) = Holes!Fold(first, Tail(targets)) /\ Tail(targets) \in Seq(Nat)
  BY <1>1, Holes!FoldTail
<1>5. first \in T
  <2>1. first \in NatOf(types.client)
    BY <1>0, <1>1, Leaves, Places DEF OpenHole
  <2>2. first.next \in Nat
    BY <2>1 DEF NatOf, NatState
  <2>. QED  BY <2>1, <2>2 DEF Ages, Grows
<1>6. ASSUME NEW later \in T, NEW port \in Nat PROVE OpenHole(later, port) \in T
  <2>1. /\ later \in NatOf(types.client) /\ Ages(first, later)
        /\ first \in NatOf(types.client) /\ AtServer(port) \in Address
    BY <1>5, Places
  <2>. HIDE DEF first
  <2>2. /\ OpenHole(later, port) \in NatOf(types.client)
        /\ Ages(later, OpenHole(later, port))
    BY <1>0, <2>1, Leaves, LeavesAs DEF OpenHole
  <2>3. Ages(first, OpenHole(later, port))
    BY <2>1, <2>2, AgesOn
  <2>. QED  BY <2>2, <2>3
<1>7. Holes!Fold(first, Tail(targets)) \in T
  <2>. HIDE DEF T, first
  <2>. QED  BY <1>4, <1>5, <1>6, Holes!FoldClosed
<1>8. OpenHolesForServer(nat) \in T
  <2>. HIDE DEF T, first
  <2>. QED  BY <1>2, <1>3, <1>4, <1>7
<1>9. OpenHolesForServer(nat) \in NatOf(types.client) /\ Ages(first, OpenHolesForServer(nat))
  <2>. HIDE DEF first
  <2>. QED  BY <1>8
<1>. QED  BY <1>1, <1>9

(* The pings of the server, of which the first is what counts. *)
Successes(guid) == [what : {"success"}, guid : {guid}, to : Nat, from : Nat]

Aims(session, nat, sent, address, k, r) ==
  /\ r.session = [session EXCEPT !.holes_opened = TRUE]
  /\ r.nat \in NatOf(types.server) /\ Ages(nat, r.nat)
  /\ k \in DOMAIN r.nat.map
  /\ k \notin DOMAIN nat.map => r.nat.map[k] = nat.next
  /\ sent \subseteq r.sent /\ r.sent \subseteq sent \cup Successes(session.guid)
  /\ [what |-> "success", guid |-> session.guid, to |-> address, from |-> r.nat.map[k]] \in r.sent
  /\ ~session.multiple => DOMAIN r.nat.map = DOMAIN nat.map \cup {k}

(* The first of them goes to the address of the session. *)
LEMMA ServerAims ==
  ASSUME types.server \in Types, NEW session \in Session, NEW nat \in NatOf(types.server),
         NEW sent, NEW address \in Nat
  PROVE  Aims(session, nat, sent, address, Key(types.server, AtClient(address)),
              OpenHoles([session |-> session, nat |-> nat, sent |-> sent], address))
<1>. DEFINE k     == Key(types.server, AtClient(address))
            r     == OpenHoles([session |-> session, nat |-> nat, sent |-> sent], address)
            s     == [session EXCEPT !.holes_opened = TRUE]
            count == IF session.multiple /\ ~session.holes_opened THEN Brute + 1 ELSE 1
            ports == [i \in 1 .. count |-> address + i - 1]
            Of(n, packets) == [session |-> s, nat |-> n, sent |-> packets]
            out   == Through(types.server, nat, AtClient(address))
            ping  == [what |-> "success", guid |-> session.guid, to |-> address,
                      from |-> PortTo(types.server, out, AtClient(address))]
            P     == {packets \in SUBSET (sent \cup Successes(session.guid)) :
                        sent \cup {ping} \subseteq packets}
            N     == {n \in NatOf(types.server) : Ages(out, n)}
            T     == {Of(n, packets) : n \in N, packets \in P}
<1>1. r = FoldLeft(Ping, Of(nat, sent), ports)
  <2>. DEFINE ch == [session |-> session, nat |-> nat, sent |-> sent]
  <2>1. ch.session = session
    OBVIOUS
  <2>2. [ch EXCEPT !.session.holes_opened = TRUE] = [ch EXCEPT !.session = s]
    BY <2>1
  <2>3. [ch EXCEPT !.session = s] = Of(nat, sent)
    <3>. HIDE DEF s
    <3>. QED  OBVIOUS
  <2>4. r = FoldLeft(Ping, [ch EXCEPT !.session.holes_opened = TRUE], ports)
    BY <2>1 DEF OpenHoles
  <2>. HIDE DEF ch, s, ports
  <2>. QED  BY <2>2, <2>3, <2>4
<1>. HIDE DEF r
<1>2. FoldLeft(Ping, Of(nat, sent), ports) = Pings!Fold(Of(nat, sent), ports)
  BY DEF Pings!Fold, Pings!FoldLeft, Pings!MapThenFoldSet, Pings!Max, FoldLeft, MapThenFoldSet, Max
<1>3. count \in Nat \ {0} /\ ports \in Seq(Nat) /\ ports # <<>> /\ Head(ports) = address
  <2>1. count \in Nat \ {0}
    BY NatAssumption
  <2>. HIDE DEF count
  <2>. QED  BY <2>1
<1>4. s.guid = session.guid /\ s = [s EXCEPT !.guid = session.guid]
  BY DEF Session
<1>. HIDE DEF s
<1>5. ASSUME NEW n \in NatOf(types.server), NEW packets, NEW port \in Nat
      PROVE  Ping(Of(n, packets), port) =
               LET later == Through(types.server, n, AtClient(port))
               IN  Of(later, packets \cup {[what |-> "success", guid |-> session.guid, to |-> port,
                                            from |-> PortTo(types.server, later, AtClient(port))]})
  <2>. DEFINE later == Through(types.server, n, AtClient(port))
              more  == [what |-> "success", guid |-> session.guid, to |-> port,
                        from |-> PortTo(types.server, later, AtClient(port))]
              c     == Of(n, packets)
  <2>1. c.session.guid = session.guid /\ c.nat = n /\ c.sent = packets
    BY <1>4
  <2>2. Ping(c, port) = [c EXCEPT !.nat = later, !.sent = @ \cup {more}]
    <3>. HIDE DEF c
    <3>. QED  BY <2>1 DEF Ping
  <2>. HIDE DEF later, more
  <2>3. [c EXCEPT !.nat = later, !.sent = @ \cup {more}] = Of(later, packets \cup {more})
    <3>1. [c EXCEPT !.nat = later] = Of(later, packets)
      OBVIOUS
    <3>. DEFINE moved == Of(later, packets)
    <3>2. [moved EXCEPT !.sent = @ \cup {more}] = Of(later, packets \cup {more})
      OBVIOUS
    <3>. HIDE DEF c
    <3>. QED  BY <3>1, <3>2
  <2>. QED  BY <2>2, <2>3 DEF later, more
<1>6. out \in N /\ Ages(nat, out) /\ k \in DOMAIN out.map /\ out.map[k] \in Nat
  <2>1. /\ out \in NatOf(types.server) /\ k \in DOMAIN out.map /\ out.map[k] \in Nat
        /\ Ages(nat, out)
    BY Leaves, LeavesAs, Places DEF PortTo
  <2>2. out.next \in Nat
    BY <2>1 DEF NatOf, NatState
  <2>. HIDE DEF out
  <2>. QED  BY <2>1, <2>2 DEF Ages, Grows
<1>7. /\ PortTo(types.server, out, AtClient(address)) = out.map[k]
      /\ k \notin DOMAIN nat.map => out.map[k] = nat.next
      /\ DOMAIN out.map = DOMAIN nat.map \cup {k}
  BY LeavesAs, Places DEF PortTo
<1>8. Ping(Of(nat, sent), address) = Of(out, sent \cup {ping}) /\ Of(out, sent \cup {ping}) \in T
  <2>1. Ping(Of(nat, sent), address) = Of(out, sent \cup {ping})
    BY <1>5
  <2>2. ping \in Successes(session.guid)
    BY <1>6, <1>7 DEF Successes
  <2>. HIDE DEF ping, out
  <2>. QED  BY <1>6, <2>1, <2>2
<1>9. ASSUME NEW c \in T, NEW port \in Nat PROVE Ping(c, port) \in T
  <2>1. PICK n \in N, packets \in P : c = Of(n, packets)
    OBVIOUS
  <2>. DEFINE later == Through(types.server, n, AtClient(port))
              more  == [what |-> "success", guid |-> session.guid, to |-> port,
                        from |-> PortTo(types.server, later, AtClient(port))]
  <2>2. Ping(c, port) = Of(later, packets \cup {more})
    BY <1>5, <2>1
  <2>3. /\ later \in NatOf(types.server) /\ Ages(n, later)
        /\ PortTo(types.server, later, AtClient(port)) \in Nat
    <3>1. AtClient(port) \in Address /\ n \in NatOf(types.server)
      BY Places
    <3>. QED  BY <3>1, Leaves, LeavesAs
  <2>4. more \in Successes(session.guid)
    BY <2>3 DEF Successes
  <2>. HIDE DEF later, more, out, ping
  <2>5. later \in N
    BY <1>6, <2>3, AgesOn
  <2>6. packets \cup {more} \in P
    BY <2>4
  <2>. QED  BY <2>2, <2>5, <2>6
<1>10. Pings!Fold(Of(nat, sent), ports) = Pings!Fold(Of(out, sent \cup {ping}), Tail(ports))
       /\ Tail(ports) \in Seq(Nat)
  <2>. HIDE DEF ports, out, ping, Of
  <2>. QED  BY <1>3, <1>8, Pings!FoldTail
<1>11. r \in T
  <2>. DEFINE base == Of(out, sent \cup {ping})
  <2>. HIDE DEF T, Of, out, ping, ports
  <2>1. base \in T /\ Tail(ports) \in Seq(Nat)
    BY <1>8, <1>10
  <2>2. r = Pings!Fold(base, Tail(ports))
    BY <1>1, <1>2, <1>10
  <2>. HIDE DEF base
  <2>3. \A c \in T, port \in Nat : Ping(c, port) \in T
    BY <1>9
  <2>4. Pings!Fold(base, Tail(ports)) \in T
    BY <2>1, <2>3, Pings!FoldClosed
  <2>. QED  BY <2>2, <2>4
<1>12. PICK n \in N, packets \in P : r = Of(n, packets)
  <2>. HIDE DEF N, P, Of
  <2>. QED  BY <1>11
<1>13. Ages(nat, n) /\ n \in NatOf(types.server) /\ Ages(out, n)
  <2>. HIDE DEF out
  <2>. QED  BY <1>6, <1>12, AgesOn
<1>14. k \in DOMAIN n.map /\ n.map[k] = out.map[k]
  <2>. HIDE DEF out
  <2>. QED  BY <1>6, <1>13 DEF Ages, Grows
<1>15. ~session.multiple => DOMAIN n.map = DOMAIN nat.map \cup {k}
  <2>. SUFFICES ASSUME ~session.multiple PROVE DOMAIN n.map = DOMAIN nat.map \cup {k}
    OBVIOUS
  <2>1. ports = <<address>>
    OBVIOUS
  <2>2. r = Of(out, sent \cup {ping})
    <3>. HIDE DEF ports, Of, out, ping
    <3>. QED  BY <1>1, <1>2, <1>8, <2>1, Pings!FoldSingle
  <2>3. n = out
    <3>. HIDE DEF out, ping
    <3>. QED  BY <1>12, <2>2
  <2>. QED  BY <1>7, <2>3
<1>. HIDE DEF out, ping
<1>16. ping = [what |-> "success", guid |-> session.guid, to |-> address, from |-> n.map[k]]
  BY <1>7, <1>14 DEF ping
<1>17. /\ r.session = s /\ r.nat = n /\ r.sent = packets
       /\ ping \in packets /\ sent \subseteq packets /\ packets \subseteq sent \cup Successes(session.guid)
  BY <1>12
<1>. HIDE DEF k
<1>18. Aims(session, nat, sent, address, k, r)
  BY <1>7, <1>13, <1>14, <1>15, <1>16, <1>17 DEF Aims, s
<1>. QED  BY <1>18 DEF r, k

(* What a STUN request of the server, with the pings behind it, comes to. *)
AsksFrom(address, k, session, request) ==
  /\ session.stun = "launched" /\ UNCHANGED <<types, client>>
  /\ nats'.client = nats.client /\ nats'.server \in NatOf(types.server)
  /\ Ages(nats.server, nats'.server)
  /\ DOMAIN traversals' = DOMAIN traversals
  /\ \A a \in DOMAIN traversals : a # address => traversals'[a] = traversals[a]
  /\ traversals'[address] \in Session /\ traversals'[address].guid = session.guid
  /\ traversals'[address].visible = session.visible
  /\ traversals'[address].multiple = session.multiple
  /\ traversals'[address].stun = "sent"
  /\ traversals'[address].asked = nats.server.next
  /\ net \subseteq net' /\ request \in net'
  /\ net' \subseteq net \cup {request} \cup Successes(session.guid)
  /\ ~session.holes_opened /\ k \notin DOMAIN nats.server.map =>
       k \in DOMAIN nats'.server.map /\ nats'.server.map[k] = nats.server.next + 1
  /\ ~session.multiple => DOMAIN nats'.server.map \subseteq DOMAIN nats.server.map \cup {k}

(* It takes the next port of the server's NAT, and the first ping the one behind it. *)
LEMMA AnswersAs ==
  ASSUME IInv, NEW address \in DOMAIN traversals, Answer(address)
  PROVE  AsksFrom(address, Key(types.server, AtClient(address)), traversals[address],
                  [what |-> "server_stun", address |-> address, port |-> nats.server.next])
<1>. DEFINE k       == Key(types.server, AtClient(address))
            session == traversals[address]
            request == [what |-> "server_stun", address |-> address, port |-> nats.server.next]
<1>0. /\ types.server \in Types /\ nats.server \in NatOf(types.server) /\ nats.server.next \in Nat
      /\ address \in Nat /\ session \in Session
      /\ nats = [client |-> nats.client, server |-> nats.server]
  <2>1. nats.server \in NatOf(types.server) /\ nats = [client |-> nats.client, server |-> nats.server]
    BY DEF IInv, TypeOK
  <2>2. nats.server.next \in Nat
    BY <2>1 DEF NatOf, NatState
  <2>3. types.server \in Types /\ address \in Nat /\ session \in Session
    BY DEF IInv, TypeOK
  <2>. QED  BY <2>1, <2>2, <2>3
<1>. DEFINE next == [session EXCEPT !.stun = "sent", !.asked = nats.server.next]
            nat  == Stunned(nats.server)
            ch   == [session |-> next, nat |-> nat, sent |-> {request}]
            r    == IF session.holes_opened THEN ch ELSE OpenHoles(ch, address)
<1>1. /\ next \in Session /\ next.guid = session.guid /\ next.visible = session.visible
      /\ next.multiple = session.multiple /\ next.stun = "sent"
      /\ next.asked = nats.server.next /\ next.holes_opened = session.holes_opened
  <2>1. next = [[session EXCEPT !.stun = "sent"] EXCEPT !.asked = nats.server.next]
    OBVIOUS
  <2>. QED  BY <1>0 DEF Session
<1>2. Becomes(address, r, net) /\ session.stun = "launched" /\ UNCHANGED <<types, client>>
  BY DEF Answer, SendServerStun
<1>. HIDE DEF next
<1>3. /\ nat \in NatOf(types.server) /\ Ages(nats.server, nat)
      /\ nat.map = nats.server.map /\ nat.next = nats.server.next + 1
  BY <1>0, StunGrows, StunAges
<1>. HIDE DEF nat
<1>4. /\ r.nat \in NatOf(types.server) /\ Ages(nats.server, r.nat)
      /\ r.session \in Session /\ r.session.guid = session.guid
      /\ r.session.visible = session.visible /\ r.session.multiple = session.multiple
      /\ r.session.stun = "sent" /\ r.session.asked = nats.server.next
      /\ request \in r.sent /\ r.sent \subseteq {request} \cup Successes(session.guid)
      /\ ~session.holes_opened /\ k \notin DOMAIN nats.server.map =>
           k \in DOMAIN r.nat.map /\ r.nat.map[k] = nats.server.next + 1
      /\ ~session.multiple => DOMAIN r.nat.map \subseteq DOMAIN nats.server.map \cup {k}
  <2>1. CASE session.holes_opened
    <3>1. r.nat = nat /\ r.session = next /\ r.sent = {request}
      BY <2>1
    <3>. HIDE DEF r
    <3>. QED  BY <1>1, <1>3, <2>1, <3>1
  <2>2. CASE ~session.holes_opened
    <3>1. r = OpenHoles(ch, address)
      BY <2>2
    <3>. HIDE DEF r
    <3>2. /\ r.session = [next EXCEPT !.holes_opened = TRUE]
          /\ r.nat \in NatOf(types.server) /\ Ages(nat, r.nat)
          /\ k \in DOMAIN r.nat.map
          /\ k \notin DOMAIN nat.map => r.nat.map[k] = nat.next
          /\ {request} \subseteq r.sent /\ r.sent \subseteq {request} \cup Successes(next.guid)
          /\ ~next.multiple => DOMAIN r.nat.map = DOMAIN nat.map \cup {k}
      <4>1. r = OpenHoles([session |-> next, nat |-> nat, sent |-> {request}], address)
        BY <3>1
      <4>2. /\ types.server \in Types /\ next \in Session /\ nat \in NatOf(types.server)
            /\ address \in Nat
        BY <1>0, <1>1, <1>3
      <4>3. Aims(next, nat, {request}, address, k, r)
        BY <4>1, <4>2, ServerAims
      <4>. QED  BY <4>3 DEF Aims
    <3>3. Ages(nats.server, r.nat)
      BY <1>0, <1>3, <3>2, AgesOn
    <3>4. /\ r.session \in Session /\ r.session.guid = session.guid
          /\ r.session.visible = session.visible /\ r.session.multiple = session.multiple
          /\ r.session.stun = "sent" /\ r.session.asked = nats.server.next
      BY <1>1, <3>2 DEF Session
    <3>. QED  BY <1>1, <1>3, <3>2, <3>3, <3>4
  <2>. QED  BY <2>1, <2>2
<1>. HIDE DEF r
<1>5. /\ traversals' = With(traversals, address, r.session)
      /\ nats'.client = nats.client /\ nats'.server = r.nat
      /\ net' = net \cup r.sent
  BY <1>0, <1>2 DEF Becomes
<1>6. /\ DOMAIN traversals' = DOMAIN traversals /\ traversals'[address] = r.session
      /\ \A a \in DOMAIN traversals : a # address => traversals'[a] = traversals[a]
  BY <1>5 DEF With
<1>7. net \subseteq net' /\ request \in net'
      /\ net' \subseteq net \cup {request} \cup Successes(session.guid)
  BY <1>4, <1>5
<1>. HIDE DEF k, session, request
<1>8. AsksFrom(address, k, session, request)
  BY <1>2, <1>4, <1>5, <1>6, <1>7 DEF AsksFrom
<1>. QED  BY <1>8 DEF k, session, request

(* What a step comes to that is not of an attempt the server has forgotten. *)
StepsOn(d, rest, known, k, s) ==
  /\ known \in Session /\ s \in Session
  /\ nats'.client = nats.client /\ nats'.server \in NatOf(types.server)
  /\ Ages(nats.server, nats'.server)
  /\ DOMAIN traversals' = DOMAIN traversals \cup {d.predicted}
  /\ \A a \in DOMAIN traversals : a # d.predicted => traversals'[a] = traversals[a]
  /\ s.guid = known.guid /\ s.asked = known.asked
  /\ s.visible = d.visible /\ s.multiple = d.multiple
  /\ rest \subseteq net'
  /\ d.type = "RESTUN" =>
       /\ nats'.server = nats.server /\ s.holes_opened = known.holes_opened
       /\ known.stun = "none" => s.stun = "launched" /\ net' = rest
       /\ known.stun = "completed" => s.stun = "completed" /\ net' = rest \cup {Result(s)}
       /\ known.stun \in {"launched", "sent"} => s.stun = known.stun /\ net' = rest
  /\ d.type = "PINGBACK" =>
       /\ k \in DOMAIN nats'.server.map
       /\ [what |-> "success", guid |-> known.guid, to |-> d.predicted,
           from |-> nats'.server.map[k]] \in net'
       /\ net' \subseteq rest \cup Successes(known.guid)
       /\ ~d.multiple => DOMAIN nats'.server.map \subseteq DOMAIN nats.server.map \cup {k}

(* It launches a request, repeats a result, or opens holes. *)
LEMMA StepsAs ==
  ASSUME IInv, NEW d \in net, d.what = "step", NEW rest, rest \subseteq net,
         HandleStep(d, rest), UNCHANGED <<types, client>>,
         Entry(d.predicted, d.guid).guid <= d.guid
  PROVE  StepsOn(d, rest, Entry(d.predicted, d.guid), Key(types.server, AtClient(d.predicted)),
                 traversals'[d.predicted])
<1>. DEFINE known == Entry(d.predicted, d.guid)
            k     == Key(types.server, AtClient(d.predicted))
            s     == traversals'[d.predicted]
<1>0. /\ types.server \in Types /\ nats.server \in NatOf(types.server) /\ nats.server.next \in Nat
      /\ nats = [client |-> nats.client, server |-> nats.server]
      /\ d.predicted \in Nat /\ d.guid \in Nat /\ d.visible \in Nat /\ d.multiple \in BOOLEAN
      /\ d.type \in {"RESTUN", "PINGBACK"}
      /\ Ages(nats.server, nats.server)
  <2>1. d \in Packet
    BY DEF IInv, TypeOK
  <2>2. /\ types.server \in Types /\ nats.server \in NatOf(types.server)
        /\ nats = [client |-> nats.client, server |-> nats.server]
    BY DEF IInv, TypeOK
  <2>3. nats.server.next \in Nat
    BY <2>2 DEF NatOf, NatState
  <2>4. Ages(nats.server, nats.server)
    BY <2>3 DEF Ages, Grows
  <2>5. /\ d.predicted \in Nat /\ d.guid \in Nat /\ d.visible \in Nat /\ d.multiple \in BOOLEAN
        /\ d.type \in {"RESTUN", "PINGBACK"}
    BY <2>1 DEF Packet
  <2>. QED  BY <2>2, <2>3, <2>4, <2>5
<1>1. known \in Session
  BY <1>0 DEF Entry, Fresh, Session, IInv, TypeOK
<1>. DEFINE session == [known EXCEPT !.visible = d.visible, !.multiple = d.multiple]
            ch      == [session |-> session, nat |-> nats.server, sent |-> {}]
            r == IF d.type = "PINGBACK" THEN OpenHoles(ch, d.predicted) ELSE
                 CASE session.stun = "none" -> [ch EXCEPT !.session.stun = "launched"]
                   [] session.stun = "completed" -> [ch EXCEPT !.sent = {Result(session)}]
                   [] OTHER -> ch
<1>2. /\ session \in Session /\ session.guid = known.guid /\ session.asked = known.asked
      /\ session.visible = d.visible /\ session.multiple = d.multiple
      /\ session.stun = known.stun /\ session.holes_opened = known.holes_opened
      /\ known.stun \in {"none", "launched", "sent", "completed"}
  <2>1. session = [[known EXCEPT !.visible = d.visible] EXCEPT !.multiple = d.multiple]
    OBVIOUS
  <2>. QED  BY <1>0, <1>1 DEF Session
<1>3. Becomes(d.predicted, r, rest)
  <2>1. ~(known.guid > d.guid)
    BY <1>0, <1>1 DEF Session
  <2>. QED  BY <2>1 DEF HandleStep
<1>4. ASSUME r.session \in Session
      PROVE  /\ DOMAIN traversals' = DOMAIN traversals \cup {d.predicted} /\ s = r.session
             /\ \A a \in DOMAIN traversals : a # d.predicted => traversals'[a] = traversals[a]
             /\ nats'.client = nats.client /\ nats'.server = r.nat
             /\ net' = rest \cup r.sent
  <2>. HIDE DEF r
  <2>1. /\ traversals' = With(traversals, d.predicted, r.session)
        /\ nats'.client = nats.client /\ nats'.server = r.nat
        /\ net' = rest \cup r.sent
    BY <1>0, <1>3 DEF Becomes
  <2>. QED  BY <2>1 DEF With
<1>. HIDE DEF session
<1>5. ASSUME d.type = "PINGBACK" PROVE StepsOn(d, rest, known, k, s)
  <2>1. r = OpenHoles(ch, d.predicted)
    BY <1>5
  <2>. HIDE DEF r
  <2>2. /\ r.session = [session EXCEPT !.holes_opened = TRUE]
        /\ r.nat \in NatOf(types.server) /\ Ages(nats.server, r.nat)
        /\ k \in DOMAIN r.nat.map
        /\ r.sent \subseteq {} \cup Successes(session.guid)
        /\ [what |-> "success", guid |-> session.guid, to |-> d.predicted,
            from |-> r.nat.map[k]] \in r.sent
        /\ ~session.multiple => DOMAIN r.nat.map = DOMAIN nats.server.map \cup {k}
    <3>1. r = OpenHoles([session |-> session, nat |-> nats.server, sent |-> {}], d.predicted)
      BY <2>1
    <3>2. /\ types.server \in Types /\ session \in Session /\ nats.server \in NatOf(types.server)
          /\ d.predicted \in Nat
      BY <1>0, <1>2
    <3>3. Aims(session, nats.server, {}, d.predicted, k, r)
      BY <3>1, <3>2, ServerAims
    <3>. QED  BY <3>3 DEF Aims
  <2>3. /\ r.session \in Session /\ r.session.guid = known.guid
        /\ r.session.visible = d.visible /\ r.session.multiple = d.multiple
        /\ r.session.asked = known.asked
    BY <1>2, <2>2 DEF Session
  <2>4. /\ DOMAIN traversals' = DOMAIN traversals \cup {d.predicted} /\ s = r.session
        /\ \A a \in DOMAIN traversals : a # d.predicted => traversals'[a] = traversals[a]
        /\ nats'.client = nats.client /\ nats'.server = r.nat
        /\ net' = rest \cup r.sent
    BY <1>4, <2>3
  <2>5. d.type # "RESTUN" /\ rest \subseteq net' /\ net' \subseteq rest \cup Successes(known.guid)
    BY <1>2, <1>5, <2>2, <2>4
  <2>6. /\ k \in DOMAIN nats'.server.map
        /\ [what |-> "success", guid |-> known.guid, to |-> d.predicted,
            from |-> nats'.server.map[k]] \in net'
        /\ ~d.multiple => DOMAIN nats'.server.map \subseteq DOMAIN nats.server.map \cup {k}
    BY <1>2, <2>2, <2>4
  <2>. HIDE DEF known, k, s
  <2>. QED  BY <1>1, <2>2, <2>3, <2>4, <2>5, <2>6 DEF StepsOn
<1>6. ASSUME d.type = "RESTUN" PROVE StepsOn(d, rest, known, k, s)
  <2>1. /\ r.session \in Session /\ r.session.guid = known.guid
        /\ r.session.visible = d.visible /\ r.session.multiple = d.multiple
        /\ r.session.asked = known.asked /\ r.session.holes_opened = known.holes_opened
        /\ r.nat = nats.server
        /\ known.stun = "none" => r.session.stun = "launched" /\ r.sent = {}
        /\ known.stun = "completed" => r.session.stun = "completed" /\ r.sent = {Result(r.session)}
        /\ known.stun \in {"launched", "sent"} => r.session.stun = known.stun /\ r.sent = {}
    <3>1. CASE known.stun = "none"
      <4>. DEFINE launched == [session EXCEPT !.stun = "launched"]
      <4>1. [ch EXCEPT !.session.stun = "launched"] = [ch EXCEPT !.session = launched]
        OBVIOUS
      <4>2. r = [ch EXCEPT !.session = launched]
        BY <1>2, <1>6, <3>1, <4>1
      <4>. HIDE DEF r
      <4>3. /\ launched \in Session /\ launched.guid = known.guid
            /\ launched.visible = d.visible /\ launched.multiple = d.multiple
            /\ launched.asked = known.asked /\ launched.holes_opened = known.holes_opened
            /\ launched.stun = "launched"
        BY <1>2 DEF Session
      <4>. HIDE DEF launched
      <4>4. r.session = launched /\ r.nat = nats.server /\ r.sent = {}
        BY <4>2
      <4>. QED  BY <3>1, <4>3, <4>4
    <3>2. CASE known.stun = "completed"
      <4>1. r = [ch EXCEPT !.sent = {Result(session)}]
        BY <1>2, <1>6, <3>2
      <4>. HIDE DEF r
      <4>2. r.session = session /\ r.nat = nats.server /\ r.sent = {Result(session)}
        BY <4>1
      <4>. QED  BY <1>2, <3>2, <4>2
    <3>3. CASE known.stun \in {"launched", "sent"}
      <4>1. r = ch
        BY <1>2, <1>6, <3>3
      <4>. HIDE DEF r
      <4>2. r.session = session /\ r.nat = nats.server /\ r.sent = {}
        BY <4>1
      <4>. QED  BY <1>2, <3>3, <4>2
    <3>. QED  BY <1>2, <3>1, <3>2, <3>3
  <2>. HIDE DEF r
  <2>2. /\ DOMAIN traversals' = DOMAIN traversals \cup {d.predicted} /\ s = r.session
        /\ \A a \in DOMAIN traversals : a # d.predicted => traversals'[a] = traversals[a]
        /\ nats'.client = nats.client /\ nats'.server = r.nat
        /\ net' = rest \cup r.sent
    BY <1>4, <2>1
  <2>3. d.type # "PINGBACK" /\ rest \subseteq net'
    BY <1>6, <2>2
  <2>. HIDE DEF known, k, s
  <2>. QED  BY <1>0, <1>1, <2>1, <2>2, <2>3 DEF StepsOn
<1>. QED
  <2>. HIDE DEF known, k, s
  <2>1. StepsOn(d, rest, known, k, s)
    BY <1>0, <1>5, <1>6
  <2>. QED  BY <2>1 DEF known, k, s

(* What a response of a STUN server comes to. *)
LEMMA StunnedAs ==
  ASSUME IInv, NEW d \in net, NEW rest, rest \subseteq net, HandleServerStun(d, rest)
  PROVE  /\ nats' = nats /\ DOMAIN traversals' = DOMAIN traversals /\ rest \subseteq net'
         /\ \A a \in DOMAIN traversals :
              \/ traversals'[a] = traversals[a]
              \/ /\ traversals[a].stun = "sent" /\ traversals[a].asked = d.port /\ a = d.address
                 /\ traversals'[a] = [traversals[a] EXCEPT !.stun = "completed"]
                 /\ Result(traversals'[a]) \in net'
         /\ \A a \in DOMAIN traversals :
              traversals[a].stun = "sent" /\ traversals[a].asked = d.port /\ a = d.address =>
                traversals'[a] = [traversals[a] EXCEPT !.stun = "completed"]
         /\ \A p \in net' : p \in rest \/ \E a \in DOMAIN traversals :
                                            /\ traversals'[a] # traversals[a]
                                            /\ p = Result(traversals'[a])
<1>1. /\ nats' = nats /\ DOMAIN traversals' = DOMAIN traversals
      /\ \A a \in DOMAIN traversals : traversals'[a] =
           IF a = d.address /\ traversals[a].stun = "sent" /\ traversals[a].asked = d.port
           THEN [traversals[a] EXCEPT !.stun = "completed"] ELSE traversals[a]
      /\ net' = rest \cup {Result(traversals'[a]) :
                             a \in {b \in DOMAIN traversals : traversals'[b] # traversals[b]}}
  BY DEF HandleServerStun
<1>2. \A a \in DOMAIN traversals :
        traversals[a].stun = "sent" => [traversals[a] EXCEPT !.stun = "completed"] # traversals[a]
  <2>1. \A a \in DOMAIN traversals : traversals[a] \in Session
    BY DEF IInv, TypeOK
  <2>2. \A s \in Session : s.stun = "sent" => [s EXCEPT !.stun = "completed"].stun # s.stun
    BY DEF Session
  <2>. QED  BY <2>1, <2>2
<1>. QED  BY <1>1, <1>2

-----------------------------------------------------------------------------
(* Neither sessions nor ports are ahead of the client. *)
Timed == IInv /\ Dated /\ Foreseen

(* The types of what is dated. *)
LEMMA Numbers ==
  ASSUME IInv
  PROVE  /\ client.guid \in Nat /\ nats.client.next \in Nat /\ nats.server.next \in Nat
         /\ \A a \in DOMAIN traversals : a \in Nat /\ traversals[a].guid \in Nat
         /\ \A d \in net : d.what = "step" => d.guid \in Nat /\ d.predicted \in Nat
<1>1. client.guid \in Nat /\ nats.client.next \in Nat /\ nats.server.next \in Nat
  BY DEF IInv, TypeOK, Client, NatOf, NatState
<1>2. \A a \in DOMAIN traversals : a \in Nat /\ traversals[a].guid \in Nat
  <2>1. \A a \in DOMAIN traversals : a \in Nat /\ traversals[a] \in Session
    BY DEF IInv, TypeOK
  <2>. QED  BY <2>1 DEF Session
<1>3. \A d \in net : d.what = "step" => d.guid \in Nat /\ d.predicted \in Nat
  BY DEF IInv, TypeOK, Packet
<1>. QED  BY <1>1, <1>2, <1>3

(* The client, its NAT, and what it sends. *)
LEMMA ClientIsTimed ==
  ASSUME Timed, UNCHANGED <<types, traversals>>, nats'.server = nats.server,
         NEW nat \in NatOf(types.client), nats'.client = nat, Young(nat),
         nats.client.next <= nat.next, client'.guid \in Nat, client.guid <= client'.guid,
         \A d \in net' : d.what = "step" =>
           \/ d \in net
           \/ d.guid <= client'.guid /\ (Exact => d.predicted < nat.next /\ ~d.multiple)
  PROVE  Dated' /\ Foreseen'
<1>1. nat.next \in Nat
  BY DEF NatOf, NatState
<1>2. Dated'
  BY <1>1, Numbers DEF Timed, Dated
<1>3. Foreseen'
  <2>1. \A a \in Nat : a < nats.client.next => a < nat.next
    BY <1>1, Numbers DEF Timed
  <2>2. Exact' = Exact
    BY DEF Exact
  <2>. QED  BY <2>1, <2>2, Numbers DEF Timed, Foreseen
<1>. QED  BY <1>2, <1>3

(* The server, its NAT, and what is under way. *)
LEMMA ServerIsTimed ==
  ASSUME Timed, types' = types, client'.guid = client.guid, nats'.client = nats.client,
         nats.server.next <= nats'.server.next, nats'.server.next \in Nat,
         \A a \in DOMAIN traversals' :
           /\ traversals'[a].guid <= client.guid
           /\ Exact => a < nats.client.next /\ ~traversals'[a].multiple,
         Exact => \A p \in Nat : AtClient(p) \in DOMAIN nats'.server.map =>
                                   p < nats.client.next,
         \A d \in net' : d.what = "step" => d \in net
  PROVE  Dated' /\ Foreseen'
<1>1. Dated'
  BY Numbers DEF Timed, Dated
<1>2. Foreseen'
  <2>1. Exact' = Exact
    BY DEF Exact
  <2>. QED  BY <2>1 DEF Timed, Foreseen
<1>. QED  BY <1>1, <1>2

(* All the pings of the client. *)
LEMMA OpensAged ==
  ASSUME IInv, NEW nat \in NatOf(types.client)
  PROVE  /\ Ages(nat, OpenHolesForServer(nat))
         /\ OpenHolesForServer(nat) \in NatOf(types.client)
<1>1. types.client \in Types
  BY DEF IInv, TypeOK
<1>2. /\ Ages(OpenHole(nat, Answering), OpenHolesForServer(nat)) /\ Answering \in Nat
      /\ OpenHolesForServer(nat) \in NatOf(types.client)
  BY ClientAims
<1>3. OpenHole(nat, Answering) \in NatOf(types.client) /\ Ages(nat, OpenHole(nat, Answering))
  BY <1>1, <1>2, Leaves, LeavesAs, Places DEF OpenHole
<1>. QED  BY <1>2, <1>3, AgesOn

(* A step names a port that is mapped already. *)
LEMMA RequestsAs ==
  ASSUME Timed, NEW nat \in NatOf(types.client), NEW type \in {"RESTUN", "PINGBACK"},
         Ages(nats.client, nat), Request(nat, type), UNCHANGED <<types, traversals>>,
         client' = [client EXCEPT !.due = FALSE],
         NEW sent, sent = Through(types.client, nat, Master)
  PROVE  /\ nats'.client = sent /\ nats'.server = nats.server /\ sent \in NatOf(types.client)
         /\ Ages(nat, sent) /\ Ages(nats.client, sent)
         /\ Registered' /\ LetsIn(sent, Visible', Master)
         /\ Visible' = sent.map[Key(types.client, Master)]
         /\ net' = net \cup {Step(sent, type)}
         /\ Step(sent, type).what = "step" /\ Step(sent, type).type = type
         /\ Step(sent, type).guid = client.guid /\ Step(sent, type).visible = Visible'
         /\ Step(sent, type).predicted = IF Conic(types.client) THEN Visible' ELSE client.stunned + 1
         /\ Conic(types.client) => ~Step(sent, type).multiple
         /\ Dated' /\ Foreseen'
<1>0. /\ types.client \in Types /\ nats.client \in NatOf(types.client)
      /\ nats = [nats EXCEPT !.client = nats.client]
      /\ client \in Client
  BY DEF Timed, IInv, TypeOK
<1>1. /\ sent \in NatOf(types.client) /\ Ages(nat, sent)
      /\ Key(types.client, Master) \in DOMAIN sent.map
      /\ LetsIn(sent, PortTo(types.client, sent, Master), Master)
  BY <1>0, Leaves, LeavesAs, Places
<1>2. Ages(nats.client, sent)
  BY <1>0, <1>1, AgesOn
<1>3. nats' = [nats EXCEPT !.client = sent] /\ net' = net \cup {Step(sent, type)}
  BY DEF Request
<1>4. nats'.client = sent /\ nats'.server = nats.server
  BY <1>3 DEF Timed, IInv, TypeOK
<1>5. Registered' /\ Visible' = PortTo(types.client, sent, Master)
  BY <1>1, <1>4 DEF Registered, Visible, PortTo
<1>6. Visible' = sent.map[Key(types.client, Master)]
  BY <1>5 DEF PortTo
<1>7. /\ Step(sent, type).what = "step" /\ Step(sent, type).type = type
      /\ Step(sent, type).guid = client.guid /\ Step(sent, type).visible = Visible'
      /\ Step(sent, type).predicted = IF Conic(types.client) THEN Visible' ELSE client.stunned + 1
      /\ Conic(types.client) => ~Step(sent, type).multiple
  BY <1>5 DEF Step, Symmetric
<1>8. Young(sent) /\ nats.client.next <= sent.next
  BY <1>2 DEF Timed, Dated, Ages
<1>9. client'.guid = client.guid /\ client.guid \in Nat
  BY <1>0 DEF Client
<1>10. Exact => Step(sent, type).predicted < sent.next
  BY <1>1, <1>6, <1>7, <1>8 DEF Exact, Conic, Young
<1>11. \A d \in net' : d.what = "step" =>
         \/ d \in net
         \/ d.guid <= client'.guid /\ (Exact => d.predicted < sent.next /\ ~d.multiple)
  BY <1>3, <1>7, <1>9, <1>10 DEF Exact, Conic
<1>12. Dated' /\ Foreseen'
  BY <1>1, <1>4, <1>8, <1>9, <1>11, ClientIsTimed
<1>. QED  BY <1>1, <1>2, <1>3, <1>4, <1>5, <1>6, <1>7, <1>12

(* advance() of the client. *)
LEMMA AdvanceIsTimed ==
  ASSUME Timed, Advance
  PROVE  Dated' /\ Foreseen'
<1>0. /\ nats.client \in NatOf(types.client) /\ UNCHANGED <<types, traversals>>
      /\ client \in Client /\ client.guid \in Nat
      /\ nats.client.next \in Nat /\ Ages(nats.client, nats.client)
  <2>1. nats.client \in NatOf(types.client) /\ UNCHANGED <<types, traversals>> /\ client \in Client
    BY DEF Timed, IInv, TypeOK, Advance
  <2>2. nats.client.next \in Nat /\ client.guid \in Nat
    BY <2>1 DEF NatOf, NatState, Client
  <2>. QED  BY <2>1, <2>2 DEF Ages, Grows
<1>1. CASE SendStunRequest
  <2>. DEFINE stunned == Stunned(nats.client)
              nat     == IF Conic(types.server) THEN OpenHolesForServer(stunned) ELSE stunned
  <2>1. nat \in NatOf(types.client) /\ Ages(nats.client, nat)
    BY <1>0, StunGrows, StunAges, OpensAged, AgesOn DEF Timed
  <2>2. /\ client' = [client EXCEPT !.stun = "sent", !.asked = nats.client.next, !.stun_age = 0]
        /\ nats' = [nats EXCEPT !.client = nat]
        /\ net' = net \cup {[what |-> "client_stun", port |-> nats.client.next]}
    BY <1>1 DEF SendStunRequest
  <2>. HIDE DEF nat
  <2>3. nats'.client = nat /\ nats'.server = nats.server /\ client'.guid = client.guid
    BY <1>0, <2>2 DEF Timed, IInv, TypeOK, Client
  <2>4. Young(nat) /\ nats.client.next <= nat.next
    BY <2>1 DEF Timed, Dated, Ages
  <2>5. \A d \in net' : d.what = "step" => d \in net
    <3>. DEFINE request == [what |-> "client_stun", port |-> nats.client.next]
    <3>1. request.what # "step" /\ net' = net \cup {request}
      BY <2>2
    <3>. HIDE DEF request
    <3>. QED  BY <3>1
  <2>. QED  BY <1>0, <2>1, <2>3, <2>4, <2>5, ClientIsTimed
<1>2. CASE Flow
  <2>1. client'.guid = client.guid /\ nats' = nats /\ net' = net
    BY <1>0, <1>2 DEF Flow, Restun, Client
  <2>. QED  BY <1>0, <2>1, ClientIsTimed DEF Timed, Dated
<1>3. CASE RequestRemotePortInfo
  BY <1>0, <1>3, RequestsAs DEF RequestRemotePortInfo
<1>4. CASE Traverse
  BY <1>0, <1>4, RequestsAs, OpensAged DEF Traverse, Timed
<1>. QED  BY <1>1, <1>2, <1>3, <1>4 DEF Advance, ClientAdvance

(* The key of one of the client's ports is that port's only. *)
LEMMA KeyOfPort ==
  ASSUME Exact, NEW port \in Nat, NEW p \in Nat, AtClient(p) = Key(types.server, AtClient(port))
  PROVE  p = port
BY DEF Exact, Key, AtClient

(* A STUN request of the server. *)
LEMMA AnswerIsTimed ==
  ASSUME Timed, NEW address \in DOMAIN traversals, Answer(address)
  PROVE  Dated' /\ Foreseen'
<1>. DEFINE k       == Key(types.server, AtClient(address))
            session == traversals[address]
            request == [what |-> "server_stun", address |-> address, port |-> nats.server.next]
<1>1. /\ UNCHANGED <<types, client>> /\ nats'.client = nats.client
      /\ nats'.server \in NatOf(types.server) /\ Ages(nats.server, nats'.server)
      /\ DOMAIN traversals' = DOMAIN traversals
      /\ \A a \in DOMAIN traversals : a # address => traversals'[a] = traversals[a]
      /\ traversals'[address].guid = session.guid
      /\ traversals'[address].multiple = session.multiple
      /\ net' \subseteq net \cup {request} \cup Successes(session.guid)
      /\ ~session.multiple => DOMAIN nats'.server.map \subseteq DOMAIN nats.server.map \cup {k}
  <2>1. AsksFrom(address, k, session, request)
    BY AnswersAs DEF Timed
  <2>. HIDE DEF k, session, request
  <2>. QED  BY <2>1 DEF AsksFrom
<1>2. nats'.server.next \in Nat /\ nats.server.next <= nats'.server.next
  BY <1>1 DEF NatOf, NatState, Ages
<1>3. \A d \in net' : d.what = "step" => d \in net
  <2>1. request.what # "step"
    OBVIOUS
  <2>. HIDE DEF request
  <2>. QED  BY <1>1, <2>1 DEF Successes
<1>. HIDE DEF k
<1>4. \A a \in DOMAIN traversals' :
        /\ traversals'[a].guid <= client.guid
        /\ Exact => a < nats.client.next /\ ~traversals'[a].multiple
  BY <1>1 DEF Timed, Dated, Foreseen
<1>5. ASSUME Exact, NEW p \in Nat, AtClient(p) \in DOMAIN nats'.server.map
      PROVE  p < nats.client.next
  <2>1. AtClient(p) \in DOMAIN nats.server.map \/ AtClient(p) = k
    BY <1>1, <1>5 DEF Timed, Foreseen
  <2>2. AtClient(p) = k => p = address
    BY <1>5, KeyOfPort, Numbers DEF k, Timed
  <2>. QED  BY <1>5, <2>1, <2>2 DEF Timed, Foreseen
<1>. QED  BY <1>1, <1>2, <1>3, <1>4, <1>5, ServerIsTimed

(* A step, a response of a STUN server, or any other packet. *)
LEMMA ReceiptIsTimed ==
  ASSUME Timed, NEW d \in net, NEW again \in BOOLEAN, Receive(d, again)
  PROVE  Dated' /\ Foreseen'
<1>. DEFINE rest == IF again THEN net ELSE net \ {d}
<1>0. /\ rest \subseteq net /\ types' = types /\ nats.server.next \in Nat
      /\ \A a \in DOMAIN traversals :
           /\ traversals[a].guid <= client.guid
           /\ Exact => a < nats.client.next /\ ~traversals[a].multiple
      /\ Exact => \A p \in Nat : AtClient(p) \in DOMAIN nats.server.map => p < nats.client.next
  BY Numbers DEF Receive, Timed, Dated, Foreseen
<1>1. CASE ClientHandles(d) /\ net' = rest
  <2>1. UNCHANGED <<traversals, nats>> /\ client' = ClientReceives(d)
    BY <1>1 DEF ClientHandles
  <2>2. client'.guid = client.guid
    BY <2>1 DEF ClientReceives, Timed, IInv, TypeOK, Client
  <2>. QED  BY <1>0, <1>1, <2>1, <2>2, ServerIsTimed
<1>2. CASE d.what = "step" /\ HandleStep(d, rest) /\ client' = client
  <2>. DEFINE known == Entry(d.predicted, d.guid)
              k     == Key(types.server, AtClient(d.predicted))
  <2>1. CASE known.guid > d.guid
    <3>1. net' = rest /\ UNCHANGED <<traversals, nats>>
      BY <1>2, <2>1 DEF HandleStep
    <3>. QED  BY <1>0, <1>2, <3>1, ServerIsTimed
  <2>2. CASE ~(known.guid > d.guid)
    <3>0. d.guid \in Nat /\ d.predicted \in Nat
      BY <1>2, Numbers DEF Timed
    <3>1. known.guid <= d.guid
      BY <2>2, <3>0, Numbers DEF Entry, Fresh, Timed
    <3>. HIDE DEF rest
    <3>. HIDE DEF known
    <3>2. /\ nats'.client = nats.client /\ nats'.server \in NatOf(types.server)
          /\ Ages(nats.server, nats'.server)
          /\ DOMAIN traversals' = DOMAIN traversals \cup {d.predicted}
          /\ \A a \in DOMAIN traversals : a # d.predicted => traversals'[a] = traversals[a]
          /\ traversals'[d.predicted].guid = known.guid /\ known \in Session
          /\ traversals'[d.predicted].multiple = d.multiple
          /\ \A p \in net' : p.what = "step" => p \in net
          /\ ~d.multiple => DOMAIN nats'.server.map \subseteq DOMAIN nats.server.map \cup {k}
      <4>. DEFINE s == traversals'[d.predicted]
      <4>1. /\ nats'.client = nats.client /\ nats'.server \in NatOf(types.server)
            /\ Ages(nats.server, nats'.server)
            /\ DOMAIN traversals' = DOMAIN traversals \cup {d.predicted}
            /\ \A a \in DOMAIN traversals : a # d.predicted => traversals'[a] = traversals[a]
            /\ s.guid = known.guid /\ s.multiple = d.multiple /\ known \in Session
            /\ d.type = "RESTUN" =>
                 /\ nats'.server = nats.server
                 /\ known.stun = "none" => net' = rest
                 /\ known.stun = "completed" => net' = rest \cup {Result(s)}
                 /\ known.stun \in {"launched", "sent"} => net' = rest
            /\ d.type = "PINGBACK" =>
                 /\ net' \subseteq rest \cup Successes(known.guid)
                 /\ ~d.multiple => DOMAIN nats'.server.map \subseteq DOMAIN nats.server.map \cup {k}
        <5>1. StepsOn(d, rest, known, k, s)
          BY <1>0, <1>2, <3>1, StepsAs DEF Timed, known
        <5>. HIDE DEF k, s
        <5>. QED  BY <5>1 DEF StepsOn
      <4>2. d.type \in {"RESTUN", "PINGBACK"} /\ known.stun \in {"none", "launched", "sent", "completed"}
        BY <1>2, <4>1 DEF Timed, IInv, TypeOK, Packet, Session
      <4>3. Result(s).what # "step"
        BY DEF Result
      <4>4. \A p \in net' : p.what = "step" => p \in net
        <5>1. net' \subseteq rest \cup {Result(s)} \cup Successes(known.guid)
          BY <4>1, <4>2
        <5>. HIDE DEF s
        <5>. QED  BY <1>0, <4>3, <5>1 DEF Successes
      <4>5. ~d.multiple => DOMAIN nats'.server.map \subseteq DOMAIN nats.server.map \cup {k}
        BY <4>1, <4>2
      <4>. QED  BY <4>1, <4>4, <4>5
    <3>3. nats'.server.next \in Nat /\ nats.server.next <= nats'.server.next
      BY <3>2 DEF NatOf, NatState, Ages
    <3>4. known.guid <= client.guid
      <4>1. d.guid <= client.guid /\ known.guid \in Nat /\ client.guid \in Nat
        BY <1>2, <3>2, Numbers DEF Timed, Dated, Session
      <4>. QED  BY <3>0, <3>1, <4>1
    <3>5. Exact => d.predicted < nats.client.next /\ ~d.multiple
      BY <1>2 DEF Timed, Foreseen
    <3>. HIDE DEF k
    <3>6. \A a \in DOMAIN traversals' :
            /\ traversals'[a].guid <= client.guid
            /\ Exact => a < nats.client.next /\ ~traversals'[a].multiple
      BY <1>0, <3>2, <3>4, <3>5
    <3>7. ASSUME Exact, NEW p \in Nat, AtClient(p) \in DOMAIN nats'.server.map
          PROVE  p < nats.client.next
      <4>1. AtClient(p) \in DOMAIN nats.server.map \/ AtClient(p) = k
        BY <3>2, <3>5, <3>7
      <4>2. AtClient(p) = k => p = d.predicted
        BY <3>0, <3>7, KeyOfPort DEF k
      <4>. QED  BY <1>0, <3>5, <3>7, <4>1, <4>2
    <3>. QED  BY <1>0, <1>2, <3>2, <3>3, <3>6, <3>7, ServerIsTimed
  <2>. QED  BY <2>1, <2>2
<1>3. CASE d.what = "server_stun" /\ HandleServerStun(d, rest) /\ client' = client
  <2>. HIDE DEF rest
  <2>1. /\ nats' = nats /\ DOMAIN traversals' = DOMAIN traversals
        /\ \A a \in DOMAIN traversals :
             \/ traversals'[a] = traversals[a]
             \/ traversals'[a] = [traversals[a] EXCEPT !.stun = "completed"]
        /\ \A p \in net' : p \in rest \/ \E a \in DOMAIN traversals : p = Result(traversals'[a])
    BY <1>0, <1>3, StunnedAs DEF Timed
  <2>2. \A a \in DOMAIN traversals : /\ traversals'[a].guid = traversals[a].guid
                                     /\ traversals'[a].multiple = traversals[a].multiple
    <3>1. \A a \in DOMAIN traversals : traversals[a] \in Session
      BY DEF Timed, IInv, TypeOK
    <3>. QED  BY <2>1, <3>1 DEF Session
  <2>3. \A p \in net' : p.what = "step" => p \in net
    BY <1>0, <2>1 DEF Result
  <2>4. /\ nats'.client = nats.client /\ nats.server.next <= nats'.server.next
        /\ nats'.server.next \in Nat /\ client'.guid = client.guid
        /\ Exact => \A p \in Nat : AtClient(p) \in DOMAIN nats'.server.map => p < nats.client.next
    BY <1>0, <1>3, <2>1
  <2>5. \A a \in DOMAIN traversals' :
          /\ traversals'[a].guid <= client.guid
          /\ Exact => a < nats.client.next /\ ~traversals'[a].multiple
    BY <1>0, <2>1, <2>2
  <2>. QED  BY <1>0, <2>3, <2>4, <2>5, ServerIsTimed
<1>. QED  BY <1>1, <1>2, <1>3 DEF Receive

(* Whatever else happens. *)
LEMMA RestIsTimed ==
  ASSUME Timed, \/ Tick \/ NextAttempt
                \/ \E d \in net : Lose(d)
                \/ \E fixed_port \in BOOLEAN : Abort(fixed_port)
                \/ UNCHANGED vars
  PROVE  Dated' /\ Foreseen'
<1>0. /\ nats.server.next \in Nat /\ nats.client.next \in Nat /\ client.guid \in Nat
      /\ types.client \in Types /\ nats.client \in NatOf(types.client)
      /\ client \in Client
      /\ \A a \in DOMAIN traversals :
           /\ traversals[a].guid <= client.guid
           /\ Exact => a < nats.client.next /\ ~traversals[a].multiple
      /\ Exact => \A p \in Nat : AtClient(p) \in DOMAIN nats.server.map => p < nats.client.next
  <2>1. types.client \in Types /\ nats.client \in NatOf(types.client) /\ client \in Client
    BY DEF Timed, IInv, TypeOK
  <2>. QED  BY <2>1, Numbers DEF Timed, Dated, Foreseen
<1>1. CASE Tick
  <2>1. UNCHANGED <<types, nats, net>>
    BY <1>1 DEF Tick
  <2>2. client'.guid = client.guid
    BY <1>0, <1>1 DEF Tick, Older, Restun, Client
  <2>3. \A a \in DOMAIN traversals' : /\ a \in DOMAIN traversals
                                      /\ traversals'[a].guid = traversals[a].guid
                                      /\ traversals'[a].multiple = traversals[a].multiple
    BY <1>1 DEF Tick, Timed, IInv, TypeOK, Session
  <2>. QED  BY <1>0, <2>1, <2>2, <2>3, ServerIsTimed
<1>2. CASE \E d \in net : Lose(d)
  BY <1>0, <1>2, ServerIsTimed DEF Lose, Client
<1>3. CASE NextAttempt \/ \E fixed_port \in BOOLEAN : Abort(fixed_port)
  <2>. DEFINE fresh == NewSocket(nats.client)
              sent  == Through(types.client, fresh, Master)
  <2>1. fresh \in NatOf(types.client) /\ fresh.next = nats.client.next /\ Young(fresh)
    <3>1. fresh.next = nats.client.next /\ fresh.map = Closed
      BY <1>0 DEF NewSocket, NatOf, NatState
    <3>. QED  BY <1>0, <3>1, NewSocketIsNat DEF Young, Closed
  <2>. HIDE DEF fresh
  <2>2. sent \in NatOf(types.client) /\ nats.client.next <= sent.next /\ Young(sent)
    BY <1>0, <2>1, Leaves, LeavesAs, Places DEF Ages
  <2>. HIDE DEF sent
  <2>3. PICK nat \in {nats.client, fresh, sent} : nats' = [nats EXCEPT !.client = nat]
    BY <1>3 DEF NextAttempt, Abort, fresh, sent, Timed, IInv, TypeOK
  <2>4. nat \in NatOf(types.client) /\ Young(nat) /\ nats.client.next <= nat.next
    BY <1>0, <2>1, <2>2 DEF Timed, Dated
  <2>5. nats'.client = nat /\ nats'.server = nats.server
    BY <2>3 DEF Timed, IInv, TypeOK
  <2>6. UNCHANGED <<types, traversals, net>> /\ client'.guid = client.guid + 1
    BY <1>3 DEF NextAttempt, Abort, NewSession
  <2>. QED  BY <1>0, <2>4, <2>5, <2>6, ClientIsTimed
<1>4. CASE UNCHANGED vars
  BY <1>0, <1>4, ServerIsTimed DEF vars
<1>. QED  BY <1>1, <1>2, <1>3, <1>4

(* Every step keeps this so. *)
LEMMA TimedInductive == Timed /\ [Next]_vars => Timed'
<1>. SUFFICES ASSUME Timed, [Next]_vars PROVE Timed'
  OBVIOUS
<1>1. IInv'
  BY Inductive DEF Timed
<1>2. Dated' /\ Foreseen'
  BY AdvanceIsTimed, AnswerIsTimed, ReceiptIsTimed, RestIsTimed DEF Next
<1>. QED  BY <1>1, <1>2 DEF Timed

-----------------------------------------------------------------------------
(* What the client has on its way. *)
Course == Opening /\ Telling /\ Unasked /\ Asking /\ Told /\ Traversing

(* A symmetric NAT has a key of its own for the masterserver. *)
LEMMA KeyOfMaster ==
  ASSUME NEW t \in Types, Symmetric(t), NEW port
  PROVE  Key(t, AtServer(port)) # Key(t, Master) /\ Key(t, AtClient(port)) # Key(t, Master)
BY NatAssumption DEF Symmetric, Conic, Key, AtServer, AtClient, Master

(* What the client sees stays as it is when only the server moves. *)
LEMMA ClientStays ==
  ASSUME Timed, UNCHANGED <<types, client>>, nats'.client = nats.client,
         Ages(nats.server, nats'.server)
  PROVE  /\ Registered' <=> Registered
         /\ Visible' = Visible /\ Predicted' = Predicted /\ Answering' = Answering
         /\ Success' = Success
         /\ Virgin' <=> Virgin
         /\ \A port : ReadyAt(port)' <=> ReadyAt(port)
         /\ Undisturbed' <=> Undisturbed
         /\ Quiet' <=> Quiet
         /\ Reached(Predicted) => Reached(Predicted)'
         /\ \A port : Answered(port) => Answered(port)'
<1>1. Registered' <=> Registered
  BY DEF Registered
<1>2. Visible' = Visible
  BY DEF Visible
<1>3. Predicted' = Predicted
  BY <1>2 DEF Predicted
<1>4. Traversed' = Traversed
  BY DEF Traversed, PortTo, Ages, Timed, IInv, Listed
<1>5. Answering' = Answering /\ Success' = Success
  BY <1>3, <1>4 DEF Answering, Success
<1>6. Virgin' <=> Virgin
  BY <1>1 DEF Virgin
<1>7. \A port : ReadyAt(port)' <=> ReadyAt(port)
  BY <1>4 DEF ReadyAt
<1>8. (Undisturbed' <=> Undisturbed) /\ (Quiet' <=> Quiet)
  BY DEF Undisturbed, Retryable, Quiet
<1>9. Reached(Predicted) => Reached(Predicted)'
  BY <1>3 DEF Reached, Ages, Grows
<1>10. \A port : Answered(port) => Answered(port)'
  BY <1>3, <1>9 DEF Answered, Reached, Ages
<1>. QED  BY <1>1, <1>2, <1>3, <1>5, <1>6, <1>7, <1>8, <1>9, <1>10

(* So does what it is told and tells. *)
LEMMA CourseStays ==
  ASSUME Timed, UNCHANGED <<types, client>>, nats'.client = nats.client,
         Ages(nats.server, nats'.server),
         Opening, Telling, Told,
         \A d \in net' : d.what = "step" => d \in net,
         \A d \in net : d.what = "client_stun" => d \in net'
  PROVE  Opening' /\ Telling' /\ Told'
<1>0. /\ Registered' <=> Registered
      /\ Visible' = Visible /\ Predicted' = Predicted
      /\ Virgin' <=> Virgin
      /\ \A port : ReadyAt(port)' <=> ReadyAt(port)
      /\ \A port : Answered(port) => Answered(port)'
  BY ClientStays
<1>1. Opening'
  BY <1>0 DEF Opening
<1>2. Telling'
  BY <1>0 DEF Telling, Mine
<1>3. Told'
  BY <1>0 DEF Told
<1>. QED  BY <1>1, <1>2, <1>3

(* The client's request to a STUN server, with its pings right behind it. *)
LEMMA SendStunRequestStaysOnTrack ==
  ASSUME Timed, Course, SendStunRequest, UNCHANGED <<types, traversals>>, Undisturbed'
  PROVE  Course'
<1>. DEFINE stunned == Stunned(nats.client)
            nat     == IF Conic(types.server) THEN OpenHolesForServer(stunned) ELSE stunned
            request == [what |-> "client_stun", port |-> nats.client.next]
<1>0. /\ client \in Client /\ types.client \in Types /\ nats.client \in NatOf(types.client)
      /\ nats.client.next \in Nat
      /\ nats = [client |-> nats.client, server |-> nats.server]
  BY Numbers DEF Timed, IInv, TypeOK
<1>1. /\ client.state = "AWAITING_STUN_RESPONSE" /\ client.stun = "launched"
      /\ Symmetric(types.client) /\ client.due /\ Virgin /\ client.elapsed = 0
      /\ Conic(types.server) => client.server_port = 0
  BY <1>0 DEF Course, Opening, SendStunRequest, Client
<1>2. client' = [client EXCEPT !.stun = "sent", !.asked = nats.client.next, !.stun_age = 0]
  BY DEF SendStunRequest
<1>3. /\ client'.state = "AWAITING_STUN_RESPONSE" /\ client'.stun = "sent"
      /\ client'.asked = nats.client.next /\ client'.due = client.due
      /\ client'.elapsed = client.elapsed /\ client'.server_port = client.server_port
      /\ client'.stunned = client.stunned /\ client'.guid = client.guid
  BY <1>0, <1>1, <1>2 DEF Client
<1>4. nats'.client = nat /\ nats'.server = nats.server /\ net' = net \cup {request}
  BY <1>0 DEF SendStunRequest
<1>5. /\ stunned \in NatOf(types.client) /\ stunned.map = nats.client.map
      /\ stunned.next = nats.client.next + 1
  BY <1>0, StunGrows, StunAges
<1>. HIDE DEF stunned
<1>6. ReadyAt(client.asked)'
  <2>1. CASE Conic(types.server)
    <3>1. Answering = Traversed /\ Traversed' = Traversed
      BY <1>1, <1>4, <2>1 DEF Answering, Traversed
    <3>. DEFINE to    == AtServer(Traversed)
                first == OpenHole(stunned, Traversed)
    <3>2. Traversed \in Nat /\ to \in Address
      BY <3>1, ClientAims, <1>0, Places DEF Timed
    <3>3. Ages(first, nat)
      BY <1>5, <2>1, <3>1, ClientAims DEF Timed
    <3>4. Key(types.client, to) \notin DOMAIN stunned.map
      BY <1>0, <1>1, <1>5, KeyOfMaster DEF Virgin
    <3>5. PortTo(types.client, first, to) = nats.client.next + 1
      BY <1>0, <1>5, <3>2, <3>4, LeavesAs DEF OpenHole
    <3>6. LetsIn(first, nats.client.next + 1, to)
      BY <1>0, <1>5, <3>2, <3>5, Leaves DEF OpenHole
    <3>7. <<nats.client.next + 1, to>> \in nat.holes
      BY <3>3, <3>6 DEF Ages, Grows, LetsIn
    <3>. QED  BY <1>3, <1>4, <2>1, <3>1, <3>7 DEF ReadyAt
  <2>2. CASE Symmetric(types.server)
    <3>1. nat = stunned
      BY <2>2 DEF Symmetric
    <3>2. DOMAIN stunned.map = {Key(types.client, Master)}
      BY <1>1, <1>5, <2>2 DEF Virgin, Registered
    <3>. QED  BY <1>3, <1>4, <1>5, <2>2, <3>1, <3>2 DEF ReadyAt, Symmetric
  <2>. QED  BY <2>1, <2>2 DEF Symmetric
<1>7. Opening'
  BY <1>1, <1>3, <1>4, <1>6 DEF Opening
<1>8. \A d \in net : d.what # "step"
  BY <1>1 DEF Course, Telling
<1>9. Telling'
  <2>1. request.what # "step"
    OBVIOUS
  <2>. HIDE DEF request
  <2>. QED  BY <1>4, <1>8, <2>1 DEF Telling
<1>10. Unasked'
  <2>. SUFFICES ASSUME Symmetric(types.server) PROVE Unasked'
    BY DEF Unasked
  <2>1. /\ \A d \in net : d.what # "step" /\ (d.what = "result" => ~Mine(d))
        /\ \A a \in DOMAIN traversals : ~Mine(traversals[a])
        /\ client.guid = 1 =>
             DOMAIN traversals = {} /\ DOMAIN nats.server.map = {Key(types.server, Master)}
        /\ client.guid # 1 /\ Registered =>
             Predicted \notin DOMAIN traversals /\ ~Reached(Predicted)
    BY <1>1 DEF Course, Unasked, Quiet
  <2>2. nat = stunned
    BY DEF Symmetric
  <2>3. (Registered' <=> Registered) /\ Predicted' = Predicted
    BY <1>1, <1>3, <1>4, <1>5, <2>2 DEF Registered, Predicted, Symmetric
  <2>4. request.what \notin {"step", "result"}
    OBVIOUS
  <2>. HIDE DEF request, nat
  <2>5. \A d \in net' : d.what # "step" /\ (d.what = "result" => d.guid # client.guid)
    BY <1>4, <2>1, <2>4 DEF Mine
  <2>. QED  BY <1>3, <1>4, <2>1, <2>3, <2>5 DEF Unasked, Mine, Reached
<1>11. Asking' /\ Told' /\ Traversing'
  BY <1>3 DEF Asking, Told, Traversing
<1>. QED  BY <1>7, <1>9, <1>10, <1>11 DEF Course

(* The state machine of the session. *)
LEMMA FlowStaysOnTrack ==
  ASSUME Timed, Course, Flow, UNCHANGED <<types, traversals>>, Undisturbed'
  PROVE  Course'
<1>0. /\ client \in Client /\ types.client \in Types
      /\ nats' = nats /\ net' = net /\ client.stun = "none"
      /\ client.elapsed \in Nat /\ client.due \in BOOLEAN
  BY DEF Timed, IInv, TypeOK, Flow, Client
<1>1. PICK s \in {"INIT", "CLIENT_STUN_REQUIREMENT_MET", "SERVER_STUN_REQUIREMENT_MET"} :
        client.state = s
  BY DEF Flow
<1>2. /\ client.elapsed = 0
      /\ client.state = "INIT" => client.due /\ Virgin
      /\ client.state = "CLIENT_STUN_REQUIREMENT_MET" => client.due /\ ReadyAt(client.stunned)
      /\ client.state = "SERVER_STUN_REQUIREMENT_MET" =>
           client.due = Conic(types.server) /\ ReadyAt(client.stunned)
      /\ Conic(types.server) => client.server_port = 0
  BY <1>1 DEF Course, Opening
<1>3. /\ client'.stunned = client.stunned /\ client'.guid = client.guid
      /\ client'.server_port = client.server_port /\ client'.elapsed = client.elapsed
      /\ client.state = "INIT" => client'.due = client.due
      /\ client.state = "INIT" /\ Conic(types.client) =>
           client'.state = "CLIENT_STUN_REQUIREMENT_MET" /\ client'.stun = "none"
      /\ client.state = "INIT" /\ ~Conic(types.client) =>
           client'.state = "AWAITING_STUN_RESPONSE" /\ client'.stun = "launched"
      /\ client.state = "CLIENT_STUN_REQUIREMENT_MET" =>
           /\ client'.stun = "none"
           /\ Conic(types.server) =>
                client'.state = "SERVER_STUN_REQUIREMENT_MET" /\ client'.due = client.due
           /\ ~Conic(types.server) =>
                client'.state = "REQUESTING_REMOTE_PORT_INFO" /\ client'.due = TRUE
      /\ client.state = "SERVER_STUN_REQUIREMENT_MET" =>
           client'.stun = "none" /\ client'.state = "TRAVERSING" /\ client'.due = client.due
  BY <1>0 DEF Flow, Restun, Client
<1>4. /\ Registered' <=> Registered
      /\ Visible' = Visible /\ Predicted' = Predicted
      /\ Virgin' <=> Virgin
      /\ \A port : ReadyAt(port)' <=> ReadyAt(port)
      /\ \A port : Answered(port)' <=> Answered(port)
      /\ Reached(Predicted)' <=> Reached(Predicted)
  <2>1. (Registered' <=> Registered) /\ Visible' = Visible /\ Predicted' = Predicted
    BY <1>0, <1>3 DEF Registered, Visible, Predicted
  <2>2. Traversed' = Traversed
    BY <1>0 DEF Traversed
  <2>. QED  BY <1>0, <2>1, <2>2 DEF Virgin, ReadyAt, Answered, Reached
<1>5. Opening'
  <2>1. CASE client.state = "INIT"
    BY <1>2, <1>3, <1>4, <2>1 DEF Opening, ReadyAt, Symmetric
  <2>2. CASE client.state = "CLIENT_STUN_REQUIREMENT_MET"
    BY <1>2, <1>3, <1>4, <2>2 DEF Opening, Symmetric
  <2>3. CASE client.state = "SERVER_STUN_REQUIREMENT_MET"
    BY <1>2, <1>3, <1>4, <2>3 DEF Opening
  <2>. QED  BY <1>1, <2>1, <2>2, <2>3
<1>6. Telling'
  <2>1. client.state # "SERVER_STUN_REQUIREMENT_MET" => \A d \in net : d.what # "step"
    BY <1>1 DEF Course, Telling
  <2>2. CASE client.state # "SERVER_STUN_REQUIREMENT_MET"
    BY <1>0, <2>1, <2>2 DEF Telling
  <2>3. CASE client.state = "SERVER_STUN_REQUIREMENT_MET"
    BY <1>0, <1>3, <1>4, <2>3 DEF Course, Telling, Mine
  <2>. QED  BY <2>2, <2>3
<1>7. Unasked'
  <2>. SUFFICES ASSUME Quiet', Symmetric(types.server) PROVE Unasked'
    BY DEF Unasked
  <2>1. Quiet
    BY <1>1, <1>3 DEF Quiet, Symmetric
  <2>. QED  BY <1>0, <1>3, <1>4, <2>1 DEF Course, Unasked, Mine
<1>8. Asking'
  BY <1>1, <1>3 DEF Asking
<1>9. Told'
  BY <1>1, <1>0, <1>3, <1>4 DEF Course, Told, Symmetric
<1>10. Traversing'
  BY <1>1, <1>2, <1>3, <1>4 DEF Traversing, Symmetric
<1>. QED  BY <1>5, <1>6, <1>7, <1>8, <1>9, <1>10 DEF Course

(* The question for the port of a symmetric server. *)
LEMMA RequestStaysOnTrack ==
  ASSUME Timed, Course, Undisturbed, RequestRemotePortInfo, UNCHANGED <<types, traversals>>
  PROVE  Course'
<1>. DEFINE sent == Through(types.client, nats.client, Master)
            step == Step(sent, "RESTUN")
<1>0. /\ client \in Client /\ types.client \in Types /\ types.server \in Types
      /\ nats.client \in NatOf(types.client)
      /\ Ages(nats.client, nats.client)
      /\ client.state = "REQUESTING_REMOTE_PORT_INFO" /\ client.due
      /\ client' = [client EXCEPT !.due = FALSE]
      /\ Request(nats.client, "RESTUN")
  BY Numbers DEF Timed, IInv, TypeOK, RequestRemotePortInfo, Ages, Grows
<1>1. /\ client'.state = "REQUESTING_REMOTE_PORT_INFO" /\ client'.due = FALSE
      /\ client'.stunned = client.stunned /\ client'.guid = client.guid
      /\ client'.server_port = client.server_port /\ client'.elapsed = client.elapsed
      /\ client'.stun = client.stun
  BY <1>0 DEF Client
<1>2. /\ client.stun = "none" /\ client.elapsed = 0 /\ Symmetric(types.server)
      /\ ReadyAt(client.stunned)
  BY <1>0 DEF Course, Opening
<1>3. /\ \A d \in net : d.what # "step" /\ (d.what = "result" => ~Mine(d))
      /\ \A a \in DOMAIN traversals : ~Mine(traversals[a])
      /\ client.guid = 1 =>
           DOMAIN traversals = {} /\ DOMAIN nats.server.map = {Key(types.server, Master)}
      /\ client.guid # 1 /\ Registered =>
           Predicted \notin DOMAIN traversals /\ ~Reached(Predicted)
  BY <1>0, <1>2 DEF Course, Unasked, Quiet
<1>4. /\ nats'.client = sent /\ nats'.server = nats.server
      /\ Ages(nats.client, sent)
      /\ Registered' /\ LetsIn(sent, Visible', Master)
      /\ Visible' = sent.map[Key(types.client, Master)]
      /\ net' = net \cup {step}
      /\ step.what = "step" /\ step.type = "RESTUN" /\ step.guid = client.guid
      /\ step.visible = Visible'
      /\ step.predicted = IF Conic(types.client) THEN Visible' ELSE client.stunned + 1
  BY <1>0, RequestsAs
<1>5. /\ Key(types.client, Master) \in DOMAIN nats.client.map =>
           sent.next = nats.client.next /\ DOMAIN sent.map = DOMAIN nats.client.map
      /\ Key(types.client, Master) \notin DOMAIN nats.client.map =>
           Visible' = nats.client.next
  BY <1>0, <1>4, LeavesAs, Places DEF PortTo
<1>6. Predicted' = step.predicted
  BY <1>1, <1>4 DEF Predicted
<1>. HIDE DEF sent, step
<1>7. Opening'
  <2>1. ReadyAt(client.stunned)'
    BY <1>1, <1>2, <1>4, <1>5 DEF ReadyAt, Symmetric
  <2>. QED  BY <1>1, <1>2, <2>1 DEF Opening, Symmetric
<1>8. Telling'
  BY <1>1, <1>3, <1>4, <1>6 DEF Telling, Mine
<1>9. Predicted' \notin DOMAIN traversals /\ ~Reached(Predicted)'
  <2>1. CASE client.guid = 1
    BY <1>0, <1>2, <1>3, <1>4, <2>1, KeyOfMaster DEF Reached
  <2>2. CASE client.guid # 1 /\ Registered
    <3>1. Visible' = Visible
      BY <1>4, <2>2 DEF Ages, Visible, PortTo, Registered
    <3>2. Predicted' = Predicted
      BY <1>1, <3>1 DEF Predicted
    <3>. QED  BY <1>3, <1>4, <2>2, <3>2 DEF Reached
  <2>3. CASE client.guid # 1 /\ ~Registered
    <3>1. Exact /\ Conic(types.client)
      BY <1>2, <2>3 DEF Undisturbed, Retryable, Exact, Conic, Symmetric
    <3>2. Predicted' = nats.client.next /\ nats.client.next \in Nat
      BY <1>4, <1>5, <1>6, <2>3, <3>1, Numbers DEF Registered, Timed
    <3>3. Key(types.server, AtClient(nats.client.next)) = AtClient(nats.client.next)
      BY <3>1 DEF Exact, Key
    <3>. QED  BY <1>4, <3>1, <3>2, <3>3 DEF Timed, Foreseen, Reached
  <2>. QED  BY <2>1, <2>2, <2>3
<1>10. Unasked' /\ Told' /\ Traversing'
  BY <1>1 DEF Unasked, Quiet, Told, Traversing
<1>11. Asking'
  <2>1. \A d \in net' : d.what = "result" => ~Mine(d)'
    BY <1>1, <1>3, <1>4 DEF Mine
  <2>2. \E d \in net' : d.what = "step"
    BY <1>4
  <2>3. \A a \in DOMAIN traversals' : ~Mine(traversals[a])'
    BY <1>1, <1>3 DEF Mine
  <2>4. LetsIn(nats.client, Visible, Master)'
    BY <1>4
  <2>. QED  BY <1>1, <1>3, <1>4, <1>9, <2>1, <2>2, <2>3, <2>4 DEF Asking
<1>. QED  BY <1>7, <1>8, <1>10, <1>11 DEF Course

(* The pings of the client, and the request for one of the server. *)
LEMMA TraverseStaysOnTrack ==
  ASSUME Timed, Course, Traverse, UNCHANGED <<types, traversals>>
  PROVE  Course'
<1>. DEFINE nat   == OpenHolesForServer(nats.client)
            sent  == Through(types.client, nat, Master)
            step  == Step(sent, "PINGBACK")
            to    == AtServer(Answering)
            first == OpenHole(nats.client, Answering)
<1>0. /\ client \in Client /\ types.client \in Types /\ types.server \in Types
      /\ nats.client \in NatOf(types.client)
      /\ client.state = "TRAVERSING" /\ client.due
      /\ client' = [client EXCEPT !.due = FALSE]
      /\ Request(nat, "PINGBACK")
  BY DEF Timed, IInv, TypeOK, Traverse
<1>1. /\ client'.state = "TRAVERSING" /\ client'.due = FALSE
      /\ client'.stunned = client.stunned /\ client'.guid = client.guid
      /\ client'.server_port = client.server_port /\ client'.elapsed = client.elapsed
      /\ client'.stun = client.stun
  BY <1>0 DEF Client
<1>2. /\ client.stun = "none" /\ ReadyAt(client.stunned)
      /\ Conic(types.server) => client.server_port = 0
  BY <1>0 DEF Course, Opening, Traversing
<1>3. /\ nat \in NatOf(types.client) /\ Ages(nats.client, nat) /\ Ages(first, nat)
      /\ Answering \in Nat /\ to \in Address
  BY <1>0, OpensAged, ClientAims, Places DEF Timed
<1>4. /\ first \in NatOf(types.client) /\ LetsIn(first, PortTo(types.client, first, to), to)
      /\ Key(types.client, to) \in DOMAIN first.map
      /\ Key(types.client, to) \notin DOMAIN nats.client.map =>
           PortTo(types.client, first, to) = nats.client.next
  BY <1>0, <1>3, Leaves, LeavesAs DEF OpenHole
<1>. HIDE DEF nat
<1>5. /\ nats'.client = sent /\ nats'.server = nats.server /\ sent \in NatOf(types.client)
      /\ Ages(nats.client, sent) /\ Ages(nat, sent)
      /\ Registered' /\ LetsIn(sent, Visible', Master)
      /\ Visible' = sent.map[Key(types.client, Master)]
      /\ net' = net \cup {step}
      /\ step.what = "step" /\ step.type = "PINGBACK" /\ step.guid = client.guid
      /\ step.visible = Visible'
      /\ step.predicted = IF Conic(types.client) THEN Visible' ELSE client.stunned + 1
  BY <1>0, <1>3, RequestsAs
<1>. HIDE DEF sent, step
<1>6. Predicted' = step.predicted
  BY <1>1, <1>5 DEF Predicted
<1>7. Registered => Visible' = Visible /\ Predicted' = Predicted
  BY <1>1, <1>5, <1>6 DEF Registered, Visible, Predicted, PortTo, Ages
<1>8. Answering' = Answering
  BY <1>1, <1>5 DEF Answering, Traversed
<1>9. Opening'
  BY <1>1, <1>2 DEF Opening
<1>10. Telling'
  BY <1>0, <1>1, <1>5, <1>6, <1>7 DEF Course, Telling, Mine
<1>11. Unasked' /\ Asking'
  BY <1>1 DEF Unasked, Quiet, Asking
<1>12. Told'
  BY <1>0, <1>1, <1>5, <1>7 DEF Course, Told, Answered, Reached
<1>. HIDE DEF first, to
<1>13. LetsIn(sent, Predicted', to)
  <2>1. /\ PortTo(types.client, first, to) = sent.map[Key(types.client, to)]
        /\ LetsIn(sent, PortTo(types.client, first, to), to)
    BY <1>3, <1>4, <1>5 DEF Ages, Grows, PortTo, LetsIn
  <2>2. CASE Conic(types.client)
    <3>1. Key(types.client, to) = Key(types.client, Master)
      BY <2>2 DEF Key, Conic
    <3>. QED  BY <1>5, <1>6, <2>1, <2>2, <3>1
  <2>3. CASE ~Conic(types.client) /\ Conic(types.server)
    <3>1. <<client.stunned + 1, AtServer(Traversed)>> \in nats.client.holes
      BY <1>2, <2>3 DEF ReadyAt, Symmetric
    <3>2. Answering = Traversed
      BY <1>2, <2>3 DEF Answering
    <3>. QED  BY <1>5, <1>6, <2>3, <3>1, <3>2 DEF Ages, Grows, LetsIn, to
  <2>4. CASE ~Conic(types.client) /\ ~Conic(types.server)
    <3>1. /\ DOMAIN nats.client.map = {Key(types.client, Master)}
          /\ nats.client.next = client.stunned + 1
      BY <1>2, <2>4 DEF ReadyAt, Symmetric
    <3>2. Key(types.client, to) \notin DOMAIN nats.client.map
      BY <1>0, <2>4, <3>1, KeyOfMaster DEF Symmetric, to
    <3>. QED  BY <1>4, <1>5, <1>6, <2>1, <2>4, <3>1, <3>2
  <2>. QED  BY <2>2, <2>3, <2>4
<1>14. Traversing'
  <2>1. \E d \in net' : d.what = "step" /\ d.type = "PINGBACK"
    BY <1>5
  <2>2. LetsIn(nats.client, Predicted, AtServer(Answering))'
    BY <1>5, <1>8, <1>13 DEF to
  <2>. QED  BY <1>1, <1>5, <2>1, <2>2 DEF Traversing
<1>. QED  BY <1>9, <1>10, <1>11, <1>12, <1>14 DEF Course

(* What the client is told, by whom it may be. *)
LEMMA ClientHandlesStaysOnTrack ==
  ASSUME Timed, Course, Undisturbed, NEW d \in net, NEW rest,
         rest \subseteq net, net \ {d} \subseteq rest, net' = rest,
         ClientHandles(d), types' = types, client'.state # "TRAVERSAL_COMPLETE"
  PROVE  Course'
<1>0. /\ client \in Client /\ types.client \in Types /\ types.server \in Types
      /\ nats' = nats /\ traversals' = traversals
      /\ d.what \in {"client_stun", "result", "success"}
      /\ client' = ClientReceives(d) /\ client.state # "TRAVERSAL_COMPLETE"
  BY DEF Timed, IInv, TypeOK, ClientHandles, Undisturbed
<1>. DEFINE Heard    == /\ d.what = "client_stun" /\ client.stun = "sent" /\ d.port = client.asked
                        /\ client.state # "TIMED_OUT"
            Informed    == /\ d.what = "result" /\ d.guid = client.guid
                        /\ LetsIn(nats.client, d.to, Master)
                        /\ client.state = "REQUESTING_REMOTE_PORT_INFO"
            Pinged   == /\ d.what = "success" /\ d.guid = client.guid
                        /\ LetsIn(nats.client, d.to, AtServer(d.from))
                        /\ client.state # "TIMED_OUT"
<1>1. CASE Heard
  <2>1. client' = [client EXCEPT !.stunned = d.port, !.stun = "none",
                                 !.state = "CLIENT_STUN_REQUIREMENT_MET", !.due = TRUE]
    BY <1>0, <1>1 DEF ClientReceives
  <2>2. /\ client'.state = "CLIENT_STUN_REQUIREMENT_MET" /\ client'.due = TRUE
        /\ client'.stun = "none" /\ client'.stunned = client.asked
        /\ client'.guid = client.guid /\ client'.server_port = client.server_port
        /\ client'.elapsed = client.elapsed
    BY <1>0, <1>1, <2>1 DEF Client
  <2>3. /\ client.state = "AWAITING_STUN_RESPONSE" /\ Symmetric(types.client)
        /\ ReadyAt(client.asked) /\ client.elapsed = 0
        /\ Conic(types.server) => client.server_port = 0
    BY <1>0, <1>1 DEF Course, Opening, Client
  <2>4. Opening'
    <3>1. ReadyAt(client.stunned)'
      BY <1>0, <2>2, <2>3 DEF ReadyAt, Traversed
    <3>. QED  BY <2>2, <2>3, <3>1 DEF Opening
  <2>5. Telling'
    BY <2>3 DEF Course, Telling
  <2>6. Unasked'
    <3>. SUFFICES ASSUME Symmetric(types.server) PROVE Unasked'
      BY DEF Unasked
    <3>1. client.guid = 1
      BY <2>3 DEF Undisturbed, Retryable, Symmetric
    <3>2. Quiet
      BY <2>3 DEF Quiet
    <3>. QED  BY <1>0, <2>2, <3>1, <3>2 DEF Course, Unasked, Mine
  <2>. QED  BY <2>2, <2>4, <2>5, <2>6 DEF Course, Asking, Told, Traversing
<1>2. CASE Informed
  <2>1. client' = [client EXCEPT !.server_port = d.port, !.state = "SERVER_STUN_REQUIREMENT_MET"]
    BY <1>0, <1>2 DEF ClientReceives
  <2>2. /\ client'.state = "SERVER_STUN_REQUIREMENT_MET" /\ client'.server_port = d.port
        /\ client'.due = client.due /\ client'.stun = client.stun
        /\ client'.stunned = client.stunned /\ client'.guid = client.guid
        /\ client'.elapsed = client.elapsed
    BY <1>0, <1>2, <2>1 DEF Client
  <2>3. /\ client.stun = "none" /\ client.elapsed = 0 /\ Symmetric(types.server)
        /\ ReadyAt(client.stunned)
    BY <1>2 DEF Course, Opening
  <2>4. ~client.due
    BY <1>2, <2>3 DEF Course, Unasked, Quiet, Mine
  <2>5. Registered /\ Answered(d.port)
    BY <1>2, <2>4 DEF Course, Asking, Mine
  <2>6. /\ (Registered' <=> Registered) /\ Visible' = Visible /\ Predicted' = Predicted
    BY <1>0, <2>2 DEF Registered, Visible, Predicted
  <2>7. Opening'
    <3>1. ReadyAt(client.stunned)'
      BY <1>0, <2>2, <2>3 DEF ReadyAt, Traversed
    <3>2. client.due = FALSE /\ Conic(types.server) = FALSE
      BY <1>0, <2>3, <2>4 DEF Client, Symmetric, Conic
    <3>. QED  BY <2>2, <2>3, <3>1, <3>2 DEF Opening
  <2>8. Telling'
    BY <1>2, <2>2, <2>6 DEF Course, Telling, Mine
  <2>9. Told'
    BY <1>0, <2>2, <2>5, <2>6 DEF Told, Answered, Reached
  <2>. QED  BY <2>2, <2>7, <2>8, <2>9 DEF Course, Unasked, Quiet, Asking, Traversing
<1>3. CASE Pinged
  BY <1>0, <1>3 DEF ClientReceives, Client
<1>4. CASE ~Heard /\ ~Informed /\ ~Pinged
  <2>1. client' = client
    BY <1>0, <1>4 DEF ClientReceives
  <2>2. /\ (Registered' <=> Registered) /\ Visible' = Visible /\ Predicted' = Predicted
        /\ Answering' = Answering /\ (Virgin' <=> Virgin) /\ Success' = Success
        /\ \A port : ReadyAt(port)' <=> ReadyAt(port)
        /\ \A port : Answered(port)' <=> Answered(port)
        /\ Reached(Predicted)' <=> Reached(Predicted)
    <3>1. Traversed' = Traversed /\ Visible' = Visible /\ (Registered' <=> Registered)
      BY <1>0 DEF Traversed, Visible, Registered
    <3>2. Predicted' = Predicted /\ Answering' = Answering
      BY <2>1, <3>1 DEF Predicted, Answering
    <3>3. /\ (Virgin' <=> Virgin) /\ \A port : ReadyAt(port)' <=> ReadyAt(port)
      BY <1>0, <3>1 DEF Virgin, ReadyAt
    <3>. QED  BY <1>0, <2>1, <3>1, <3>2, <3>3 DEF Success, Answered, Reached
  <2>3. Opening'
    <3>1. ASSUME client.state = "AWAITING_STUN_RESPONSE", client.stun = "sent"
          PROVE  [what |-> "client_stun", port |-> client.asked] \in net'
      <4>1. [what |-> "client_stun", port |-> client.asked] \in net
        BY <3>1 DEF Course, Opening
      <4>2. [what |-> "client_stun", port |-> client.asked] # d
        <5>. DEFINE request == [what |-> "client_stun", port |-> client.asked]
        <5>1. request.what = "client_stun" /\ request.port = client.asked
          OBVIOUS
        <5>. HIDE DEF request
        <5>2. request # d
          BY <1>4, <3>1, <5>1
        <5>. QED  BY <5>2 DEF request
      <4>. QED  BY <4>1, <4>2
    <3>. QED  BY <2>1, <2>2, <3>1 DEF Course, Opening
  <2>4. Telling' /\ Told'
    BY <1>0, <2>1, <2>2 DEF Course, Telling, Told, Mine
  <2>5. Unasked'
    BY <1>0, <2>1, <2>2 DEF Course, Unasked, Quiet, Mine
  <2>6. Asking'
    <3>. SUFFICES ASSUME client.state = "REQUESTING_REMOTE_PORT_INFO", ~client.due
                  PROVE  Asking'
      BY <2>1 DEF Asking
    <3>1. /\ Registered /\ LetsIn(nats.client, Visible, Master)
          /\ client.guid = 1 => DOMAIN traversals \subseteq {Predicted}
          /\ \A a \in DOMAIN traversals :
               Mine(traversals[a]) => a = Predicted /\ Serving(traversals[a])
          /\ \A e \in net : e.what = "result" /\ Mine(e) => e.to = Visible /\ Answered(e.port)
          /\ \/ /\ \E e \in net : e.what = "step"
                /\ Predicted \notin DOMAIN traversals /\ ~Reached(Predicted)
             \/ /\ Predicted \in DOMAIN traversals /\ Mine(traversals[Predicted])
                /\ \/ traversals[Predicted].stun = "launched"
                   \/ /\ traversals[Predicted].stun = "sent"
                      /\ [what |-> "server_stun", address |-> Predicted,
                          port |-> traversals[Predicted].asked] \in net
                   \/ \E e \in net : e.what = "result" /\ Mine(e)
      BY DEF Course, Asking
    <3>2. ~(d.what = "result" /\ Mine(d))
      BY <1>4, <3>1 DEF Mine
    <3>3. \A e \in net : e.what \in {"step", "server_stun"} \/ (e.what = "result" /\ Mine(e)) => e \in net'
      BY <1>0, <3>2
    <3>4. \A p \in Nat : [what |-> "server_stun", address |-> Predicted, port |-> p].what = "server_stun"
      OBVIOUS
    <3>5. /\ (\E e \in net : e.what = "step") => \E e \in net' : e.what = "step"
          /\ (\E e \in net : e.what = "result" /\ Mine(e)) => \E e \in net' : e.what = "result" /\ Mine(e)
          /\ \A p : [what |-> "server_stun", address |-> Predicted, port |-> p] \in net =>
                    [what |-> "server_stun", address |-> Predicted, port |-> p] \in net'
      BY <3>3
    <3>6. \A s : Serving(s)' <=> Serving(s)
      BY <2>2 DEF Serving
    <3>7. \A e : Mine(e)' <=> Mine(e)
      BY <2>1 DEF Mine
    <3>. QED  BY <1>0, <2>1, <2>2, <3>1, <3>5, <3>6, <3>7 DEF Asking
  <2>7. Traversing'
    <3>. SUFFICES ASSUME client.state = "TRAVERSING" PROVE Traversing'
      BY <2>1 DEF Traversing
    <3>1. LetsIn(nats.client, Predicted, AtServer(Answering)) => Success # d
      <4>1. /\ Success.what = "success" /\ Success.guid = client.guid
            /\ Success.to = Predicted /\ Success.from = Answering
        BY DEF Success
      <4>. QED  BY <1>4, <4>1
    <3>2. \A e \in net : e.what = "step" => e \in net'
      BY <1>0
    <3>. QED  BY <1>0, <2>1, <2>2, <3>1, <3>2 DEF Course, Traversing
  <2>. QED  BY <2>3, <2>4, <2>5, <2>6, <2>7 DEF Course
<1>. QED  BY <1>1, <1>2, <1>3, <1>4

(* A step arrives: the server asks for its own port, or pings. *)
LEMMA StepStaysOnTrack ==
  ASSUME Timed, Course, NEW d \in net, d.what = "step", NEW rest,
         rest \subseteq net, net \ {d} \subseteq rest,
         HandleStep(d, rest), UNCHANGED <<types, client>>
  PROVE  Course'
<1>. DEFINE known == Entry(d.predicted, d.guid)
            k     == Key(types.server, AtClient(d.predicted))
            s     == traversals'[d.predicted]
<1>0. /\ Mine(d) /\ Registered /\ d.visible = Visible /\ d.predicted = Predicted
      /\ client.state \in {"REQUESTING_REMOTE_PORT_INFO", "SERVER_STUN_REQUIREMENT_MET", "TRAVERSING"}
      /\ d.type = "PINGBACK" => client.state = "TRAVERSING"
      /\ d.type \in {"RESTUN", "PINGBACK"}
  BY DEF Course, Telling, Timed, IInv, TypeOK, Packet
<1>1. /\ known.guid = d.guid
      /\ Predicted \in DOMAIN traversals /\ Mine(traversals[Predicted]) =>
           known = traversals[Predicted]
      /\ ~(Predicted \in DOMAIN traversals /\ Mine(traversals[Predicted])) =>
           known.stun = "none" /\ ~known.holes_opened
  <2>1. d.guid = client.guid /\ client.guid \in Nat
    BY <1>0, Numbers DEF Mine, Timed
  <2>2. Predicted \in DOMAIN traversals =>
          traversals[Predicted].guid \in Nat /\ traversals[Predicted].guid <= client.guid
    BY Numbers DEF Timed, Dated
  <2>3. Predicted \in DOMAIN traversals =>
          (traversals[Predicted].guid >= client.guid <=> traversals[Predicted].guid = client.guid)
    BY <2>1, <2>2
  <2>. QED  BY <1>0, <2>1, <2>3 DEF Entry, Fresh, Mine
<1>. HIDE DEF known
<1>2. /\ known \in Session /\ s \in Session
      /\ nats'.client = nats.client /\ nats'.server \in NatOf(types.server)
      /\ Ages(nats.server, nats'.server)
      /\ DOMAIN traversals' = DOMAIN traversals \cup {d.predicted}
      /\ \A a \in DOMAIN traversals : a # d.predicted => traversals'[a] = traversals[a]
      /\ s.guid = known.guid /\ s.asked = known.asked
      /\ s.visible = d.visible
      /\ rest \subseteq net'
      /\ d.type = "RESTUN" =>
           /\ nats'.server = nats.server /\ s.holes_opened = known.holes_opened
           /\ known.stun = "none" => s.stun = "launched" /\ net' = rest
           /\ known.stun = "completed" => s.stun = "completed" /\ net' = rest \cup {Result(s)}
           /\ known.stun \in {"launched", "sent"} => s.stun = known.stun /\ net' = rest
      /\ d.type = "PINGBACK" =>
           /\ k \in DOMAIN nats'.server.map
           /\ [what |-> "success", guid |-> known.guid, to |-> d.predicted,
               from |-> nats'.server.map[k]] \in net'
           /\ net' \subseteq rest \cup Successes(known.guid)
  <2>1. known.guid <= d.guid
    BY <1>0, <1>1, Numbers DEF Timed
  <2>2. StepsOn(d, rest, known, k, s)
    BY <2>1, StepsAs DEF known, Timed
  <2>. HIDE DEF k, s
  <2>. QED  BY <2>2 DEF StepsOn
<1>. HIDE DEF k, s
<1>3. known.stun \in {"none", "launched", "sent", "completed"}
  BY <1>2 DEF Session
<1>4. /\ Result(s).what = "result" /\ Result(s).guid = known.guid
      /\ Result(s).to = Visible /\ Result(s).port = known.asked
  BY <1>0, <1>2 DEF Result
<1>5. net' \subseteq rest \cup {Result(s)} \cup Successes(known.guid)
  BY <1>0, <1>2, <1>3
<1>6. \A e \in net' : e.what = "step" => e \in net
  BY <1>4, <1>5 DEF Successes
<1>7. /\ Registered' <=> Registered
      /\ Visible' = Visible /\ Predicted' = Predicted /\ Answering' = Answering
      /\ Success' = Success
      /\ \A port : ReadyAt(port)' <=> ReadyAt(port)
      /\ Quiet' <=> Quiet
      /\ Reached(Predicted) => Reached(Predicted)'
      /\ \A port : Answered(port) => Answered(port)'
  BY <1>2, ClientStays
<1>8. \A e \in net : e # d => e \in net'
  BY <1>2
<1>9. Opening' /\ Telling' /\ Told'
  BY <1>2, <1>6, <1>8, CourseStays DEF Course
<1>10. Unasked'
  BY <1>7 DEF Course, Unasked
<1>11. Asking'
  <2>. SUFFICES ASSUME client.state = "REQUESTING_REMOTE_PORT_INFO", ~client.due
                PROVE  Asking'
    BY DEF Asking
  <2>1. d.type = "RESTUN" /\ nats'.server = nats.server
    BY <1>0, <1>2
  <2>2. /\ Registered /\ LetsIn(nats.client, Visible, Master)
        /\ client.guid = 1 => DOMAIN traversals \subseteq {Predicted}
        /\ \A a \in DOMAIN traversals :
             Mine(traversals[a]) => a = Predicted /\ Serving(traversals[a])
        /\ \A e \in net : e.what = "result" /\ Mine(e) => e.to = Visible /\ Answered(e.port)
        /\ \/ Predicted \notin DOMAIN traversals /\ ~Reached(Predicted)
           \/ /\ Predicted \in DOMAIN traversals /\ Mine(traversals[Predicted])
              /\ \/ traversals[Predicted].stun = "launched"
                 \/ /\ traversals[Predicted].stun = "sent"
                    /\ [what |-> "server_stun", address |-> Predicted,
                        port |-> traversals[Predicted].asked] \in net
                 \/ \E e \in net : e.what = "result" /\ Mine(e)
    BY DEF Course, Asking
  <2>3. /\ Reached(Predicted)' <=> Reached(Predicted)
        /\ \A port : Answered(port)' <=> Answered(port)
    BY <1>7, <2>1 DEF Answered, Reached
  <2>4. \A session : Serving(session)' <=> Serving(session)
    BY <1>7, <2>3 DEF Serving
  <2>5. \A e : Mine(e)' <=> Mine(e)
    BY DEF Mine
  <2>6. s = traversals'[Predicted] /\ Mine(s) /\ s.visible = Visible
    BY <1>0, <1>1, <1>2 DEF Mine, s
  <2>7. known.stun = "completed" => Answered(known.asked)
    BY <1>1, <2>2 DEF Serving
  <2>8. Serving(s)
    <3>1. CASE Predicted \in DOMAIN traversals /\ Mine(traversals[Predicted])
      BY <1>1, <1>2, <1>3, <2>1, <2>2, <2>6, <3>1 DEF Serving
    <3>2. CASE ~(Predicted \in DOMAIN traversals /\ Mine(traversals[Predicted]))
      BY <1>1, <1>2, <2>1, <2>2, <2>6, <3>2 DEF Serving
    <3>. QED  BY <3>1, <3>2
  <2>9. \A a \in DOMAIN traversals' :
          Mine(traversals'[a]) => a = Predicted /\ Serving(traversals'[a])
    BY <1>0, <1>2, <2>2, <2>6, <2>8
  <2>10. \A e \in net' : e.what = "result" /\ Mine(e) => e.to = Visible /\ Answered(e.port)
    <3>1. \A e \in net' : e \in net \/ (known.stun = "completed" /\ e = Result(s))
      BY <1>2, <1>3, <2>1
    <3>. QED  BY <1>4, <2>2, <2>7, <3>1
  <2>11. \/ s.stun = "launched"
         \/ /\ s.stun = "sent"
            /\ [what |-> "server_stun", address |-> Predicted, port |-> s.asked] \in net'
         \/ \E e \in net' : e.what = "result" /\ Mine(e)
    <3>1. CASE known.stun \in {"none", "launched"}
      BY <1>2, <2>1, <3>1
    <3>2. CASE known.stun = "completed"
      BY <1>0, <1>1, <1>2, <1>4, <2>1, <3>2 DEF Mine
    <3>3. CASE known.stun = "sent"
      <4>1. /\ s.stun = "sent" /\ s.asked = known.asked
            /\ \/ [what |-> "server_stun", address |-> Predicted, port |-> known.asked] \in net
               \/ \E e \in net : e.what = "result" /\ Mine(e)
        BY <1>1, <1>2, <2>1, <2>2, <3>3
      <4>2. [what |-> "server_stun", address |-> Predicted, port |-> known.asked].what = "server_stun"
        OBVIOUS
      <4>3. \A e \in net : e.what # "step" => e \in net'
        BY <1>8
      <4>. QED  BY <4>1, <4>2, <4>3
    <3>. QED  BY <1>3, <3>1, <3>2, <3>3
  <2>12. /\ client.guid = 1 => DOMAIN traversals' \subseteq {Predicted}
         /\ Predicted \in DOMAIN traversals'
    BY <1>0, <1>2, <2>2
  <2>13. LetsIn(nats.client, Visible, Master)'
    BY <1>2, <1>7, <2>2 DEF LetsIn
  <2>. QED  BY <1>7, <2>2, <2>3, <2>4, <2>5, <2>6, <2>9, <2>10, <2>11, <2>12, <2>13 DEF Asking
<1>12. Traversing'
  <2>1. \A e \in net : e.what # "step" => e \in net'
    BY <1>8
  <2>2. ASSUME client.state = "TRAVERSING", d.type = "PINGBACK"
        PROVE  Success \in net'
    <3>1. nats'.server.map[k] = Answering /\ k = Key(types.server, AtClient(Predicted))
      <4>1. CASE Symmetric(types.server)
        <5>1. Answered(client.server_port)
          BY <2>2, <4>1 DEF Course, Told
        <5>2. /\ client.server_port # 0 /\ client.server_port \in Nat
              /\ k \in DOMAIN nats.server.map
              /\ nats.server.map[k] = client.server_port + 1
          BY <1>0, <5>1 DEF Answered, Reached, k, Timed, IInv, TypeOK, Client
        <5>. QED  BY <1>0, <1>2, <5>2 DEF Answering, Ages, k
      <4>2. CASE ~Symmetric(types.server)
        <5>1. client.server_port = 0 /\ k = Key(types.server, Master)
          BY <4>2 DEF Symmetric, Course, Opening, k, Key, Conic
        <5>2. Answering = nats.server.map[k] /\ k \in DOMAIN nats.server.map
          BY <5>1 DEF Answering, Traversed, PortTo, Timed, IInv, Listed
        <5>. QED  BY <1>0, <1>2, <5>2 DEF Ages, k
      <4>. QED  BY <4>1, <4>2
    <3>2. known.guid = client.guid
      BY <1>0, <1>1 DEF Mine
    <3>. QED  BY <1>0, <1>2, <2>2, <3>1, <3>2 DEF Success
  <2>3. Success.what = "success"
    BY DEF Success
  <2>4. LetsIn(nats.client, Predicted, AtServer(Answering))' <=>
          LetsIn(nats.client, Predicted, AtServer(Answering))
    BY <1>2, <1>7 DEF LetsIn
  <2>. QED  BY <1>7, <1>8, <2>1, <2>2, <2>3, <2>4 DEF Course, Traversing
<1>. QED  BY <1>9, <1>10, <1>11, <1>12 DEF Course

(* A STUN server has answered the server. *)
LEMMA ServerStunStaysOnTrack ==
  ASSUME Timed, Course, Undisturbed, NEW d \in net, d.what = "server_stun", NEW rest,
         rest \subseteq net, net \ {d} \subseteq rest,
         HandleServerStun(d, rest), UNCHANGED <<types, client>>
  PROVE  Course'
<1>1. /\ nats' = nats /\ DOMAIN traversals' = DOMAIN traversals /\ rest \subseteq net'
      /\ \A a \in DOMAIN traversals :
           \/ traversals'[a] = traversals[a]
           \/ /\ traversals[a].stun = "sent" /\ traversals[a].asked = d.port /\ a = d.address
              /\ traversals'[a] = [traversals[a] EXCEPT !.stun = "completed"]
              /\ Result(traversals'[a]) \in net'
      /\ \A a \in DOMAIN traversals :
           traversals[a].stun = "sent" /\ traversals[a].asked = d.port /\ a = d.address =>
             traversals'[a] = [traversals[a] EXCEPT !.stun = "completed"]
      /\ \A p \in net' : p \in rest \/ \E a \in DOMAIN traversals :
                                         /\ traversals'[a] # traversals[a]
                                         /\ p = Result(traversals'[a])
  BY StunnedAs DEF Timed
<1>2. \A a \in DOMAIN traversals :
        /\ traversals'[a].guid = traversals[a].guid /\ traversals'[a].asked = traversals[a].asked
        /\ traversals'[a].visible = traversals[a].visible
        /\ traversals'[a] # traversals[a] =>
             traversals[a].stun = "sent" /\ traversals'[a].stun = "completed"
  <2>1. \A a \in DOMAIN traversals : traversals[a] \in Session
    BY DEF Timed, IInv, TypeOK
  <2>2. \A s \in Session :
          LET c == [s EXCEPT !.stun = "completed"]
          IN  /\ c.guid = s.guid /\ c.asked = s.asked /\ c.visible = s.visible
              /\ c.stun = "completed"
    BY DEF Session
  <2>. SUFFICES ASSUME NEW a \in DOMAIN traversals
                PROVE  /\ traversals'[a].guid = traversals[a].guid
                       /\ traversals'[a].asked = traversals[a].asked
                       /\ traversals'[a].visible = traversals[a].visible
                       /\ traversals'[a] # traversals[a] =>
                            traversals[a].stun = "sent" /\ traversals'[a].stun = "completed"
    OBVIOUS
  <2>3. CASE traversals'[a] # traversals[a]
    <3>1. /\ traversals[a].stun = "sent"
          /\ traversals'[a] = [traversals[a] EXCEPT !.stun = "completed"]
      BY <1>1, <2>3
    <3>. QED  BY <2>1, <2>2, <3>1
  <2>. QED  BY <2>3
<1>3. \A session : /\ Result(session).what = "result" /\ Result(session).guid = session.guid
                   /\ Result(session).to = session.visible /\ Result(session).port = session.asked
  BY DEF Result
<1>4. /\ \A e \in net' : e.what = "step" => e \in net
      /\ \A e \in net : e # d => e \in net'
  BY <1>1, <1>3
<1>5. /\ Registered' <=> Registered
      /\ Visible' = Visible /\ Predicted' = Predicted /\ Answering' = Answering
      /\ Success' = Success
      /\ \A port : ReadyAt(port)' <=> ReadyAt(port)
      /\ Quiet' <=> Quiet
      /\ Ages(nats.server, nats'.server)
  <2>1. Ages(nats.server, nats'.server)
    BY <1>1, Numbers DEF Ages, Grows, Timed
  <2>. QED  BY <1>1, <2>1, ClientStays
<1>6. Opening' /\ Telling' /\ Told'
  BY <1>1, <1>4, <1>5, CourseStays DEF Course
<1>7. /\ Reached(Predicted)' <=> Reached(Predicted)
      /\ \A port : Answered(port)' <=> Answered(port)
      /\ \A e : Mine(e)' <=> Mine(e)
  BY <1>1, <1>5 DEF Answered, Reached, Mine
<1>8. Unasked'
  <2>. SUFFICES ASSUME Quiet, Symmetric(types.server) PROVE Unasked'
    BY <1>5 DEF Unasked
  <2>1. /\ \A e \in net : e.what # "step" /\ (e.what = "result" => ~Mine(e))
        /\ \A a \in DOMAIN traversals : ~Mine(traversals[a])
        /\ client.guid = 1 =>
             DOMAIN traversals = {} /\ DOMAIN nats.server.map = {Key(types.server, Master)}
        /\ client.guid # 1 /\ Registered =>
             Predicted \notin DOMAIN traversals /\ ~Reached(Predicted)
    BY DEF Course, Unasked
  <2>2. \A a \in DOMAIN traversals : ~Mine(traversals'[a])
    BY <1>2, <2>1 DEF Mine
  <2>3. \A e \in net' : e.what # "step" /\ (e.what = "result" => ~Mine(e))
    <3>. SUFFICES ASSUME NEW e \in net' PROVE e.what # "step" /\ (e.what = "result" => ~Mine(e))
      OBVIOUS
    <3>1. e \in net \/ \E a \in DOMAIN traversals : e = Result(traversals'[a])
      BY <1>1
    <3>. QED  BY <1>3, <2>1, <2>2, <3>1 DEF Mine
  <2>. QED  BY <1>1, <1>5, <1>7, <2>1, <2>2, <2>3 DEF Unasked
<1>9. Asking'
  <2>. SUFFICES ASSUME client.state = "REQUESTING_REMOTE_PORT_INFO", ~client.due
                PROVE  Asking'
    BY DEF Asking
  <2>1. /\ Registered /\ LetsIn(nats.client, Visible, Master)
        /\ client.guid = 1 => DOMAIN traversals \subseteq {Predicted}
        /\ \A a \in DOMAIN traversals :
             Mine(traversals[a]) => a = Predicted /\ Serving(traversals[a])
        /\ \A e \in net : e.what = "result" /\ Mine(e) => e.to = Visible /\ Answered(e.port)
        /\ \/ /\ \E e \in net : e.what = "step"
              /\ Predicted \notin DOMAIN traversals /\ ~Reached(Predicted)
           \/ /\ Predicted \in DOMAIN traversals /\ Mine(traversals[Predicted])
              /\ \/ traversals[Predicted].stun = "launched"
                 \/ /\ traversals[Predicted].stun = "sent"
                    /\ [what |-> "server_stun", address |-> Predicted,
                        port |-> traversals[Predicted].asked] \in net
                 \/ \E e \in net : e.what = "result" /\ Mine(e)
    BY DEF Course, Asking
  <2>2. \A session : Serving(session)' <=> Serving(session)
    BY <1>5, <1>7 DEF Serving
  <2>3. \A a \in DOMAIN traversals :
          Mine(traversals'[a]) => a = Predicted /\ Serving(traversals'[a])
    <3>. SUFFICES ASSUME NEW a \in DOMAIN traversals, Mine(traversals'[a])
                  PROVE  a = Predicted /\ Serving(traversals'[a])
      OBVIOUS
    <3>1. a = Predicted /\ Serving(traversals[a])
      BY <1>2, <2>1 DEF Mine
    <3>. QED  BY <1>2, <3>1 DEF Serving
  <2>4. \A e \in net' : e.what = "result" /\ Mine(e) => e.to = Visible /\ Answered(e.port)
    <3>. SUFFICES ASSUME NEW e \in net', e.what = "result", Mine(e)
                  PROVE  e.to = Visible /\ Answered(e.port)
      OBVIOUS
    <3>1. CASE e \in rest
      BY <2>1, <3>1
    <3>2. CASE e \notin rest
      <4>1. PICK a \in DOMAIN traversals : traversals'[a] # traversals[a] /\ e = Result(traversals'[a])
        BY <1>1, <3>2
      <4>2. Serving(traversals'[a]) /\ traversals'[a].stun = "completed"
        BY <1>2, <1>3, <2>3, <4>1 DEF Mine
      <4>. QED  BY <1>3, <4>1, <4>2 DEF Serving
    <3>. QED  BY <3>1, <3>2
  <2>5. (\E e \in net : e.what = "step") => \E e \in net' : e.what = "step"
    BY <1>4
  <2>6. ASSUME Predicted \in DOMAIN traversals, Mine(traversals[Predicted])
        PROVE  \/ traversals'[Predicted].stun = "launched"
               \/ /\ traversals'[Predicted].stun = "sent"
                  /\ [what |-> "server_stun", address |-> Predicted,
                      port |-> traversals'[Predicted].asked] \in net'
               \/ \E e \in net' : e.what = "result" /\ Mine(e)
    <3>1. CASE traversals'[Predicted] # traversals[Predicted]
      <4>1. Result(traversals'[Predicted]) \in net'
        BY <1>1, <2>6, <3>1
      <4>. QED  BY <1>2, <1>3, <2>6, <4>1 DEF Mine
    <3>2. CASE traversals'[Predicted] = traversals[Predicted]
      <4>. DEFINE request == [what |-> "server_stun", address |-> Predicted,
                              port |-> traversals[Predicted].asked]
      <4>1. /\ request.what = "server_stun" /\ request.address = Predicted
            /\ request.port = traversals[Predicted].asked
        OBVIOUS
      <4>2. \/ traversals[Predicted].stun = "launched"
            \/ traversals[Predicted].stun = "sent" /\ request \in net
            \/ \E e \in net : e.what = "result" /\ Mine(e)
        BY <2>1, <2>6
      <4>. HIDE DEF request
      <4>3. traversals[Predicted].stun = "sent" => request # d
        <5>. SUFFICES ASSUME traversals[Predicted].stun = "sent", request = d PROVE FALSE
          OBVIOUS
        <5>1. traversals'[Predicted] = [traversals[Predicted] EXCEPT !.stun = "completed"]
          BY <1>1, <2>6, <4>1
        <5>2. traversals[Predicted] \in Session
          <6>1. \A a \in DOMAIN traversals : traversals[a] \in Session
            BY DEF Timed, IInv, TypeOK
          <6>. QED  BY <2>6, <6>1
        <5>3. traversals'[Predicted].stun = "completed"
          BY <5>1, <5>2 DEF Session
        <5>. QED  BY <3>2, <5>3
      <4>4. \A e \in net : e.what = "result" => e \in net'
        BY <1>4
      <4>5. \/ traversals[Predicted].stun = "launched"
            \/ traversals[Predicted].stun = "sent" /\ request \in net'
            \/ \E e \in net' : e.what = "result" /\ Mine(e)
        BY <1>4, <4>2, <4>3, <4>4
      <4>. QED  BY <3>2, <4>5 DEF request
    <3>. QED  BY <3>1, <3>2
  <2>7. LetsIn(nats.client, Visible, Master)'
    BY <1>1, <1>5, <2>1
  <2>8. Predicted \in DOMAIN traversals /\ Mine(traversals[Predicted]) => Mine(traversals'[Predicted])
    BY <1>2 DEF Mine
  <2>9. \/ /\ \E e \in net' : e.what = "step"
           /\ Predicted \notin DOMAIN traversals /\ ~Reached(Predicted)
        \/ /\ Predicted \in DOMAIN traversals /\ Mine(traversals'[Predicted])
           /\ \/ traversals'[Predicted].stun = "launched"
              \/ /\ traversals'[Predicted].stun = "sent"
                 /\ [what |-> "server_stun", address |-> Predicted,
                     port |-> traversals'[Predicted].asked] \in net'
              \/ \E e \in net' : e.what = "result" /\ Mine(e)
    BY <2>1, <2>5, <2>6, <2>8
  <2>10. DOMAIN traversals' = DOMAIN traversals
    BY <1>1
  <2>11. \A a \in DOMAIN traversals' :
           Mine(traversals[a])' => a = Predicted' /\ Serving(traversals[a])'
    BY <1>5, <1>7, <2>2, <2>3, <2>10
  <2>12. \A e \in net' : e.what = "result" /\ Mine(e)' => e.to = Visible' /\ Answered(e.port)'
    BY <1>5, <1>7, <2>4
  <2>13. \/ /\ \E e \in net' : e.what = "step"
            /\ Predicted' \notin DOMAIN traversals' /\ ~Reached(Predicted)'
         \/ /\ Predicted' \in DOMAIN traversals' /\ Mine(traversals[Predicted])'
            /\ \/ traversals'[Predicted'].stun = "launched"
               \/ /\ traversals'[Predicted'].stun = "sent"
                  /\ [what |-> "server_stun", address |-> Predicted',
                      port |-> traversals'[Predicted'].asked] \in net'
               \/ \E e \in net' : e.what = "result" /\ Mine(e)'
    BY <1>5, <1>7, <2>9, <2>10
  <2>14. client'.guid = 1 => DOMAIN traversals' \subseteq {Predicted'}
    BY <1>5, <2>1, <2>10
  <2>. QED  BY <1>5, <2>1, <2>7, <2>11, <2>12, <2>13, <2>14 DEF Asking
<1>10. Traversing'
  <2>1. Success.what = "success" /\ \A e \in net : e.what # "server_stun" => e \in net'
    BY <1>4 DEF Success
  <2>2. LetsIn(nats.client, Predicted, AtServer(Answering))' <=>
          LetsIn(nats.client, Predicted, AtServer(Answering))
    BY <1>1, <1>5
  <2>. QED  BY <1>5, <2>1, <2>2 DEF Course, Traversing
<1>. QED  BY <1>6, <1>8, <1>9, <1>10 DEF Course

(* The server asks a STUN server, with its pings right behind it. *)
LEMMA AnswerStaysOnTrack ==
  ASSUME Timed, Course, Undisturbed, NEW address \in DOMAIN traversals, Answer(address)
  PROVE  Course'
<1>. DEFINE k       == Key(types.server, AtClient(address))
            session == traversals[address]
            request == [what |-> "server_stun", address |-> address, port |-> nats.server.next]
<1>0. /\ nats.server.next \in Nat /\ nats.server.next >= 1 /\ address \in Nat
      /\ types.server \in Types
      /\ request.what = "server_stun"
  BY Numbers DEF Timed, Dated, IInv, TypeOK
<1>1. /\ session.stun = "launched" /\ UNCHANGED <<types, client>>
      /\ nats'.client = nats.client /\ nats'.server \in NatOf(types.server)
      /\ Ages(nats.server, nats'.server)
      /\ DOMAIN traversals' = DOMAIN traversals
      /\ \A a \in DOMAIN traversals : a # address => traversals'[a] = traversals[a]
      /\ traversals'[address].guid = session.guid
      /\ traversals'[address].visible = session.visible
      /\ traversals'[address].stun = "sent"
      /\ traversals'[address].asked = nats.server.next
      /\ net \subseteq net' /\ request \in net'
      /\ net' \subseteq net \cup {request} \cup Successes(session.guid)
      /\ ~session.holes_opened /\ k \notin DOMAIN nats.server.map =>
           k \in DOMAIN nats'.server.map /\ nats'.server.map[k] = nats.server.next + 1
      /\ ~session.multiple => DOMAIN nats'.server.map \subseteq DOMAIN nats.server.map \cup {k}
  <2>1. AsksFrom(address, k, session, request)
    BY AnswersAs DEF Timed
  <2>. HIDE DEF k, session, request
  <2>. QED  BY <2>1 DEF AsksFrom
<1>. HIDE DEF k, request
<1>2. \A e \in net' : e.what \in {"step", "result", "client_stun"} => e \in net
  BY <1>0, <1>1 DEF Successes
<1>3. /\ Registered' <=> Registered
      /\ Visible' = Visible /\ Predicted' = Predicted /\ Answering' = Answering
      /\ Success' = Success
      /\ Quiet' <=> Quiet
      /\ \A port : ReadyAt(port)' <=> ReadyAt(port)
      /\ \A port : Answered(port) => Answered(port)'
      /\ Reached(Predicted) => Reached(Predicted)'
  BY <1>1, ClientStays
<1>4. Opening' /\ Telling' /\ Told'
  BY <1>1, <1>2, CourseStays DEF Course
<1>5. \A a \in DOMAIN traversals : traversals'[a].guid = traversals[a].guid
  BY <1>1
<1>6. ASSUME Exact, address # Predicted, Registered
      PROVE  Reached(Predicted)' <=> Reached(Predicted)
  <2>1. ~session.multiple
    BY <1>6 DEF Timed, Foreseen
  <2>2. Predicted = Visible /\ Visible \in Nat
    BY <1>6 DEF Exact, Conic, Predicted, Registered, Visible, PortTo, Timed, IInv, TypeOK, NatOf, NatState
  <2>3. Key(types.server, AtClient(Predicted)) = AtClient(Predicted) /\ k = AtClient(address)
    BY <1>6 DEF Exact, Key, k
  <2>4. AtClient(Predicted) # AtClient(address)
    BY <1>6 DEF AtClient
  <2>. QED  BY <1>1, <1>3, <2>1, <2>3, <2>4 DEF Reached
<1>7. Symmetric(types.server) /\ client.guid # 1 => Exact
  BY DEF Undisturbed, Retryable, Exact, Conic, Symmetric
<1>8. Unasked'
  <2>. SUFFICES ASSUME Quiet, Symmetric(types.server) PROVE Unasked'
    BY <1>1, <1>3 DEF Unasked
  <2>1. /\ \A e \in net : e.what # "step" /\ (e.what = "result" => ~Mine(e))
        /\ \A a \in DOMAIN traversals : ~Mine(traversals[a])
        /\ client.guid = 1 => DOMAIN traversals = {}
        /\ client.guid # 1 /\ Registered =>
             Predicted \notin DOMAIN traversals /\ ~Reached(Predicted)
    BY DEF Course, Unasked
  <2>2. Registered => ~Reached(Predicted)'
    BY <1>6, <1>7, <2>1
  <2>3. \A a \in DOMAIN traversals : ~Mine(traversals'[a])
    BY <1>5, <2>1 DEF Mine
  <2>. QED  BY <1>1, <1>2, <1>3, <2>1, <2>2, <2>3 DEF Unasked, Mine
<1>9. Asking'
  <2>. SUFFICES ASSUME client.state = "REQUESTING_REMOTE_PORT_INFO", ~client.due
                PROVE  Asking'
    BY <1>1 DEF Asking
  <2>0. Symmetric(types.server)
    BY DEF Course, Opening
  <2>1. /\ Registered /\ LetsIn(nats.client, Visible, Master)
        /\ client.guid = 1 => DOMAIN traversals \subseteq {Predicted}
        /\ \A a \in DOMAIN traversals :
             Mine(traversals[a]) => a = Predicted /\ Serving(traversals[a])
        /\ \A e \in net : e.what = "result" /\ Mine(e) => e.to = Visible /\ Answered(e.port)
        /\ \/ /\ \E e \in net : e.what = "step"
              /\ Predicted \notin DOMAIN traversals /\ ~Reached(Predicted)
           \/ /\ Predicted \in DOMAIN traversals /\ Mine(traversals[Predicted])
              /\ \/ traversals[Predicted].stun = "launched"
                 \/ /\ traversals[Predicted].stun = "sent"
                    /\ [what |-> "server_stun", address |-> Predicted,
                        port |-> traversals[Predicted].asked] \in net
                 \/ \E e \in net : e.what = "result" /\ Mine(e)
    BY DEF Course, Asking
  <2>2. \A e \in net' : e.what = "result" /\ Mine(e) => e.to = Visible /\ Answered(e.port)'
    BY <1>2, <1>3, <2>1
  <2>3. LetsIn(nats.client, Visible, Master)'
    BY <1>1, <1>3, <2>1 DEF LetsIn
  <2>4. \A e : Mine(e)' <=> Mine(e)
    BY <1>1 DEF Mine
  <2>5. CASE address = Predicted
    <3>1. Mine(session) /\ Serving(session)
      BY <2>1, <2>5
    <3>2. ~session.holes_opened /\ ~Reached(Predicted) /\ session.visible = Visible
      BY <1>1, <3>1 DEF Serving
    <3>3. Answered(traversals[address].asked)'
      BY <1>0, <1>1, <1>3, <2>5, <3>2 DEF Answered, Reached, k
    <3>4. \A a \in DOMAIN traversals :
            Mine(traversals'[a]) => a = Predicted /\ Serving(traversals[a])'
      <4>. SUFFICES ASSUME NEW a \in DOMAIN traversals, Mine(traversals'[a])
                    PROVE  a = Predicted /\ Serving(traversals[a])'
        OBVIOUS
      <4>1. a = Predicted
        BY <1>5, <2>1 DEF Mine
      <4>2. Answered(traversals[a].asked)'
        BY <1>1, <2>5, <3>3, <4>1
      <4>. QED  BY <1>1, <1>3, <2>5, <3>2, <4>1, <4>2 DEF Serving
    <3>5. Mine(traversals'[Predicted])
      BY <1>1, <2>5, <3>1 DEF Mine
    <3>6. [what |-> "server_stun", address |-> Predicted, port |-> traversals'[Predicted].asked] \in net'
      BY <1>1, <2>5 DEF request
    <3>. QED  BY <1>1, <1>3, <2>1, <2>2, <2>3, <2>4, <2>5, <3>4, <3>5, <3>6 DEF Asking
  <2>6. CASE address # Predicted
    <3>1. client.guid # 1 /\ Exact
      BY <1>7, <2>0, <2>1, <2>6
    <3>2. Reached(Predicted)' <=> Reached(Predicted)
      BY <1>6, <2>1, <2>6, <3>1
    <3>3. ASSUME NEW a \in DOMAIN traversals, Mine(traversals'[a])
          PROVE  a = Predicted /\ Serving(traversals[a])'
      <4>1. a = Predicted /\ Serving(traversals[a]) /\ traversals'[a] = traversals[a]
        BY <1>1, <1>5, <2>1, <2>6, <3>3 DEF Mine
      <4>. QED  BY <1>3, <3>2, <4>1 DEF Serving
    <3>4. Predicted \in DOMAIN traversals => traversals'[Predicted] = traversals[Predicted]
      BY <1>1, <2>6
    <3>5. \/ /\ \E e \in net' : e.what = "step"
             /\ Predicted \notin DOMAIN traversals' /\ ~Reached(Predicted)'
          \/ /\ Predicted \in DOMAIN traversals' /\ Mine(traversals'[Predicted])
             /\ \/ traversals'[Predicted].stun = "launched"
                \/ /\ traversals'[Predicted].stun = "sent"
                   /\ [what |-> "server_stun", address |-> Predicted,
                       port |-> traversals'[Predicted].asked] \in net'
                \/ \E e \in net' : e.what = "result" /\ Mine(e)
      BY <1>1, <2>1, <3>2, <3>4
    <3>. QED  BY <1>1, <1>3, <2>1, <2>2, <2>3, <2>4, <3>3, <3>5 DEF Asking
  <2>. QED  BY <2>5, <2>6
<1>10. Traversing'
  <2>1. LetsIn(nats.client, Predicted, AtServer(Answering))' <=>
          LetsIn(nats.client, Predicted, AtServer(Answering))
    BY <1>1, <1>3 DEF LetsIn
  <2>. QED  BY <1>1, <1>3, <2>1 DEF Course, Traversing
<1>. QED  BY <1>4, <1>8, <1>9, <1>10 DEF Course

(* A unit of time without a disturbance. *)
LEMMA TickStaysOnTrack ==
  ASSUME AttemptTimeout > 1, Timed, Course, Tick, Undisturbed'
  PROVE  Course'
<1>1. /\ ~Busy /\ UNCHANGED <<types, nats, net>>
      /\ client.state \notin {"TRAVERSAL_COMPLETE", "TIMED_OUT"}
      /\ client' = [Older(client) EXCEPT !.disturbed = @ \/ net # {}]
      /\ client \in Client /\ types.server \in Types
  BY DEF Tick, Timed, IInv, TypeOK
<1>2. net = {}
  <2>1. Older(client).disturbed = client.disturbed /\ client'.disturbed = (client.disturbed \/ net # {})
    BY <1>1 DEF Older, Restun, Client
  <2>. QED  BY <2>1 DEF Undisturbed
<1>3. client.stun # "launched"
  BY <1>1 DEF Busy
<1>4. client.state = "TRAVERSING"
  <2>1. client.state # "INIT"
    BY <1>1 DEF Busy, Course, Opening
  <2>2. client.state # "AWAITING_STUN_RESPONSE"
    BY <1>2, <1>3 DEF Course, Opening
  <2>3. client.state \notin {"CLIENT_STUN_REQUIREMENT_MET", "SERVER_STUN_REQUIREMENT_MET"}
    BY <1>1 DEF Busy, Course, Opening
  <2>4. client.state # "REQUESTING_REMOTE_PORT_INFO"
    <3>. SUFFICES ASSUME client.state = "REQUESTING_REMOTE_PORT_INFO" PROVE FALSE
      OBVIOUS
    <3>1. ~client.due
      BY <1>1 DEF Busy
    <3>2. Predicted \in DOMAIN traversals /\ traversals[Predicted].stun = "launched"
      BY <1>2, <3>1 DEF Course, Asking
    <3>. QED  BY <1>1, <3>2 DEF Busy
  <2>. QED  BY <1>1, <2>1, <2>2, <2>3, <2>4 DEF Client
<1>5. /\ client.stun = "none" /\ ~client.due /\ ReadyAt(client.stunned)
      /\ client.elapsed = 0 /\ Symmetric(types.server)
  BY <1>1, <1>2, <1>4 DEF Busy, Course, Opening, Traversing
<1>6. /\ client'.state = "TRAVERSING" /\ client'.stun = "none" /\ client'.due = TRUE
      /\ client'.elapsed = 1 /\ client'.guid = client.guid
      /\ client'.stunned = client.stunned /\ client'.server_port = client.server_port
  <2>. DEFINE o == [client EXCEPT !.elapsed = @ + 1, !.stun_age = @ + 1, !.due = TRUE]
  <2>1. /\ o \in Client /\ o.state = "TRAVERSING" /\ o.stun = "none" /\ o.due = TRUE
        /\ o.elapsed = 1 /\ o.guid = client.guid
        /\ o.stunned = client.stunned /\ o.server_port = client.server_port
    <3>1. /\ client \in Client /\ client.elapsed = 0 /\ client.stun_age \in Nat
          /\ client.state = "TRAVERSING" /\ client.stun = "none"
      BY <1>1, <1>4, <1>5 DEF Client
    <3>2. o = [client EXCEPT !.elapsed = 1, !.stun_age = client.stun_age + 1, !.due = TRUE]
      BY <3>1
    <3>. HIDE DEF o
    <3>3. o \in Client
      <4>. DEFINE timed == [client EXCEPT !.elapsed = 1]
                  aged  == [timed EXCEPT !.stun_age = client.stun_age + 1]
      <4>1. timed \in Client
        BY <3>1 DEF Client
      <4>2. o = [aged EXCEPT !.due = TRUE]
        BY <3>2
      <4>. HIDE DEF timed
      <4>3. aged \in Client
        BY <3>1, <4>1 DEF Client
      <4>. HIDE DEF aged
      <4>. QED  BY <4>2, <4>3 DEF Client
    <3>4. /\ o.state = client.state /\ o.stun = client.stun /\ o.due = TRUE
          /\ o.elapsed = 1 /\ o.guid = client.guid
          /\ o.stunned = client.stunned /\ o.server_port = client.server_port
      BY <3>1, <3>2 DEF Client
    <3>. QED  BY <3>1, <3>3, <3>4
  <2>. HIDE DEF o
  <2>2. o.elapsed # AttemptTimeout /\ o.stun # "sent"
    BY <2>1
  <2>3. Older(client) = o
    BY <2>2 DEF Older, o
  <2>. QED  BY <1>1, <2>1, <2>3 DEF Client
<1>7. /\ Registered' <=> Registered
      /\ Visible' = Visible /\ Predicted' = Predicted
      /\ ReadyAt(client.stunned)'
      /\ \A port : Answered(port)' <=> Answered(port)
  <2>1. (Registered' <=> Registered) /\ Visible' = Visible /\ Traversed' = Traversed
    BY <1>1 DEF Registered, Visible, Traversed
  <2>2. Predicted' = Predicted
    BY <1>1, <1>6, <2>1 DEF Predicted
  <2>. QED  BY <1>1, <1>5, <1>6, <2>1, <2>2 DEF ReadyAt, Answered, Reached
<1>8. Opening'
  BY <1>1, <1>5, <1>6 DEF Opening, Symmetric
<1>9. Telling'
  BY <1>1, <1>2 DEF Telling
<1>10. Unasked' /\ Asking'
  BY <1>6 DEF Unasked, Quiet, Asking
<1>11. Told'
  BY <1>1, <1>4, <1>6, <1>7 DEF Course, Told
<1>12. Traversing'
  BY <1>1, <1>5, <1>6, <1>7 DEF Traversing, Symmetric
<1>. QED  BY <1>8, <1>9, <1>10, <1>11, <1>12 DEF Course

(* The next attempt, if no packet of the last one can come between. *)
LEMMA NewAttemptStaysOnTrack ==
  ASSUME Timed, NextAttempt \/ \E fixed_port \in BOOLEAN : Abort(fixed_port), Undisturbed'
  PROVE  Course'
<1>. DEFINE fresh == NewSocket(nats.client)
            sent  == Through(types.client, fresh, Master)
            k     == Key(types.client, Master)
<1>0. /\ client.guid \in Nat /\ client.guid >= 1 /\ types \in [client : Types, server : Types]
      /\ nats.client \in NatOf(types.client)
      /\ nats.client.next \in Nat
  BY Numbers DEF Timed, Dated, IInv, TypeOK
<1>1. /\ UNCHANGED <<types, traversals, net>> /\ net = {}
      /\ client' = NewSession(client.guid + 1, FALSE)
      /\ nats'.server = nats.server /\ nats'.client \in {fresh, sent}
  <2>1. PICK disturbed \in BOOLEAN :
          /\ UNCHANGED <<types, traversals, net>>
          /\ client' = NewSession(client.guid + 1, disturbed)
          /\ ~disturbed => /\ net = {}
                           /\ \/ nats' = [nats EXCEPT !.client = fresh]
                              \/ nats' = [nats EXCEPT !.client = sent]
    BY DEF NextAttempt, Abort
  <2>2. ~disturbed
    BY <2>1 DEF NewSession, Undisturbed
  <2>. QED  BY <2>1, <2>2 DEF Timed, IInv, TypeOK
<1>2. /\ client'.state = "INIT" /\ client'.stun = "none" /\ client'.due = TRUE
      /\ client'.elapsed = 0 /\ client'.guid = client.guid + 1 /\ client'.server_port = 0
      /\ client'.stunned = 0
  BY <1>1 DEF NewSession
<1>3. client'.guid # 1 /\ Retryable
  <2>1. client'.guid # 1
    BY <1>0, <1>2
  <2>2. Retryable'
    BY <2>1 DEF Undisturbed
  <2>. QED  BY <1>1, <2>1, <2>2 DEF Retryable
<1>4. /\ fresh \in NatOf(types.client) /\ DOMAIN fresh.map = {} /\ fresh.next = nats.client.next
  <2>1. fresh.next = nats.client.next /\ fresh.map = Closed
    BY <1>0 DEF NewSocket, NatOf, NatState
  <2>. QED  BY <1>0, <2>1, NewSocketIsNat DEF Closed
<1>. HIDE DEF fresh
<1>5. DOMAIN sent.map = {k} /\ sent.map[k] = nats.client.next
  BY <1>0, <1>4, LeavesAs, Places DEF PortTo
<1>. HIDE DEF sent, k
<1>6. DOMAIN nats'.client.map \subseteq {k}
  BY <1>1, <1>4, <1>5
<1>7. Opening'
  BY <1>1, <1>2, <1>3, <1>6 DEF Opening, Virgin, Retryable, Symmetric, k
<1>8. Telling'
  BY <1>1 DEF Telling
<1>9. \A a \in DOMAIN traversals' : ~Mine(traversals[a])'
  <2>1. \A a \in DOMAIN traversals : traversals[a].guid \in Nat /\ traversals[a].guid <= client.guid
    BY Numbers DEF Timed, Dated
  <2>2. \A a \in DOMAIN traversals : traversals[a].guid # client.guid + 1
    BY <1>0, <2>1
  <2>. QED  BY <1>1, <1>2, <2>2 DEF Mine
<1>10. Unasked'
  <2>. SUFFICES ASSUME Symmetric(types.server), Registered'
                PROVE  Predicted' \notin DOMAIN traversals /\ ~Reached(Predicted)'
    BY <1>1, <1>3, <1>9 DEF Unasked
  <2>1. Exact
    BY <1>3 DEF Retryable, Exact, Conic, Symmetric
  <2>2. nats'.client = sent
    BY <1>1, <1>4 DEF Registered
  <2>3. Predicted' = nats.client.next
    BY <1>1, <1>5, <2>1, <2>2 DEF Predicted, Visible, PortTo, Exact, Conic, k
  <2>4. Key(types.server, AtClient(nats.client.next)) = AtClient(nats.client.next)
    BY <2>1 DEF Exact, Key
  <2>. QED  BY <1>0, <1>1, <2>1, <2>3, <2>4 DEF Timed, Foreseen, Reached
<1>11. Asking' /\ Told' /\ Traversing'
  BY <1>2 DEF Asking, Told, Traversing
<1>. QED  BY <1>7, <1>8, <1>10, <1>11 DEF Course

(* Who has been undisturbed is so from the start of the attempt. *)
LEMMA WasUndisturbed ==
  ASSUME Timed, Undisturbed',
         \/ Advance \/ Tick \/ UNCHANGED vars
         \/ \E a \in DOMAIN traversals : Answer(a)
         \/ \E d \in net, again \in BOOLEAN : Receive(d, again)
  PROVE  Undisturbed
<1>0. client \in Client
  BY DEF Timed, IInv, TypeOK
<1>. SUFFICES /\ types' = types /\ client'.guid = client.guid
              /\ client.disturbed => client'.disturbed
              /\ client.state = "TRAVERSAL_COMPLETE" => client'.state = "TRAVERSAL_COMPLETE"
  BY DEF Undisturbed, Retryable
<1>1. CASE Advance
  <2>1. types' = types
    BY <1>1 DEF Advance
  <2>2. CASE SendStunRequest
    BY <1>0, <2>1, <2>2 DEF SendStunRequest, Client
  <2>3. CASE Flow
    BY <1>0, <2>1, <2>3 DEF Flow, Restun, Client
  <2>4. CASE RequestRemotePortInfo
    BY <1>0, <2>1, <2>4 DEF RequestRemotePortInfo, Client
  <2>5. CASE Traverse
    BY <1>0, <2>1, <2>5 DEF Traverse, Client
  <2>. QED  BY <1>1, <2>2, <2>3, <2>4, <2>5 DEF Advance, ClientAdvance
<1>2. CASE Tick
  <2>1. /\ Older(client).disturbed = client.disturbed /\ Older(client).guid = client.guid
        /\ DOMAIN Older(client) = DOMAIN client
    BY <1>0 DEF Older, Restun, Client
  <2>. QED  BY <1>0, <1>2, <2>1 DEF Tick, Client
<1>3. CASE UNCHANGED vars
  BY <1>3 DEF vars
<1>4. CASE \E a \in DOMAIN traversals : Answer(a)
  BY <1>4 DEF Answer, SendServerStun
<1>5. CASE \E d \in net, again \in BOOLEAN : Receive(d, again)
  <2>1. types' = types /\ (client' = client \/ \E d \in net : client' = ClientReceives(d))
    BY <1>5 DEF Receive, ClientHandles
  <2>2. ASSUME NEW d \in net
        PROVE  LET c == ClientReceives(d)
               IN  /\ c.guid = client.guid /\ c.disturbed = client.disturbed
                   /\ client.state = "TRAVERSAL_COMPLETE" => c.state = "TRAVERSAL_COMPLETE"
    BY <1>0 DEF ClientReceives, Client
  <2>. QED  BY <2>1, <2>2
<1>. QED  BY <1>1, <1>2, <1>3, <1>4, <1>5

(* As long as nothing disturbs the attempt it is on track. *)
LEMMA StaysOnTrack ==
  ASSUME AttemptTimeout > 1, Timed, OnTrack, [Next]_vars
  PROVE  OnTrack'
<1>. SUFFICES ASSUME Undisturbed' PROVE Course'
  BY DEF OnTrack, Course
<1>0. Undisturbed => Course
  BY DEF OnTrack, Course
<1>1. CASE Advance
  <2>1. Undisturbed /\ Course /\ UNCHANGED <<types, traversals>>
    BY <1>0, <1>1, WasUndisturbed DEF Advance
  <2>. QED  BY <1>1, <2>1, SendStunRequestStaysOnTrack, FlowStaysOnTrack, RequestStaysOnTrack,
               TraverseStaysOnTrack DEF Advance, ClientAdvance
<1>2. CASE \E a \in DOMAIN traversals : Answer(a)
  BY <1>0, <1>2, WasUndisturbed, AnswerStaysOnTrack
<1>3. CASE \E d \in net : Lose(d)
  <2>1. client' = [client EXCEPT !.disturbed = TRUE] /\ client \in Client
    BY <1>3 DEF Lose, Timed, IInv, TypeOK
  <2>. QED  BY <2>1 DEF Undisturbed, Client
<1>4. CASE \E d \in net, again \in BOOLEAN : Receive(d, again)
  <2>1. PICK d \in net, again \in BOOLEAN : Receive(d, again)
    BY <1>4
  <2>. DEFINE rest == IF again THEN net ELSE net \ {d}
  <2>2. rest \subseteq net /\ net \ {d} \subseteq rest /\ types' = types
    BY <2>1 DEF Receive
  <2>3. \/ ClientHandles(d) /\ net' = rest
        \/ d.what = "step" /\ HandleStep(d, rest) /\ UNCHANGED client
        \/ d.what = "server_stun" /\ HandleServerStun(d, rest) /\ UNCHANGED client
    BY <2>1 DEF Receive
  <2>. HIDE DEF rest
  <2>4. Undisturbed /\ Course /\ client'.state # "TRAVERSAL_COMPLETE"
    BY <1>0, <1>4, WasUndisturbed DEF Undisturbed
  <2>. QED  BY <2>2, <2>3, <2>4, ClientHandlesStaysOnTrack, StepStaysOnTrack, ServerStunStaysOnTrack
<1>5. CASE Tick
  BY <1>0, <1>5, WasUndisturbed, TickStaysOnTrack
<1>6. CASE NextAttempt \/ \E fixed_port \in BOOLEAN : Abort(fixed_port)
  BY <1>6, NewAttemptStaysOnTrack
<1>7. CASE UNCHANGED vars
  <2>1. Course
    BY <1>0, <1>7, WasUndisturbed
  <2>2. /\ types' = types /\ client' = client /\ traversals' = traversals
        /\ nats' = nats /\ net' = net
    BY <1>7 DEF vars
  <2>. QED  BY <2>1, <2>2
         DEF Course, Opening, Telling, Unasked, Asking, Told, Traversing, Virgin, ReadyAt, Mine,
             Registered, Visible, Predicted, Answering, Traversed, Quiet, Reached, Answered,
             Serving, Success
<1>. QED  BY <1>1, <1>2, <1>3, <1>4, <1>5, <1>6, <1>7 DEF Next

(* The first attempt, before anything is sent. *)
LEMMA StartsOnTrack == Init => Timed /\ OnTrack
<1>. SUFFICES ASSUME Init PROVE Timed /\ OnTrack
  OBVIOUS
<1>. DEFINE c == Through(types.client, NoNat, Master)
            s == Through(types.server, NoNat, Master)
<1>0. /\ types.client \in Types /\ types.server \in Types /\ nats.client = c /\ nats.server = s
      /\ net = {} /\ DOMAIN traversals = {}
  BY DEF Init, Closed
<1>1. IInv
  BY Initially
<1>2. /\ client.state = "INIT" /\ client.stun = "none" /\ client.due = TRUE
      /\ client.guid = 1 /\ client.elapsed = 0 /\ client.server_port = 0
  BY DEF Init, NewSession
<1>3. \A t \in Types : NoNat \in NatOf(t) /\ NoNat.next = 1 /\ DOMAIN NoNat.map = {} /\ Young(NoNat)
  BY DEF NoNat, NatOf, NatState, Faithful, Closed, Young
<1>4. /\ DOMAIN c.map = {Key(types.client, Master)} /\ Young(c)
      /\ DOMAIN s.map = {Key(types.server, Master)} /\ s.next \in Nat /\ s.next >= 1
  <2>1. \A t \in Types : /\ Ages(NoNat, Through(t, NoNat, Master))
                         /\ DOMAIN Through(t, NoNat, Master).map = {Key(t, Master)}
                         /\ Through(t, NoNat, Master) \in NatOf(t)
    <3>. SUFFICES ASSUME NEW t \in Types
                  PROVE  /\ Ages(NoNat, Through(t, NoNat, Master))
                         /\ DOMAIN Through(t, NoNat, Master).map = {Key(t, Master)}
                         /\ Through(t, NoNat, Master) \in NatOf(t)
      OBVIOUS
    <3>1. NoNat \in NatOf(t) /\ DOMAIN NoNat.map = {} /\ Master \in Address
      BY <1>3, Places
    <3>. QED  BY <3>1, LeavesAs, Leaves
  <2>2. s.next \in Nat
    BY <1>0, <2>1 DEF NatOf, NatState
  <2>. QED  BY <1>0, <1>3, <2>1, <2>2 DEF Ages
<1>. HIDE DEF c, s
<1>5. Dated
  BY <1>0, <1>2, <1>4 DEF Dated
<1>6. Foreseen
  <2>1. Exact => \A p \in Nat : AtClient(p) # Key(types.server, Master)
    BY DEF Exact, Key, AtClient, Master
  <2>. QED  BY <1>0, <1>4, <2>1 DEF Foreseen
<1>7. Registered /\ Virgin
  BY <1>0, <1>4 DEF Registered, Virgin
<1>8. Opening
  BY <1>2, <1>7 DEF Opening
<1>9. Telling /\ Unasked /\ Asking /\ Told /\ Traversing
  BY <1>0, <1>2, <1>4 DEF Telling, Unasked, Asking, Told, Traversing
<1>. QED  BY <1>1, <1>5, <1>6, <1>8, <1>9 DEF Timed, OnTrack

(* An attempt times out only when a packet of it was lost or late: if it   *)
(* may take longer than the interval between two requests, the predictions *)
(* and the holes meet in the first attempt between any two NATs and in     *)
(* every later one of a pair that can be tried again. The client has time  *)
(* for one interval only, which it spends before its pings if the server   *)
(* is behind a symmetric NAT; nothing else it waits for takes time.        *)
THEOREM TimesOutOnlyForCause ==
  ASSUME AttemptTimeout > 1
  PROVE  Spec => []FailsOnlyForCause
<1>1. Init => Timed /\ OnTrack
  BY StartsOnTrack
<1>2. Timed /\ OnTrack /\ [Next]_vars => (Timed /\ OnTrack)'
  BY TimedInductive, StaysOnTrack
<1>3. Timed /\ OnTrack => FailsOnlyForCause
  <2>1. client.state = "TIMED_OUT" => client.state # "TRAVERSAL_COMPLETE"
    OBVIOUS
  <2>. QED  BY <2>1 DEF OnTrack, Undisturbed, Opening, FailsOnlyForCause
<1>. QED  BY <1>1, <1>2, <1>3, PTL DEF Spec

-----------------------------------------------------------------------------
(* The list of servers: the inductive invariant. *)
ListEntry == [beat : Beats, age : Nat]

IsList(list) ==
  /\ DOMAIN list \subseteq Servers
  /\ list = [s \in DOMAIN list |-> list[s]]
  /\ \A s \in DOMAIN list : list[s] \in ListEntry

IsMaster(m) ==
  /\ m = [state |-> m.state, list |-> m.list, served |-> m.served, dump |-> m.dump]
  /\ m.state \in {"up", "stopped", "crashed"}
  /\ IsList(m.list)

(* What is served is the list, also while the program does not run. *)
Serves(m) == m.served = Contents(m.list)

Server == [up : BOOLEAN, enabled : BOOLEAN, resolved : BOOLEAN, beat : Beats,
           since : 0..Never, told : BOOLEAN]

DumpOK(dump) ==
  dump # NoDump => /\ dump = <<dump[1]>>
                   /\ DOMAIN dump[1] \subseteq Servers
                   /\ \A s \in DOMAIN dump[1] : dump[1][s] \in Beats

ListTypeOK ==
  /\ servers \in [Servers -> Server]
  /\ datagrams \subseteq Datagrams
  /\ IsMaster(master)
  /\ DumpOK(master.dump)
  /\ happened \in Nat

(* A server that told the masterserver of itself knows the address it told *)
(* it under: a tick that requests another heartbeat also sends it.         *)
ToldIsResolved ==
  \A s \in Servers : servers[s].told => servers[s].resolved /\ servers[s].since # Never

StoppedIsDumped == master.state = "stopped" => master.dump = Dumped(master)

ListInv == ListTypeOK /\ Serves(master) /\ ToldIsResolved /\ StoppedIsDumped

-----------------------------------------------------------------------------
(* The operations of the masterserver on what it keeps. *)
Keeps(m, n) == IsMaster(n) /\ Serves(n) /\ n.state = m.state /\ n.dump = m.dump

(* reserialize_list() after the list became another one. *)
LEMMA Reserializes ==
  ASSUME NEW m, IsMaster(m), NEW list, IsList(list)
  PROVE  Keeps(m, Reserialized([m EXCEPT !.list = list]))
<1>. DEFINE n == [m EXCEPT !.list = list]
<1>1. n = [state |-> m.state, list |-> list, served |-> m.served, dump |-> m.dump]
  BY DEF IsMaster
<1>. HIDE DEF n
<1>2. Reserialized(n) = [state |-> m.state, list |-> list, served |-> Contents(list), dump |-> m.dump]
  BY <1>1 DEF Reserialized
<1>3. m.state \in {"up", "stopped", "crashed"}
  BY DEF IsMaster
<1>. HIDE DEF Reserialized
<1>4. Keeps(m, Reserialized(n))
  BY <1>2, <1>3 DEF Keeps, IsMaster, Serves
<1>. QED  BY <1>4 DEF n

(* A list less some entries is a list. *)
LEMMA ListPart ==
  ASSUME NEW list, IsList(list), NEW T \in SUBSET DOMAIN list
  PROVE  IsList([s \in T |-> list[s]])
BY DEF IsList

(* remove_from_list(): of a server that is in the list or is not. *)
LEMMA RemoveKeeps ==
  ASSUME NEW m, IsMaster(m), Serves(m), NEW s
  PROVE  Keeps(m, RemoveFromList(m, s))
<1>1. CASE s \in DOMAIN m.list
  <2>1. IsList([t \in DOMAIN m.list \ {s} |-> m.list[t]])
    BY ListPart DEF IsMaster
  <2>. QED  BY <1>1, <2>1, Reserializes DEF RemoveFromList
<1>2. CASE s \notin DOMAIN m.list
  BY <1>2 DEF RemoveFromList, Keeps
<1>. QED  BY <1>1, <1>2

(* The entries that timed out are erased, if there are any. *)
LEMMA EraseKeeps ==
  ASSUME NEW m, IsMaster(m), Serves(m)
  PROVE  Keeps(m, EraseDead(m))
<1>. DEFINE alive == {s \in DOMAIN m.list : m.list[s].age < Timeout}
<1>1. CASE alive = DOMAIN m.list
  BY <1>1 DEF EraseDead, Keeps
<1>2. CASE alive # DOMAIN m.list
  <2>1. IsList([s \in alive |-> m.list[s]])
    BY ListPart DEF IsMaster
  <2>. QED  BY <1>2, <2>1, Reserializes DEF EraseDead
<1>. QED  BY <1>1, <1>2

(* A heartbeat that says what the last one said changes the age alone,     *)
(* which is not served.                                                    *)
LEMMA HeartbeatKeeps ==
  ASSUME NEW m, IsMaster(m), Serves(m), NEW s \in Servers, NEW beat \in Beats
  PROVE  Keeps(m, Heartbeat(m, s, beat))
<1>. DEFINE list == Entered(m.list, s, beat)
<1>1. IsList(list)
  BY DEF Entered, IsMaster, IsList, ListEntry
<1>2. [m EXCEPT !.list = Entered(@, s, beat)] = [m EXCEPT !.list = list]
  BY DEF IsMaster
<1>3. CASE s \notin DOMAIN m.list \/ m.list[s].beat # beat
  BY <1>1, <1>2, <1>3, Reserializes DEF Heartbeat
<1>4. CASE s \in DOMAIN m.list /\ m.list[s].beat = beat
  <2>. DEFINE n == [m EXCEPT !.list = list]
  <2>1. Heartbeat(m, s, beat) = n
    BY <1>2, <1>4 DEF Heartbeat
  <2>2. n = [state |-> m.state, list |-> list, served |-> m.served, dump |-> m.dump]
    BY DEF IsMaster
  <2>3. Contents(list) = Contents(m.list)
    BY <1>4 DEF Contents, Entered
  <2>. HIDE DEF n, list
  <2>4. m.state \in {"up", "stopped", "crashed"} /\ m.served = Contents(m.list)
    BY DEF IsMaster, Serves
  <2>. QED  BY <1>1, <2>1, <2>2, <2>3, <2>4 DEF Keeps, IsMaster, Serves
<1>. QED  BY <1>3, <1>4

(* One datagram, and the time-outs after it. *)
LEMMA TurnKeeps ==
  ASSUME NEW m, IsMaster(m), Serves(m), NEW d \in Datagrams
  PROVE  Keeps(m, EraseDead(Handle(m, d)))
<1>1. Keeps(m, Handle(m, d))
  BY RemoveKeeps, HeartbeatKeeps DEF Handle, Datagrams
<1>. QED  BY <1>1, EraseKeeps DEF Keeps

(* What a dump holds is a list again, with the entries' ages forgotten. *)
LEMMA DumpIsList ==
  ASSUME NEW dump, DumpOK(dump)
  PROVE  /\ IsList(Loaded(dump))
         /\ dump # NoDump => Contents(Loaded(dump)) = [s \in DOMAIN dump[1] |-> dump[1][s]]
         /\ dump = NoDump => Contents(Loaded(dump)) = [s \in {} |-> Goodbye]
BY DEF DumpOK, Loaded, IsList, ListEntry, Contents, Nobody

-----------------------------------------------------------------------------
(* The game servers: what a tick makes of a server. *)
LEMMA TickTells ==
  ASSUME ServerListAssumption,
         NEW v \in Server, v.told => v.resolved /\ v.since # Never,
         NEW beat \in Beats, NEW ready \in BOOLEAN
  PROVE  LET done == Announce(v, beat, ready)
         IN  /\ done.value \in Server
             /\ done.value.told => done.value.resolved /\ done.value.since # Never
             /\ done.sends \subseteq Beats
<1>. DEFINE resolved == ResolveHost(ResolveInternal(v, beat), ready)
<1>0. HeartbeatEvery \in Nat /\ Never = HeartbeatEvery + 1 /\ Never \in 0..Never /\ 0 \in 0..Never
  BY DEF ServerListAssumption, Never
<1>1. /\ resolved \in Server
      /\ resolved.told = v.told
      /\ resolved.told => resolved.resolved
  BY <1>0 DEF ResolveHost, ResolveInternal, RequestImmediateHeartbeat, Server
<1>. HIDE DEF resolved
<1>2. CASE ItsTime(resolved)
  <2>1. Sent(resolved) \in Server /\ Sent(resolved).resolved /\ Sent(resolved).since = 0
    BY <1>0, <1>1, <1>2 DEF Sent, ItsTime, Server
  <2>2. Sends(resolved) \subseteq Beats
    BY <1>1, <1>2 DEF Sends, Server
  <2>. QED  BY <1>0, <2>1, <2>2 DEF Announce, resolved
<1>3. CASE ~ItsTime(resolved)
  BY <1>0, <1>1, <1>3 DEF Sent, Sends, ItsTime, HasSentAnyHeartbeats, Announce, resolved
<1>. QED  BY <1>2, <1>3

-----------------------------------------------------------------------------
(* Steps of the masterserver. While it is up, what it serves, and nothing  *)
(* else of the invariant, is at stake.                                     *)
LEMMA MasterTurns ==
  ASSUME ListInv, servers' = servers, datagrams' \subseteq Datagrams, happened' \in Nat,
         master.state = "up", Keeps(master, master')
  PROVE  ListInv'
BY DEF ListInv, ListTypeOK, Keeps, ToldIsResolved, StoppedIsDumped

(* Events are counted. *)
LEMMA EventsCount ==
  ASSUME happened \in Nat, Occurs \/ UNCHANGED happened
  PROVE  happened' \in Nat
BY DEF Occurs

(* The turns of the loop of perform_masterserver(). *)
LEMMA MasterReceives ==
  ASSUME ListInv, NEW d, NEW again \in BOOLEAN,
         ReceiveDatagram(d, again) \/ Idle \/ \E s \in Servers : ReceiveInvalid(s)
  PROVE  ListInv'
<1>1. CASE ReceiveDatagram(d, again)
  <2>1. d \in Datagrams /\ datagrams' \subseteq Datagrams
    BY <1>1 DEF ReceiveDatagram, ListInv, ListTypeOK
  <2>2. Keeps(master, master')
    BY <1>1, <2>1, TurnKeeps DEF ReceiveDatagram, ListInv, ListTypeOK
  <2>. QED  BY <1>1, <2>1, <2>2, MasterTurns DEF ReceiveDatagram, ListInv, ListTypeOK
<1>2. CASE Idle
  <2>1. Keeps(master, master')
    BY <1>2, EraseKeeps DEF Idle, ListInv, ListTypeOK
  <2>. QED  BY <1>2, <2>1, MasterTurns DEF Idle, ListInv, ListTypeOK
<1>3. ASSUME NEW s \in Servers, ReceiveInvalid(s) PROVE ListInv'
  <2>1. Keeps(master, RemoveFromList(master, s))
    BY RemoveKeeps DEF ListInv, ListTypeOK
  <2>2. Keeps(master, master')
    BY <1>3, <2>1, EraseKeeps DEF ReceiveInvalid, Keeps
  <2>. QED  BY <1>3, <2>2, MasterTurns, EventsCount DEF ReceiveInvalid, ListInv, ListTypeOK
<1>. QED  BY <1>1, <1>2, <1>3

(* A masterserver that starts, before it serializes what it has loaded. *)
LEMMA Started ==
  ASSUME NEW m, NEW list,
         m = [state |-> m.state, list |-> m.list, served |-> m.served, dump |-> m.dump]
  PROVE  [m EXCEPT !.state = "up", !.list = list]
           = [state |-> "up", list |-> list, served |-> m.served, dump |-> m.dump]
<1>. DEFINE u == [m EXCEPT !.state = "up"]
<1>1. u = [state |-> "up", list |-> m.list, served |-> m.served, dump |-> m.dump]
  OBVIOUS
<1>2. [m EXCEPT !.state = "up", !.list = list] = [u EXCEPT !.list = list]
  OBVIOUS
<1>. HIDE DEF u
<1>. QED  BY <1>1, <1>2

(* Stops, crashes and starts. *)
LEMMA StopsAndStarts ==
  ASSUME ListInv, StopMaster \/ CrashMaster \/ StartMaster
  PROVE  ListInv'
<1>. USE DEF ListInv, ListTypeOK
<1>0. master = [state |-> master.state, list |-> master.list,
                served |-> master.served, dump |-> master.dump]
  BY DEF IsMaster
<1>1. CASE StopMaster
  <2>1. master' = [state |-> "stopped", list |-> master.list,
                   served |-> master.served, dump |-> Dumped(master)]
    BY <1>0, <1>1 DEF StopMaster
  <2>2. DumpOK(Dumped(master))
    <3>1. CASE DOMAIN master.list = {}
      BY <3>1 DEF Dumped, DumpOK
    <3>2. CASE DOMAIN master.list # {}
      <4>1. /\ Dumped(master) = <<Contents(master.list)>>
            /\ DOMAIN Contents(master.list) = DOMAIN master.list
            /\ \A s \in DOMAIN master.list : Contents(master.list)[s] \in Beats
        BY <3>2 DEF Dumped, Serves, Contents, IsMaster, IsList, ListEntry
      <4>. QED  BY <4>1 DEF DumpOK, IsMaster, IsList
    <3>. QED  BY <3>1, <3>2
  <2>3. Dumped(master) = Dumped(master')
    BY <2>1 DEF Dumped
  <2>. QED  BY <1>1, <2>1, <2>2, <2>3, EventsCount
            DEF StopMaster, IsMaster, Serves, ToldIsResolved, StoppedIsDumped
<1>2. CASE CrashMaster
  <2>1. master' = [state |-> "crashed", list |-> master.list,
                   served |-> master.served, dump |-> master.dump]
    BY <1>0, <1>2 DEF CrashMaster
  <2>. QED  BY <1>2, <2>1, EventsCount
            DEF CrashMaster, IsMaster, Serves, ToldIsResolved, StoppedIsDumped
<1>3. CASE StartMaster
  <2>1. IsList(Loaded(master.dump))
    BY DumpIsList
  <2>. DEFINE n == [master EXCEPT !.state = "up", !.list = Loaded(master.dump)]
  <2>2. n = [state |-> "up", list |-> Loaded(master.dump),
             served |-> master.served, dump |-> master.dump]
    BY <1>0, Started
  <2>. HIDE DEF n
  <2>3. Reserialized(n) = [state |-> "up", list |-> Loaded(master.dump),
                           served |-> Contents(Loaded(master.dump)), dump |-> master.dump]
    BY <2>2 DEF Reserialized
  <2>4. master' = [state |-> "up", list |-> Loaded(master.dump),
                   served |-> Contents(Loaded(master.dump)), dump |-> master.dump]
    BY <1>3, <2>3 DEF StartMaster, n
  <2>. QED  BY <1>3, <2>1, <2>4
            DEF StartMaster, IsMaster, Serves, ToldIsResolved, StoppedIsDumped
<1>. QED  BY <1>1, <1>2, <1>3

(* Steps of one game server and of the network leave the masterserver      *)
(* alone.                                                                  *)
LEMMA ServerSteps ==
  ASSUME ListInv, UNCHANGED master, datagrams' \subseteq Datagrams, happened' \in Nat,
         NEW s \in Servers, NEW v \in Server, v.told => v.resolved /\ v.since # Never,
         servers' = [servers EXCEPT ![s] = v]
  PROVE  ListInv'
BY DEF ListInv, ListTypeOK, ToldIsResolved, StoppedIsDumped

(* A server that is down, or has just been started, told nobody anything. *)
LEMMA DownIsServer ==
  ASSUME ServerListAssumption
  PROVE  /\ Down \in Server /\ ~Down.told
         /\ \A b \in BOOLEAN : /\ [Down EXCEPT !.up = TRUE, !.enabled = b] \in Server
                               /\ ~[Down EXCEPT !.up = TRUE, !.enabled = b].told
<1>1. (CHOOSE b \in Beats : TRUE) \in Beats /\ Never \in 0..Never
  BY DEF ServerListAssumption, Never
<1>. QED  BY <1>1 DEF Down, Server

(* What a game server does, or is done to it. *)
LEMMA ServersAct ==
  ASSUME ServerListAssumption, ListInv, NEW s \in Servers, NEW b \in BOOLEAN, NEW beat \in Beats,
         \/ Shutdown(s) \/ CrashServer(s)
         \/ StartServer(s, b) \/ SetEnabled(s, b)
         \/ ChangeBeat(s, beat) \/ ServerTick(s, beat, b)
  PROVE  ListInv'
<1>. USE DEF ListInv, ListTypeOK
<1>1. CASE Shutdown(s) \/ CrashServer(s)
  <2>1. datagrams' \subseteq Datagrams
    BY <1>1 DEF Shutdown, CrashServer, Datagrams
  <2>2. servers' = [servers EXCEPT ![s] = Down] /\ UNCHANGED master /\ happened' \in Nat
    BY <1>1, EventsCount DEF Shutdown, CrashServer
  <2>. QED  BY <2>1, <2>2, DownIsServer, ServerSteps
<1>2. CASE StartServer(s, b)
  BY <1>2, DownIsServer, ServerSteps DEF StartServer
<1>3. CASE SetEnabled(s, b)
  <2>. DEFINE v == [servers[s] EXCEPT !.enabled = b]
  <2>1. v \in Server /\ (v.told => v.resolved /\ v.since # Never)
    BY DEF ToldIsResolved, Server
  <2>2. servers' = [servers EXCEPT ![s] = v]
    BY <1>3 DEF SetEnabled
  <2>. HIDE DEF v
  <2>. QED  BY <1>3, <2>1, <2>2, ServerSteps, EventsCount DEF SetEnabled
<1>4. CASE ChangeBeat(s, beat)
  <2>. DEFINE v == [servers[s] EXCEPT !.beat = beat]
  <2>1. v \in Server /\ (v.told => v.resolved /\ v.since # Never)
    BY DEF ToldIsResolved, Server
  <2>2. servers' = [servers EXCEPT ![s] = v]
    BY <1>4 DEF ChangeBeat
  <2>. HIDE DEF v
  <2>. QED  BY <1>4, <2>1, <2>2, ServerSteps, EventsCount DEF ChangeBeat
<1>5. CASE ServerTick(s, beat, b)
  <2>. DEFINE done == Announce(servers[s], beat, b)
  <2>1. /\ done.value \in Server
        /\ done.value.told => done.value.resolved /\ done.value.since # Never
        /\ done.sends \subseteq Beats
    BY TickTells DEF ToldIsResolved
  <2>2. /\ servers' = [servers EXCEPT ![s] = done.value]
        /\ datagrams' = datagrams \cup [from : {s}, what : done.sends]
        /\ UNCHANGED master
        /\ Occurs \/ UNCHANGED happened
    BY <1>5 DEF ServerTick
  <2>. HIDE DEF done
  <2>3. datagrams' \subseteq Datagrams
    BY <2>1, <2>2 DEF Datagrams
  <2>. QED  BY <2>1, <2>2, <2>3, ServerSteps, EventsCount
<1>. QED  BY <1>1, <1>2, <1>3, <1>4, <1>5

(* A datagram that is lost makes no difference to anybody. *)
LEMMA DatagramLost ==
  ASSUME ListInv, NEW d, LoseDatagram(d)
  PROVE  ListInv'
BY EventsCount DEF LoseDatagram, ListInv, ListTypeOK, ToldIsResolved, StoppedIsDumped

(* Entries that are older are the same servers. *)
LEMMA Aged ==
  ASSUME NEW m, IsMaster(m)
  PROVE  /\ [m EXCEPT !.list = OlderEntries(@)]
              = [state |-> m.state, list |-> OlderEntries(m.list), served |-> m.served, dump |-> m.dump]
         /\ IsList(OlderEntries(m.list)) /\ Contents(OlderEntries(m.list)) = Contents(m.list)
<1>1. IsList(OlderEntries(m.list)) /\ Contents(OlderEntries(m.list)) = Contents(m.list)
  BY DEF IsMaster, IsList, ListEntry, Contents, OlderEntries
<1>2. [m EXCEPT !.list = OlderEntries(@)] = [m EXCEPT !.list = OlderEntries(m.list)]
  OBVIOUS
<1>3. [m EXCEPT !.list = OlderEntries(m.list)]
        = [state |-> m.state, list |-> OlderEntries(m.list), served |-> m.served, dump |-> m.dump]
  BY DEF IsMaster
<1>. QED  BY <1>1, <1>2, <1>3

(* Time makes entries older, and the last heartbeats of the servers. *)
LEMMA TimeGoesOn ==
  ASSUME ServerListAssumption, ListInv, TimePasses
  PROVE  ListInv'
<1>. USE DEF ListInv, ListTypeOK
<1>1. servers' \in [Servers -> Server] /\ ToldIsResolved'
  <2>1. HeartbeatEvery \in Nat /\ Never = HeartbeatEvery + 1
    BY DEF ServerListAssumption, Never
  <2>2. ASSUME NEW s \in Servers
        PROVE  /\ servers'[s] \in Server
               /\ servers'[s].told => servers'[s].resolved /\ servers'[s].since # Never
    BY <2>1 DEF TimePasses, Server, ToldIsResolved
  <2>. QED  BY <2>2 DEF TimePasses, ToldIsResolved
<1>2. IsMaster(master') /\ Serves(master') /\ master'.dump = master.dump /\ master'.state = master.state
  <2>1. CASE master.state # "up"
    BY <2>1 DEF TimePasses
  <2>2. CASE master.state = "up"
    <3>1. master' = [state |-> master.state, list |-> OlderEntries(master.list),
                     served |-> master.served, dump |-> master.dump]
      BY <2>2, Aged DEF TimePasses
    <3>. QED  BY <3>1, Aged DEF IsMaster, Serves
  <2>. QED  BY <2>1, <2>2
<1>3. StoppedIsDumped'
  BY <1>2 DEF TimePasses, StoppedIsDumped
<1>. QED  BY <1>1, <1>2, <1>3, EventsCount DEF TimePasses

(* Every step keeps the invariant. *)
LEMMA ListInductive ==
  ASSUME ServerListAssumption, ListInv, [ListNext]_listVars
  PROVE  ListInv'
<1>1. CASE \E d \in datagrams : LoseDatagram(d) \/ \E again \in BOOLEAN : ReceiveDatagram(d, again)
  BY <1>1, DatagramLost, MasterReceives
<1>2. CASE Idle \/ \E s \in Servers : ReceiveInvalid(s)
  BY <1>2, MasterReceives
<1>3. CASE StopMaster \/ CrashMaster \/ StartMaster
  BY <1>3, StopsAndStarts
<1>4. CASE TimePasses
  BY <1>4, TimeGoesOn
<1>5. ASSUME NEW s \in Servers,
             \/ Shutdown(s) \/ CrashServer(s)
             \/ \E b \in BOOLEAN : StartServer(s, b) \/ SetEnabled(s, b)
             \/ \E beat \in Beats : ChangeBeat(s, beat) \/ \E b \in BOOLEAN : ServerTick(s, beat, b)
      PROVE  ListInv'
  <2>1. PICK beat \in Beats : TRUE
    BY DEF ServerListAssumption
  <2>. QED  BY <1>5, <2>1, ServersAct
<1>6. CASE UNCHANGED listVars
  BY <1>6 DEF listVars, ListInv, ListTypeOK, ToldIsResolved, StoppedIsDumped
<1>. QED  BY <1>1, <1>2, <1>3, <1>4, <1>5, <1>6 DEF ListNext

(* Nobody is listed, served or told at first. *)
LEMMA ListInitially ==
  ASSUME ServerListAssumption, ListInit
  PROVE  ListInv
<1>1. servers \in [Servers -> Server] /\ ToldIsResolved
  BY DownIsServer DEF ListInit, ToldIsResolved
<1>2. IsMaster(master) /\ Serves(master) /\ DumpOK(master.dump) /\ StoppedIsDumped
  BY DEF ListInit, IsMaster, IsList, Serves, Contents, Nobody, DumpOK, StoppedIsDumped
<1>. QED  BY <1>1, <1>2 DEF ListInit, ListInv, ListTypeOK, Datagrams

(* All of it, in every reachable state. *)
THEOREM ListInvariant == ListSpec => []ListInv
<1>1. ListInit => ListInv
  BY ListInitially, ServerListAssumption
<1>2. ListInv /\ [ListNext]_listVars => ListInv'
  BY ListInductive, ServerListAssumption
<1>. QED  BY <1>1, <1>2, PTL DEF ListSpec

(* Whatever datagram comes in whatever order, whichever entry times out    *)
(* and whenever the program is stopped, crashes and starts: the list that  *)
(* is served over HTTP is the list the masterserver keeps.                 *)
THEOREM ServesTheList == ListSpec => []ServedIsCurrent
<1>1. ListInv => ServedIsCurrent
  BY DEF ListInv, ServedIsCurrent, Serves
<1>. QED  BY <1>1, ListInvariant, PTL

(* No server that is in the list, or was told to it, is shut down without  *)
(* saying goodbye, for whichever reason its heartbeat was requested anew.  *)
THEOREM SaysGoodbye == ListSpec => []GoodbyeIfTold
<1>1. ListInv => GoodbyeIfTold
  BY DEF ListInv, ToldIsResolved, GoodbyeIfTold, HasSentAnyHeartbeats
<1>. QED  BY <1>1, ListInvariant, PTL

(* A masterserver that was stopped starts with the list it had then.       *)
THEOREM RestoresTheList == ListSpec => RestartKeepsList
<1>1. ASSUME ListInv, StartMaster, master.state = "stopped"
      PROVE  Contents(master.list') = Contents(master.list)
  <2>1. master'.list = Loaded(master.dump)
    BY <1>1 DEF StartMaster, Reserialized, ListInv, ListTypeOK, IsMaster
  <2>2. master.dump = IF DOMAIN master.list = {} THEN NoDump ELSE <<Contents(master.list)>>
    BY <1>1 DEF ListInv, StoppedIsDumped, Dumped, Serves
  <2>3. CASE DOMAIN master.list = {}
    BY <2>1, <2>2, <2>3, DumpIsList, <1>1 DEF ListInv, ListTypeOK, Contents
  <2>4. CASE DOMAIN master.list # {}
    <3>1. master.dump # NoDump /\ master.dump[1] = Contents(master.list)
      BY <2>2, <2>4 DEF NoDump
    <3>. QED  BY <1>1, <2>1, <3>1, DumpIsList DEF ListInv, ListTypeOK, Contents
  <2>. QED  BY <2>3, <2>4
<1>. QED  BY <1>1, ListInvariant, PTL DEF RestartKeepsList, ListSpec
=============================================================================
