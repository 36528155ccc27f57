----------------------------- MODULE ServerList -----------------------------
(***************************************************************************)
(* The list of servers: game servers announce themselves to the            *)
(* masterserver in heartbeats, say goodbye when they are shut down, and    *)
(* are forgotten when they fall silent. The masterserver serves a          *)
(* serialized copy of the list and carries the list over a restart in a    *)
(* dump file.                                                              *)
(*                                                                         *)
(* Everything goes over UDP: a datagram stays in `datagrams` until it was  *)
(* lost or received for the last time, so that it may be delayed,          *)
(* overtaken or delivered again; the four copies that the code sends of    *)
(* the first heartbeat and of a goodbye are one such datagram. Everything  *)
(* that can go wrong or be decided by people is counted: it happens at     *)
(* most MaxHappenings times. A unit of time is long for the programs: it   *)
(* passes only when whatever was due is done, and a datagram that outlives *)
(* it is an event.                                                         *)
(***************************************************************************)
EXTENDS Naturals, FiniteSets

CONSTANTS Servers,        \* addresses of game servers
          Beats,          \* contents of heartbeats
          HeartbeatEvery, \* send_heartbeat_to_server_list_once_every_secs
          Timeout,        \* server_entry_timeout_secs
          MaxHappenings   \* bound: losses, delays, crashes, stops and changes

ASSUME ServerListAssumption ==
  /\ Beats # {} /\ "goodbye" \notin Beats
  /\ HeartbeatEvery \in Nat \ {0} /\ Timeout \in Nat \ {0} /\ MaxHappenings \in Nat

VARIABLES servers,   \* server_setup, one for each address
          datagrams, \* on their way to the masterserver
          master,    \* the masterserver and its dump file
          happened   \* how often something did
listVars == <<servers, datagrams, master, happened>>

Never   == HeartbeatEvery + 1    \* when_last_sent_heartbeat_to_server_list = 0
Goodbye == "goodbye"
NoDump  == <<>>           \* there is no dump file, or else its content
Nobody  == [s \in {} |-> Goodbye]

Contents(list) == [s \in DOMAIN list |-> list[s].beat]
Occurs == happened < MaxHappenings /\ happened' = happened + 1

-----------------------------------------------------------------------------
(* The masterserver.                                                       *)

Reserialized(m) == [m EXCEPT !.served = Contents(m.list)]

RemoveFromList(m, s) ==
  IF s \in DOMAIN m.list
  THEN Reserialized([m EXCEPT !.list = [t \in DOMAIN @ \ {s} |-> @[t]]]) ELSE m

\* try_emplace(), and what every heartbeat renews.
Entered(list, s, beat) ==
  [t \in DOMAIN list \cup {s} |-> IF t = s THEN [beat |-> beat, age |-> 0] ELSE list[t]]

HeartbeatOfNew(m, s, beat) ==
  LET next == [m EXCEPT !.list = Entered(@, s, beat)]
  IN  IF s \notin DOMAIN m.list THEN Reserialized(next) ELSE next
HeartbeatOfChange(m, s, beat) ==
  IF s \notin DOMAIN m.list \/ m.list[s].beat # beat
  THEN Reserialized([m EXCEPT !.list = Entered(@, s, beat)]) ELSE m
Heartbeat(m, s, beat) ==
  LET next == [m EXCEPT !.list = Entered(@, s, beat)]
  IN  IF s \notin DOMAIN m.list \/ m.list[s].beat # beat THEN Reserialized(next) ELSE next

Handle(m, d) ==
  IF d.what = Goodbye THEN RemoveFromList(m, d.from) ELSE Heartbeat(m, d.from, d.what)

EraseDead(m) ==
  LET alive == {s \in DOMAIN m.list : m.list[s].age < Timeout}
  IN  IF alive = DOMAIN m.list THEN m
      ELSE Reserialized([m EXCEPT !.list = [s \in alive |-> @[s]]])

\* One turn of the loop, with a datagram that is delivered again or not.
ReceiveDatagram(d, again) ==
  /\ d \in datagrams /\ master.state = "up"
  /\ master' = EraseDead(Handle(master, d))
  /\ datagrams' = IF again THEN datagrams ELSE datagrams \ {d}
  /\ UNCHANGED <<servers, happened>>

Idle ==
  /\ master.state = "up"
  /\ master' = EraseDead(master)
  /\ UNCHANGED <<servers, datagrams, happened>>

\* Data that cannot be read, from the address of a server.
ReceiveInvalid(s) ==
  /\ master.state = "up" /\ s \in DOMAIN master.list /\ Occurs
  /\ master' = EraseDead(RemoveFromList(master, s))
  /\ UNCHANGED <<servers, datagrams>>

DumpUnlessEmpty(m) == IF DOMAIN m.list = {} THEN m.dump ELSE <<m.served>>
Dumped(m) == IF DOMAIN m.list = {} THEN NoDump ELSE <<m.served>>

\* SIGTERM: the list is dumped to a file. The list of a program that does not
\* run any more is kept in the model as what it was.
StopMaster ==
  /\ master.state = "up" /\ Occurs
  /\ master' = [master EXCEPT !.state = "stopped", !.dump = Dumped(master)]
  /\ UNCHANGED <<servers, datagrams>>

CrashMaster ==
  /\ master.state = "up" /\ Occurs
  /\ master' = [master EXCEPT !.state = "crashed"]
  /\ UNCHANGED <<servers, datagrams>>

Loaded(dump) == IF dump = NoDump THEN Nobody
                ELSE [s \in DOMAIN dump[1] |-> [beat |-> dump[1][s], age |-> 0]]

\* The dump file stays where it is.
StartMaster ==
  /\ master.state # "up"
  /\ master' = Reserialized([master EXCEPT !.state = "up", !.list = Loaded(master.dump)])
  /\ UNCHANGED <<servers, datagrams, happened>>

-----------------------------------------------------------------------------
(* The game servers.                                                       *)

HasSentAnyHeartbeats(v) == v.since # Never
RequestImmediateHeartbeat(v) == [v EXCEPT !.since = Never]

\* The address on the internal network is a part of the heartbeat.
ResolveInternal(v, beat) ==
  IF beat = v.beat THEN v ELSE RequestImmediateHeartbeat([v EXCEPT !.beat = beat])

ResolveHost(v, ready) ==
  IF ready /\ ~v.resolved THEN RequestImmediateHeartbeat([v EXCEPT !.resolved = TRUE]) ELSE v

ItsTime(v) == v.resolved /\ (~HasSentAnyHeartbeats(v) \/ v.since >= HeartbeatEvery)

Sends(v)  == IF ItsTime(v) THEN {v.beat} ELSE {}
Sent(v)   == IF ItsTime(v) THEN [v EXCEPT !.since = 0, !.told = TRUE] ELSE v

SendBeforeResolving(v, beat, ready) ==
  [value |-> ResolveHost(ResolveInternal(Sent(v), beat), ready), sends |-> Sends(v)]
Announce(v, beat, ready) ==
  LET resolved == ResolveHost(ResolveInternal(v, beat), ready)
  IN  [value |-> Sent(resolved), sends |-> Sends(resolved)]

ServerListEnabled(v) == v.up /\ v.enabled

ServerTick(s, beat, ready) ==
  LET done == Announce(servers[s], beat, ready)
  IN  /\ ServerListEnabled(servers[s])
      /\ IF beat = servers[s].beat THEN UNCHANGED happened ELSE Occurs
      /\ servers' = [servers EXCEPT ![s] = done.value]
      /\ datagrams' = datagrams \cup [from : {s}, what : done.sends]
      /\ UNCHANGED master

Down == [up |-> FALSE, enabled |-> FALSE, resolved |-> FALSE,
         beat |-> CHOOSE b \in Beats : TRUE, since |-> Never, told |-> FALSE]

StartServer(s, enabled) ==
  /\ ~servers[s].up
  /\ servers' = [servers EXCEPT ![s] = [Down EXCEPT !.up = TRUE, !.enabled = enabled]]
  /\ UNCHANGED <<datagrams, master, happened>>

Shutdown(s) ==
  /\ servers[s].up /\ Occurs
  /\ servers' = [servers EXCEPT ![s] = Down]
  /\ datagrams' = datagrams \cup IF HasSentAnyHeartbeats(servers[s]) /\ servers[s].resolved
                     THEN {[from |-> s, what |-> Goodbye]} ELSE {}
  /\ UNCHANGED master

CrashServer(s) ==
  /\ servers[s].up /\ Occurs
  /\ servers' = [servers EXCEPT ![s] = Down]
  /\ UNCHANGED <<datagrams, master>>

\* Players come and go: the next heartbeat says so.
ChangeBeat(s, beat) ==
  /\ servers[s].up /\ beat # servers[s].beat /\ Occurs
  /\ servers' = [servers EXCEPT ![s].beat = beat]
  /\ UNCHANGED <<datagrams, master>>

\* An administrator sets or clears notified_server_list.
SetEnabled(s, enabled) ==
  /\ servers[s].up /\ servers[s].enabled # enabled /\ Occurs
  /\ servers' = [servers EXCEPT ![s].enabled = enabled]
  /\ UNCHANGED <<datagrams, master>>

-----------------------------------------------------------------------------
(* The network and time.                                                   *)

LoseDatagram(d) ==
  /\ d \in datagrams
  /\ IF master.state = "up" THEN Occurs ELSE UNCHANGED happened
  /\ datagrams' = datagrams \ {d}
  /\ UNCHANGED <<servers, master>>

OlderEntries(list) == [s \in DOMAIN list |-> [list[s] EXCEPT !.age = @ + 1]]

TimePasses ==
  /\ \A s \in Servers : ~(ServerListEnabled(servers[s]) /\ ItsTime(servers[s]))
  /\ master.state = "up" => EraseDead(master) = master
  /\ IF datagrams = {} THEN UNCHANGED happened ELSE Occurs
  /\ servers' = [s \in Servers |->
       [servers[s] EXCEPT !.since = IF @ < HeartbeatEvery THEN @ + 1 ELSE @]]
  /\ master' = IF master.state # "up" THEN master
               ELSE [master EXCEPT !.list = OlderEntries(@)]
  /\ UNCHANGED datagrams

ListInit ==
  /\ servers = [s \in Servers |-> Down]
  /\ datagrams = {}
  /\ master = [state |-> "up", list |-> Nobody, served |-> Nobody, dump |-> NoDump]
  /\ happened = 0

ListNext ==
  \/ \E d \in datagrams : LoseDatagram(d) \/ \E again \in BOOLEAN : ReceiveDatagram(d, again)
  \/ Idle \/ StopMaster \/ CrashMaster \/ StartMaster \/ TimePasses
  \/ \E s \in Servers :
       \/ ReceiveInvalid(s) \/ Shutdown(s) \/ CrashServer(s)
       \/ \E b \in BOOLEAN : StartServer(s, b) \/ SetEnabled(s, b)
       \/ \E beat \in Beats : ChangeBeat(s, beat) \/ \E b \in BOOLEAN : ServerTick(s, beat, b)

Datagrams == [from : Servers, what : Beats \cup {Goodbye}]

\* The loops of the programs go on, time passes, the address of the masterserver
\* is resolved some day, and no datagram is delivered again forever.
ListFairness ==
  /\ WF_listVars(TimePasses) /\ WF_listVars(Idle)
  /\ \A d \in Datagrams : /\ WF_listVars(ReceiveDatagram(d, FALSE))
                           /\ WF_listVars(master.state # "up" /\ LoseDatagram(d))
  /\ \A s \in Servers : WF_listVars(ServerTick(s, servers[s].beat, TRUE))

ListSpec == ListInit /\ [][ListNext]_listVars /\ ListFairness

-----------------------------------------------------------------------------
(* Properties.                                                             *)

\* The serialized list that is served is the list: it is made anew whenever an
\* entry comes, goes or changes, and not only when the number of them does.
ServedIsCurrent == master.state = "up" => master.served = Contents(master.list)

\* A server that has told the masterserver of itself will say goodbye if it is
\* shut down now, also when a heartbeat was requested again in between.
GoodbyeIfTold == \A s \in Servers : servers[s].told => HasSentAnyHeartbeats(servers[s])

\* A masterserver that was stopped starts with the list it was stopped with,
\* the empty one included, and with nothing from an earlier dump.
RestartKeepsList ==
  [][StartMaster /\ master.state = "stopped" => Contents(master.list') = Contents(master.list)]_listVars

\* Once nothing happens any more, the list is that of the servers that announce
\* themselves, as they are by now, and it stays so: no heartbeat, goodbye or dump
\* from earlier and no time-out makes a difference for good.
ListConverges ==
  <>[](master.state = "up" =>
         Contents(master.list) = [s \in {t \in Servers : ServerListEnabled(servers[t])}
                                    |-> servers[s].beat])
=============================================================================
