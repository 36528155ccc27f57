--------------------------- MODULE SessionProofs ---------------------------
(***************************************************************************)
(* What Session.tla promises for any number of slots and connections, and  *)
(* any limits of time. A turn of the loops of a tick disturbs one slot     *)
(* alone; what it must leave of that slot is Good, and InOrder is what     *)
(* holds between two turns. The loops are folds (SeqFolds).                *)
(***************************************************************************)
EXTENDS Session, SequenceTheorems, FiniteSetTheorems, WellFoundedInduction, TLAPS

Events == INSTANCE SeqFolds WITH Op <- HandleEvent
Messages == INSTANCE SeqFolds WITH Op <- HandleMessage
Turns == INSTANCE SeqFolds WITH Op <- ProcessClient

-----------------------------------------------------------------------------
(* The inductive invariant. *)
States == {"INITIATING_CONNECTION", "PENDING_WELCOME", "WELCOME_ARRIVED",
           "RECEIVING_INITIAL_STATE", "IN_GAME"}
Client == [state : States, silent : Nat, kicked : Nat \cup {NotKicked}]
Event == [client_id : Slots, connected : BOOLEAN]

TypeOK ==
  /\ transport \in [Slots -> Nat]
  /\ pending_events \in Seq(Event)
  /\ clients \in [Slots -> Client]
  /\ players \in [Slots -> Nat]
  /\ connections \in 0..MaxConnections
  /\ receiving \in BOOLEAN

(* Who is connected and does not receive the game yet. *)
Entering == {s \in Slots : transport[s] # Nobody /\ ~Receives(Now[s])}

(* The connections that are not in such a slot: those that were admitted   *)
(* or have gone. Who waits without a player in the way waits a tick for    *)
(* each of them at most.                                                   *)
Others == connections - Cardinality(Entering)

Patient ==
  /\ Others >= 0
  /\ \A s \in Slots :
       clients[s].state = "WELCOME_ARRIVED" /\ players[s] = Nobody => clients[s].silent <= Others

IInv == TypeOK /\ SlotsAgree /\ OwnCharacter /\ Patient

-----------------------------------------------------------------------------
(* The lowest free slot is a free slot. *)
LEMMA LowestIsOne ==
  ASSUME NEW S \in SUBSET Nat, S # {}
  PROVE  Min(S) \in S
<1>. DEFINE R == {ss \in Nat \X Nat : ss[1] < ss[2]}
<1>1. IsWellFoundedOn(R, Nat)
  BY NatLessThanWellFounded DEF OpToRel
<1>2. PICK x \in S : \A y \in S : ~(<<y, x>> \in R)
  BY <1>1, WFMin
<1>3. \A y \in S : ~(y < x)
  BY <1>2
<1>. HIDE DEF R
<1>4. x \in S /\ \A y \in S : x <= y
  BY <1>2, <1>3
<1>. QED  BY <1>4 DEF Min

(* What the pending events make of the records is a fold over them. *)
LEMMA NowIs ==
  /\ Now = Events!Fold(clients, pending_events)
  /\ Now' = Events!Fold(clients', pending_events')
  /\ \A ev : HandleEvents(ev) = Events!Fold(clients, ev)
BY DEF Now, HandleEvents, Events!Fold, Events!FoldLeft, Events!MapThenFoldSet, Events!Max,
       FoldLeft, MapThenFoldSet, Max

(* An event makes a client of a record, or an empty record. *)
LEMMA EventType ==
  ASSUME NEW c \in [Slots -> Client], NEW e \in Event
  PROVE  /\ HandleEvent(c, e) \in [Slots -> Client]
         /\ \A s \in Slots \ {e.client_id} : HandleEvent(c, e)[s] = c[s]
         /\ HandleEvent(c, e)[e.client_id].state
              = IF e.connected THEN "PENDING_WELCOME" ELSE "INITIATING_CONNECTION"
         /\ ~e.connected => HandleEvent(c, e)[e.client_id] = Unset
<1>. DEFINE x == [c[e.client_id] EXCEPT !.state = "PENDING_WELCOME", !.silent = 0]
            y == IF e.connected THEN x ELSE Unset
<1>1. e.client_id \in Slots /\ e.connected \in BOOLEAN
  BY DEF Event
<1>2. x \in Client /\ x.state = "PENDING_WELCOME"
  BY <1>1 DEF Client, States
<1>3. Unset \in Client /\ Unset.state = "INITIATING_CONNECTION"
  BY DEF Client, States, Unset, NotKicked
<1>4. HandleEvent(c, e) = [c EXCEPT ![e.client_id] = y]
  BY DEF HandleEvent
<1>. HIDE DEF x, Unset
<1>. QED  BY <1>1, <1>2, <1>3, <1>4

(* Whatever the events, the records stay records. *)
LEMMA NowType ==
  ASSUME NEW c \in [Slots -> Client], NEW ev \in Seq(Event)
  PROVE  Events!Fold(c, ev) \in [Slots -> Client]
<1>1. \A x \in [Slots -> Client], e \in Event : HandleEvent(x, e) \in [Slots -> Client]
  BY EventType
<1>. QED  BY ONLY <1>1, c \in [Slots -> Client], ev \in Seq(Event), Events!FoldClosed

(* One more event is one more turn. *)
LEMMA OneMore ==
  ASSUME NEW c \in [Slots -> Client], NEW ev \in Seq(Event), NEW e \in Event
  PROVE  Events!Fold(c, Append(ev, e)) = HandleEvent(Events!Fold(c, ev), e)
BY ONLY ev \in Seq(Event), e \in Event, Events!FoldAppend

-----------------------------------------------------------------------------
(* A tick in progress. *)
TickType ==
  [said : [Slots -> Sayings], clients : [Slots -> Client], transport : [Slots -> Nat],
   events : Seq(Event), added : Slots \cup {NoSlot}, removed : Slots \cup {NoSlot}]

(* What a slot is in it, if now is what the events made of the records and *)
(* nobody waits longer than n. The player that is added is the client's    *)
(* own, the one that is removed belongs to nobody.                         *)
Good(t, now, n, s) ==
  /\ t.transport[s] \in {transport[s], Nobody}
  /\ IsSet(t.clients[s]) <=> t.transport[s] # Nobody
  /\ Receives(t.clients[s]) => players[s] = transport[s] \/ t.added = s
  /\ Receives(now[s]) /\ IsSet(t.clients[s]) => Receives(t.clients[s])
  /\ t.clients[s].state = "WELCOME_ARRIVED" /\ players[s] = Nobody => t.clients[s].silent <= n
  /\ t.added = s => /\ players[s] = Nobody /\ transport[s] # Nobody
                    /\ t.clients[s].state \notin {"PENDING_WELCOME", "WELCOME_ARRIVED"}
  /\ t.removed = s => ~IsSet(t.clients[s])

(* Its events are those of the clients it disconnected. *)
OnlyLeft(t) ==
  \A i \in DOMAIN t.events :
    ~t.events[i].connected /\ t.clients[t.events[i].client_id] = Unset

InOrder(t, now, n) == t \in TickType /\ OnlyLeft(t) /\ \A s \in Slots : Good(t, now, n, s)

(* The slots of its events. *)
LEMMA EventSlots ==
  ASSUME NEW t \in TickType, NEW i \in DOMAIN t.events
  PROVE  t.events[i] \in Event /\ t.events[i].client_id \in Slots
<1>1. t.events \in Seq(Event)
  BY DEF TickType
<1>2. t.events[i] \in Event
  BY <1>1, LenProperties, ElementOfSeq
<1>. QED  BY <1>2 DEF Event

(* A client is given another record, but stays a client. *)
LEMMA Changed ==
  ASSUME NEW t, NEW now, NEW n \in Nat, InOrder(t, now, n), NEW s \in Slots, NEW c \in Client,
         IsSet(t.clients[s]), IsSet(c),
         Receives(c) => Receives(t.clients[s]) \/ players[s] = transport[s],
         Receives(now[s]) => Receives(c),
         c.state = "WELCOME_ARRIVED" /\ players[s] = Nobody => c.silent <= n,
         t.added = s => c.state \notin {"PENDING_WELCOME", "WELCOME_ARRIVED"}
  PROVE  InOrder([t EXCEPT !.clients[s] = c], now, n)
<1>. DEFINE u == [t EXCEPT !.clients[s] = c]
            d == [t.clients EXCEPT ![s] = c]
<1>1. t \in TickType
  BY DEF InOrder
<1>2. d \in [Slots -> Client] /\ d[s] = c /\ \A r \in Slots \ {s} : d[r] = t.clients[r]
  BY <1>1 DEF TickType
<1>3. u = [said |-> t.said, clients |-> d, transport |-> t.transport,
           events |-> t.events, added |-> t.added, removed |-> t.removed]
  <2>1. t = [said |-> t.said, clients |-> t.clients, transport |-> t.transport,
             events |-> t.events, added |-> t.added, removed |-> t.removed]
    BY <1>1 DEF TickType
  <2>. QED  BY <2>1
<1>. HIDE DEF d
<1>4. u \in TickType
  BY <1>1, <1>2, <1>3 DEF TickType
<1>5. OnlyLeft(u)
  <2>. SUFFICES ASSUME NEW i \in DOMAIN t.events
                PROVE  ~t.events[i].connected /\ d[t.events[i].client_id] = Unset
    BY <1>3 DEF OnlyLeft
  <2>1. ~t.events[i].connected /\ t.clients[t.events[i].client_id] = Unset
    BY DEF InOrder, OnlyLeft
  <2>2. t.events[i].client_id \in Slots
    BY <1>1, EventSlots
  <2>3. t.events[i].client_id # s
    BY <2>1 DEF IsSet, Unset
  <2>. QED  BY <1>2, <2>1, <2>2, <2>3
<1>6. ASSUME NEW r \in Slots PROVE Good(u, now, n, r)
  <2>1. Good(t, now, n, r)
    BY DEF InOrder
  <2>2. CASE r # s
    BY <1>2, <1>3, <2>1, <2>2 DEF Good
  <2>3. CASE r = s
    <3>. HIDE DEF u
    <3>1. u.clients[s] = c /\ u.transport = t.transport /\ u.added = t.added /\ u.removed = t.removed
      BY <1>2, <1>3
    <3>. QED  BY <2>1, <2>3, <3>1 DEF Good
  <2>. QED  BY <2>2, <2>3
<1>. HIDE DEF u
<1>7. InOrder(u, now, n)
  BY <1>4, <1>5, <1>6 DEF InOrder
<1>. QED  BY <1>7 DEF u

(* A client is disconnected. *)
LEMMA Disconnected ==
  ASSUME NEW t, NEW now, NEW n \in Nat, InOrder(t, now, n), NEW s \in Slots
  PROVE  LET u == DisconnectAndUnset(t, s)
         IN /\ InOrder(u, now, n)
            /\ ~IsSet(u.clients[s])
            /\ u.said = t.said /\ u.added = t.added /\ u.removed = t.removed
            /\ \A r \in Slots \ {s} : u.clients[r] = t.clients[r] /\ u.transport[r] = t.transport[r]
<1>. DEFINE u == DisconnectAndUnset(t, s)
            d == [t.clients EXCEPT ![s] = Unset]
            k == [t.transport EXCEPT ![s] = Nobody]
            e == [client_id |-> s, connected |-> FALSE]
            ev == Append(t.events, e)
<1>1. t \in TickType
  BY DEF InOrder
<1>2. Unset \in Client /\ ~IsSet(Unset) /\ Unset.state = "INITIATING_CONNECTION"
  BY DEF Unset, Client, States, IsSet, NotKicked
<1>3. d \in [Slots -> Client] /\ d[s] = Unset /\ \A r \in Slots \ {s} : d[r] = t.clients[r]
  BY <1>1, <1>2 DEF TickType
<1>4. k \in [Slots -> Nat] /\ k[s] = Nobody /\ \A r \in Slots \ {s} : k[r] = t.transport[r]
  BY <1>1 DEF TickType, Nobody
<1>5. e \in Event /\ e.client_id = s /\ ~e.connected
  BY DEF Event
<1>. HIDE DEF e
<1>6. /\ t.events \in Seq(Event) /\ ev \in Seq(Event)
      /\ Len(t.events) \in Nat /\ DOMAIN t.events = 1..Len(t.events)
      /\ DOMAIN ev = 1..Len(t.events) + 1
      /\ ev[Len(t.events) + 1] = e /\ \A i \in 1..Len(t.events) : ev[i] = t.events[i]
  BY <1>1, <1>5 DEF TickType
<1>7. u = [said |-> t.said, clients |-> d, transport |-> k,
           events |-> ev, added |-> t.added, removed |-> t.removed]
  <2>1. t = [said |-> t.said, clients |-> t.clients, transport |-> t.transport,
             events |-> t.events, added |-> t.added, removed |-> t.removed]
    BY <1>1 DEF TickType
  <2>2. u = [t EXCEPT !.clients = d, !.transport = k, !.events = ev]
    BY DEF DisconnectAndUnset, e
  <2>. HIDE DEF u, d, k, ev
  <2>. QED  BY <2>1, <2>2
<1>. HIDE DEF d, k, ev
<1>8. u \in TickType
  BY <1>1, <1>3, <1>4, <1>6, <1>7 DEF TickType
<1>9. /\ u.said = t.said /\ u.clients = d /\ u.transport = k /\ u.events = ev
      /\ u.added = t.added /\ u.removed = t.removed
  BY <1>7
<1>. HIDE DEF u
<1>10. OnlyLeft(u)
  <2>. SUFFICES ASSUME NEW i \in 1..Len(t.events) + 1
                PROVE  ~ev[i].connected /\ d[ev[i].client_id] = Unset
    BY <1>6, <1>9 DEF OnlyLeft
  <2>1. CASE i = Len(t.events) + 1
    BY <1>3, <1>5, <1>6, <2>1
  <2>2. CASE i \in 1..Len(t.events)
    <3>1. ~t.events[i].connected /\ t.clients[t.events[i].client_id] = Unset
      BY <1>6, <2>2 DEF InOrder, OnlyLeft
    <3>2. t.events[i].client_id \in Slots
      BY <1>1, <1>6, <2>2, EventSlots
    <3>3. ev[i] = t.events[i]
      BY <1>6, <2>2
    <3>. QED  BY <1>3, <3>1, <3>2, <3>3
  <2>. QED  BY <1>6, <2>1, <2>2
<1>11. ASSUME NEW r \in Slots PROVE Good(u, now, n, r)
  <2>1. Good(t, now, n, r)
    BY DEF InOrder
  <2>2. CASE r # s
    BY <1>3, <1>4, <1>9, <2>1, <2>2 DEF Good
  <2>3. CASE r = s
    BY <1>2, <1>3, <1>4, <1>9, <2>1, <2>3 DEF Good, Receives
  <2>. QED  BY <2>2, <2>3
<1>12. InOrder(u, now, n)
  BY <1>8, <1>10, <1>11 DEF InOrder
<1>. QED  BY <1>2, <1>3, <1>4, <1>9, <1>12 DEF u

(* A kick marks a record and leaves its state. *)
LEMMA KickedIs ==
  ASSUME NEW c \in Client
  PROVE  Kicked(c) \in Client /\ Kicked(c).state = c.state /\ Kicked(c).silent = c.silent
BY DEF Kicked, Client, NotKicked

(* What a message makes of a record. *)
LEMMA HeardIs ==
  ASSUME NEW c \in Client, NEW x \in Sayings, x # "garbage"
  PROVE  /\ Heard(c, x) \in Client
         /\ x = "settings" =>
              /\ Heard(c, x).state = IF c.state = "PENDING_WELCOME" THEN "WELCOME_ARRIVED" ELSE c.state
              /\ Heard(c, x).silent = 0
         /\ x = "talk" => Heard(c, x).state = c.state /\ Heard(c, x).silent = 0
         /\ x \in {"command", "idle command"} => Heard(c, x).state = "IN_GAME"
         /\ x = "offence" => Heard(c, x).state = c.state /\ Heard(c, x).silent = 0
         /\ x = "nothing" => Heard(c, x) = c
<1>1. CASE x = "settings"
  <2>. DEFINE next == IF c.state = "PENDING_WELCOME" THEN "WELCOME_ARRIVED" ELSE c.state
  <2>1. Heard(c, x) = [c EXCEPT !.state = next, !.silent = 0]
    BY <1>1 DEF Heard, Client
  <2>2. next \in States
    BY DEF Client, States
  <2>. HIDE DEF next
  <2>3. /\ [c EXCEPT !.state = next, !.silent = 0] \in Client
        /\ [c EXCEPT !.state = next, !.silent = 0].state = next
        /\ [c EXCEPT !.state = next, !.silent = 0].silent = 0
    BY <2>2 DEF Client
  <2>. QED  BY <1>1, <2>1, <2>3 DEF next
<1>2. CASE x \in {"command", "idle command"}
  <2>1. Heard(c, x) = [c EXCEPT !.state = "IN_GAME", !.silent = 0]
    BY <1>2 DEF Heard
  <2>2. [c EXCEPT !.state = "IN_GAME", !.silent = 0] \in Client
    BY DEF Client, States
  <2>. QED  BY <1>2, <2>1, <2>2 DEF Client
<1>3. CASE x = "offence"
  <2>1. Heard(c, x) = [Kicked(c) EXCEPT !.silent = 0]
    BY <1>3 DEF Heard
  <2>2. /\ [Kicked(c) EXCEPT !.silent = 0] \in Client
        /\ [Kicked(c) EXCEPT !.silent = 0].state = Kicked(c).state
        /\ [Kicked(c) EXCEPT !.silent = 0].silent = 0
    BY KickedIs DEF Client
  <2>. QED  BY <1>3, <2>1, <2>2, KickedIs
<1>4. CASE x = "nothing"
  BY <1>4 DEF Heard
<1>5. CASE x = "talk"
  <2>1. Heard(c, x) = [c EXCEPT !.silent = 0]
    BY <1>5 DEF Heard
  <2>2. [c EXCEPT !.silent = 0] \in Client
    BY DEF Client
  <2>. QED  BY <1>5, <2>1, <2>2 DEF Client
<1>. QED  BY <1>1, <1>2, <1>3, <1>4, <1>5 DEF Sayings

-----------------------------------------------------------------------------
(* What is known of the records and the messages when the tick begins. *)
Fits(now, said) ==
  /\ now \in [Slots -> Client] /\ said \in [Slots -> Sayings]
  /\ \A s \in Slots :
       /\ IsSet(now[s]) <=> transport[s] # Nobody
       /\ Receives(now[s]) => players[s] = transport[s]
       /\ said[s] \in MaySay(now[s])

(* What holds from message to message. *)
Hearing(t, now, n, said) ==
  /\ InOrder(t, now, n)
  /\ t.said = said /\ t.added = NoSlot /\ t.removed = NoSlot
  /\ \A s \in Slots : said[s] # "garbage" => t.transport[s] = transport[s]

(* One message: a client says what it may, and stays what it was or goes   *)
(* one step on; it is disconnected for garbage alone.                      *)
LEMMA MessageKeeps ==
  ASSUME NEW now, NEW said, Fits(now, said), NEW n \in Nat, NEW t, Hearing(t, now, n, said),
         NEW s \in Slots
  PROVE  Hearing(HandleMessage(t, s), now, n, said)
<1>1. InOrder(t, now, n) /\ t \in TickType /\ t.said = said
  BY DEF Hearing, InOrder
<1>2. CASE said[s] = "garbage"
  <2>1. HandleMessage(t, s) = DisconnectAndUnset(t, s)
    BY <1>1, <1>2 DEF HandleMessage
  <2>. QED  BY <1>1, <1>2, <2>1, Disconnected DEF Hearing
<1>3. CASE said[s] # "garbage"
  <2>. DEFINE b == t.clients[s]
              x == said[s]
              c == Heard(b, x)
  <2>1. b \in Client /\ x \in Sayings /\ s # NoSlot
    <3>1. s # NoSlot
      BY SessionAssumption DEF Slots, NoSlot
    <3>. QED  BY <1>1, <3>1 DEF TickType, Fits
  <2>2. /\ c \in Client
        /\ x = "settings" =>
             /\ c.state = IF b.state = "PENDING_WELCOME" THEN "WELCOME_ARRIVED" ELSE b.state
             /\ c.silent = 0
        /\ x = "talk" => c.state = b.state /\ c.silent = 0
        /\ x \in {"command", "idle command"} => c.state = "IN_GAME"
        /\ x = "offence" => c.state = b.state /\ c.silent = 0
        /\ x = "nothing" => c = b
    BY <1>3, <2>1, HeardIs
  <2>3. HandleMessage(t, s) = [t EXCEPT !.clients[s] = c]
    BY <1>1, <1>3 DEF HandleMessage
  <2>4. x \in {"nothing", "settings", "talk", "command", "idle command", "offence"}
    BY <1>3, <2>1 DEF Sayings
  <2>5. Good(t, now, n, s) /\ t.transport[s] = transport[s] /\ t.added # s
    BY <1>3, <2>1 DEF Hearing, InOrder
  <2>6. /\ IsSet(now[s]) <=> transport[s] # Nobody
        /\ Receives(now[s]) => players[s] = transport[s]
        /\ x \in MaySay(now[s])
    BY DEF Fits
  <2>7. t.clients = [t.clients EXCEPT ![s] = b]
    BY <1>1 DEF TickType
  <2>. HIDE DEF b, x, c
  <2>8. CASE x = "nothing"
    <3>1. [t EXCEPT !.clients[s] = c] = t
      BY <1>1, <2>2, <2>7, <2>8 DEF TickType
    <3>. QED  BY <2>3, <3>1
  <2>9. CASE x # "nothing"
    <3>1. IsSet(now[s])
      BY <2>4, <2>6, <2>9 DEF MaySay, Receives, IsSet
    <3>2. IsSet(b)
      BY <2>5, <2>6, <3>1 DEF Good, b
    <3>3. IsSet(c)
      BY <2>2, <2>4, <2>9, <3>2 DEF IsSet
    <3>4. Receives(c) => Receives(b) \/ players[s] = transport[s]
      BY <2>2, <2>4, <2>6, <2>9 DEF MaySay, Receives
    <3>5. Receives(now[s]) => Receives(b)
      BY <2>5, <3>2 DEF Good, b
    <3>6. Receives(now[s]) => Receives(c)
      BY <2>2, <2>4, <2>6, <2>9, <3>5 DEF MaySay, Receives
    <3>7. c.state = "WELCOME_ARRIVED" /\ players[s] = Nobody => c.silent <= n
      <4>1. c.state = "WELCOME_ARRIVED" => c.silent = 0
        BY <2>2, <2>4, <2>9
      <4>2. 0 <= n
        OBVIOUS
      <4>. QED  BY <4>1, <4>2
    <3>8. InOrder([t EXCEPT !.clients[s] = c], now, n)
      <4>1. IsSet(t.clients[s])
        BY <3>2 DEF b
      <4>2. Receives(c) => Receives(t.clients[s]) \/ players[s] = transport[s]
        BY <3>4 DEF b
      <4>. QED  BY <1>1, <2>2, <2>5, <3>3, <3>6, <3>7, <4>1, <4>2, Changed
    <3>. QED  BY <2>3, <3>8 DEF Hearing
  <2>. QED  BY <2>8, <2>9
<1>. QED  BY <1>2, <1>3

(* The order of the loops: all slots, from the first. *)
LEMMA AscendingIs ==
  /\ SlotCount \in Nat /\ Ascending \in Seq(Slots) /\ DOMAIN Ascending = 1..SlotCount
  /\ \A k \in 0..SlotCount - 1 : Ascending[k + 1] = k /\ k \in Slots
<1>1. SlotCount \in Nat
  BY SessionAssumption
<1>2. Ascending \in [1..SlotCount -> Slots]
  BY <1>1 DEF Ascending, Slots
<1>. QED  BY <1>1, <1>2, SeqDef DEF Ascending, Slots

(* The messages of all clients. *)
LEMMA AllHeard ==
  ASSUME NEW now, NEW said, Fits(now, said), NEW n \in Nat, NEW t, Hearing(t, now, n, said)
  PROVE  Hearing(Messages!Fold(t, Ascending), now, n, said)
<1>2. PICK h : Messages!Unfolds(h, t, Ascending, SlotCount) /\ Messages!Fold(t, Ascending) = h[SlotCount]
  BY ONLY AscendingIs, Messages!FoldUnfold
<1>. DEFINE P == {k \in Nat : k <= SlotCount => Hearing(h[k], now, n, said)}
<1>3. 0 \in P
  BY <1>2 DEF Messages!Unfolds
<1>4. ASSUME NEW k \in Nat, k \in P PROVE k + 1 \in P
  <2>. SUFFICES ASSUME k + 1 <= SlotCount PROVE Hearing(h[k + 1], now, n, said)
    OBVIOUS
  <2>1. k \in 0..SlotCount - 1 /\ Hearing(h[k], now, n, said)
    BY <1>4, AscendingIs
  <2>2. h[k + 1] = HandleMessage(h[k], k) /\ k \in Slots
    BY <1>2, <2>1, AscendingIs DEF Messages!Unfolds
  <2>. QED  BY <2>1, <2>2, MessageKeeps
<1>5. SlotCount \in P
  <2>. HIDE DEF P
  <2>. QED  BY <1>3, <1>4, AscendingIs, Messages!NatInduct
<1>. QED  BY <1>2, <1>5, AscendingIs

-----------------------------------------------------------------------------
(* What a turn of the second loop leaves alone: the other slots; and that  *)
(* somebody was admitted.                                                  *)
Beside(t, u, s) ==
  /\ \A r \in Slots \ {s} : u.clients[r] = t.clients[r]
  /\ t.added # NoSlot => u.added # NoSlot

(* The client is admitted, or refused for its nickname. *)
LEMMA AdmitKeeps ==
  ASSUME NEW now, NEW n \in Nat, NEW t, InOrder(t, now, n), NEW s \in Slots,
         IsSet(t.clients[s]), Admits(t, s)
  PROVE  /\ InOrder(Admit(t, s), now, n) /\ Beside(t, Admit(t, s), s)
         /\ Admit(t, s).clients[s].state = "WELCOME_ARRIVED" => Admit(t, s).added # NoSlot
<1>1. CASE transport[s] \in Nameless
  <2>1. Admit(t, s) = DisconnectAndUnset(t, s)
    BY <1>1 DEF Admit
  <2>. QED  BY <2>1, Disconnected DEF Beside, IsSet
<1>2. CASE transport[s] \notin Nameless
  <2>. DEFINE b == t.clients[s]
              c == [b EXCEPT !.state = IF @ = "WELCOME_ARRIVED" THEN "RECEIVING_INITIAL_STATE" ELSE @]
              d == [t.clients EXCEPT ![s] = c]
              u == Admit(t, s)
  <2>1. t \in TickType /\ OnlyLeft(t) /\ b \in Client /\ s # NoSlot
    <3>1. s # NoSlot
      BY SessionAssumption DEF Slots, NoSlot
    <3>. QED  BY <3>1 DEF InOrder, TickType
  <2>2. /\ c \in Client /\ c.state \notin {"PENDING_WELCOME", "WELCOME_ARRIVED"}
        /\ IsSet(c) /\ (Receives(b) => Receives(c))
    BY <2>1 DEF Admits, Client, States, IsSet, Receives
  <2>3. u = [t EXCEPT !.added = s, !.clients = d]
    BY <1>2 DEF Admit
  <2>4. d \in [Slots -> Client] /\ d[s] = c /\ \A r \in Slots \ {s} : d[r] = t.clients[r]
    BY <2>1, <2>2 DEF TickType
  <2>5. t.added = NoSlot /\ players[s] = Nobody
    BY DEF Admits
  <2>. HIDE DEF d, u, c
  <2>6. /\ u.clients = d /\ u.transport = t.transport /\ u.events = t.events
        /\ u.added = s /\ u.removed = t.removed /\ u.said = t.said
        /\ u \in TickType
    BY <2>1, <2>3, <2>4 DEF TickType
  <2>7. OnlyLeft(u)
    <3>. SUFFICES ASSUME NEW i \in DOMAIN t.events
                  PROVE  ~t.events[i].connected /\ d[t.events[i].client_id] = Unset
      BY <2>6 DEF OnlyLeft
    <3>1. ~t.events[i].connected /\ t.clients[t.events[i].client_id] = Unset
      BY <2>1 DEF OnlyLeft
    <3>2. t.events[i].client_id \in Slots
      BY <2>1, EventSlots
    <3>3. t.events[i].client_id # s
      BY <3>1 DEF IsSet, Unset
    <3>. QED  BY <2>4, <3>1, <3>2, <3>3
  <2>8. ASSUME NEW r \in Slots PROVE Good(u, now, n, r)
    <3>1. Good(t, now, n, r)
      BY DEF InOrder
    <3>2. CASE r # s
      <4>1. /\ u.clients[r] = t.clients[r] /\ u.transport[r] = t.transport[r]
            /\ u.removed = t.removed /\ u.added # r /\ t.added # r
        <5>1. r # NoSlot
          BY SessionAssumption DEF Slots, NoSlot
        <5>. QED  BY <2>4, <2>5, <2>6, <3>2, <5>1
      <4>. QED  BY <3>1, <4>1 DEF Good
    <3>3. CASE r = s
      <4>1. t.transport[s] # Nobody /\ t.transport[s] = transport[s] /\ t.removed # s
        BY <3>1, <3>3 DEF Good
      <4>2. Receives(now[s]) => Receives(c)
        BY <2>2, <3>1, <3>3 DEF Good
      <4>. QED  BY <2>2, <2>4, <2>5, <2>6, <3>1, <3>3, <4>1, <4>2 DEF Good
    <3>. QED  BY <3>2, <3>3
  <2>9. InOrder(u, now, n)
    BY <2>6, <2>7, <2>8 DEF InOrder
  <2>10. Beside(t, u, s) /\ u.added # NoSlot
    BY <2>1, <2>4, <2>6 DEF Beside
  <2>. QED  BY <2>9, <2>10 DEF u
<1>. QED  BY <1>1, <1>2

(* Who is away or silent is marked. *)
LEMMA AwayKeeps ==
  ASSUME NEW now, NEW n \in Nat, NEW t, InOrder(t, now, n), NEW s \in Slots
  PROVE  /\ InOrder(KickIfAway(t, s), now, n) /\ Beside(t, KickIfAway(t, s), s)
         /\ KickIfAway(t, s).clients[s].state = t.clients[s].state
         /\ KickIfAway(t, s).added = t.added
<1>. DEFINE b == t.clients[s]
            c == Kicked(b)
            u == [t EXCEPT !.clients[s] = c]
<1>1. t \in TickType /\ b \in Client
  BY DEF InOrder, TickType
<1>2. c \in Client /\ c.state = b.state /\ c.silent = b.silent
  BY <1>1, KickedIs
<1>3. KickIfAway(t, s) = u \/ KickIfAway(t, s) = t
  BY DEF KickIfAway
<1>4. CASE KickIfAway(t, s) = t
  BY <1>4 DEF Beside
<1>5. CASE KickIfAway(t, s) = u
  <2>1. u.added = t.added /\ u.clients[s] = c /\ \A r \in Slots \ {s} : u.clients[r] = t.clients[r]
    BY <1>1 DEF TickType
  <2>2. CASE ~IsSet(b)
    <3>1. c = b
      BY <2>2 DEF Kicked
    <3>2. [t.clients EXCEPT ![s] = c] = t.clients
      BY <1>1, <3>1 DEF TickType
    <3>. HIDE DEF c
    <3>3. u = t
      BY <1>1, <3>2 DEF TickType
    <3>. QED  BY <1>5, <3>3 DEF Beside
  <2>3. CASE IsSet(b)
    <3>1. Good(t, now, n, s)
      BY DEF InOrder
    <3>2. /\ IsSet(c) /\ (Receives(c) <=> Receives(b))
          /\ Receives(now[s]) => Receives(c)
          /\ c.state = "WELCOME_ARRIVED" /\ players[s] = Nobody => c.silent <= n
          /\ t.added = s => c.state \notin {"PENDING_WELCOME", "WELCOME_ARRIVED"}
      BY <1>2, <2>3, <3>1 DEF Good, IsSet, Receives
    <3>. HIDE DEF c
    <3>3. InOrder(u, now, n)
      BY <1>2, <2>3, <3>2, Changed
    <3>. QED  BY <1>2, <1>5, <2>1, <3>3 DEF Beside
  <2>. QED  BY <2>2, <2>3
<1>. QED  BY <1>3, <1>4, <1>5

(* Who waits for nobody's player to go was admitted, or another one was. *)
Served(t, s) == t.clients[s].state = "WELCOME_ARRIVED" /\ players[s] = Nobody => t.added # NoSlot

(* One turn of the second loop. *)
LEMMA TurnKeeps ==
  ASSUME NEW now, NEW n \in Nat, NEW t, InOrder(t, now, n), NEW s \in Slots
  PROVE  /\ InOrder(ProcessClient(t, s), now, n)
         /\ Beside(t, ProcessClient(t, s), s)
         /\ Served(ProcessClient(t, s), s)
<1>. DEFINE l == IF LingersTooLong(t, s) THEN DisconnectAndUnset(t, s) ELSE t
            a == IF Admits(l, s) THEN Admit(l, s) ELSE l
            p == ProcessClient(t, s)
<1>1. InOrder(l, now, n) /\ Beside(t, l, s)
  BY Disconnected DEF Beside
<1>2. p = IF ~IsSet(l.clients[s]) THEN IF Removes(l, s) THEN [l EXCEPT !.removed = s] ELSE l
          ELSE KickIfAway(a, s)
  BY DEF ProcessClient
<1>. HIDE DEF l, p
<1>3. CASE ~IsSet(l.clients[s])
  <2>1. Served(l, s)
    BY <1>3 DEF Served, IsSet
  <2>2. CASE Removes(l, s)
    <3>. DEFINE u == [l EXCEPT !.removed = s]
    <3>1. l \in TickType
      BY <1>1 DEF InOrder
    <3>2. /\ u \in TickType /\ u.said = l.said /\ u.clients = l.clients /\ u.transport = l.transport
          /\ u.events = l.events /\ u.added = l.added /\ u.removed = s
      BY <3>1 DEF TickType
    <3>3. p = u
      BY <1>2, <1>3, <2>2
    <3>. HIDE DEF u
    <3>4. OnlyLeft(u)
      BY <1>1, <3>2 DEF InOrder, OnlyLeft
    <3>5. ASSUME NEW r \in Slots PROVE Good(u, now, n, r)
      BY <1>1, <1>3, <3>2 DEF InOrder, Good
    <3>6. InOrder(u, now, n)
      BY <3>2, <3>4, <3>5 DEF InOrder
    <3>7. Beside(t, u, s) /\ Served(u, s)
      BY <1>1, <2>1, <3>2 DEF Beside, Served
    <3>. QED  BY <3>3, <3>6, <3>7 DEF p
  <2>3. CASE ~Removes(l, s)
    BY <1>1, <1>2, <1>3, <2>1, <2>3 DEF p
  <2>. QED  BY <2>2, <2>3
<1>4. CASE IsSet(l.clients[s])
  <2>1. InOrder(a, now, n) /\ Beside(t, a, s) /\ Served(a, s)
    <3>1. CASE Admits(l, s)
      <4>1. InOrder(Admit(l, s), now, n) /\ Beside(l, Admit(l, s), s) /\ Served(Admit(l, s), s)
        BY <1>1, <1>4, <3>1, AdmitKeeps DEF Served
      <4>. QED  BY <1>1, <3>1, <4>1 DEF Beside
    <3>2. CASE ~Admits(l, s)
      BY <1>1, <3>2 DEF Admits, Served
    <3>. QED  BY <3>1, <3>2
  <2>. HIDE DEF a
  <2>2. p = KickIfAway(a, s)
    BY <1>2, <1>4
  <2>3. /\ InOrder(p, now, n) /\ Beside(a, p, s)
        /\ p.clients[s].state = a.clients[s].state /\ p.added = a.added
    BY <2>1, <2>2, AwayKeeps
  <2>4. Beside(t, p, s) /\ Served(p, s)
    BY <2>1, <2>3 DEF Beside, Served
  <2>. QED  BY <2>3, <2>4 DEF p
<1>. QED  BY <1>3, <1>4

(* All turns. *)
LEMMA AllProcessed ==
  ASSUME NEW now, NEW n \in Nat, NEW t, InOrder(t, now, n)
  PROVE  LET u == Turns!Fold(t, Ascending)
         IN InOrder(u, now, n) /\ \A s \in Slots : Served(u, s)
<1>2. PICK h : Turns!Unfolds(h, t, Ascending, SlotCount) /\ Turns!Fold(t, Ascending) = h[SlotCount]
  BY ONLY AscendingIs, Turns!FoldUnfold
<1>. DEFINE Q(k) == InOrder(h[k], now, n) /\ \A r \in Slots : r < k => Served(h[k], r)
            P == {k \in Nat : k <= SlotCount => Q(k)}
<1>3. 0 \in P
  <2>1. h[0] = t /\ \A r \in Slots : ~(r < 0)
    BY <1>2, AscendingIs DEF Turns!Unfolds, Slots
  <2>. QED  BY <2>1
<1>4. ASSUME NEW k \in Nat, k \in P PROVE k + 1 \in P
  <2>. SUFFICES ASSUME k + 1 <= SlotCount PROVE Q(k + 1)
    OBVIOUS
  <2>1. k \in 0..SlotCount - 1 /\ Q(k)
    BY <1>4, AscendingIs
  <2>2. h[k + 1] = ProcessClient(h[k], k) /\ k \in Slots
    BY <1>2, <2>1, AscendingIs DEF Turns!Unfolds
  <2>3. /\ InOrder(h[k + 1], now, n)
        /\ Beside(h[k], h[k + 1], k)
        /\ Served(h[k + 1], k)
    BY <2>1, <2>2, TurnKeeps
  <2>4. ASSUME NEW r \in Slots, r < k + 1 PROVE Served(h[k + 1], r)
    <3>1. CASE r = k
      BY <2>3, <3>1
    <3>2. CASE r # k
      <4>1. r < k
        BY <2>1, <2>4, <3>2, AscendingIs DEF Slots
      <4>2. Served(h[k], r)
        BY <2>1, <4>1
      <4>. QED  BY <2>3, <3>2, <4>2 DEF Beside, Served
    <3>. QED  BY <3>1, <3>2
  <2>. QED  BY <2>3, <2>4
<1>5. SlotCount \in P
  <2>. HIDE DEF P
  <2>. QED  BY <1>3, <1>4, AscendingIs, Turns!NatInduct
<1>6. Q(SlotCount)
  BY <1>5, AscendingIs
<1>7. \A r \in Slots : r < SlotCount
  BY AscendingIs DEF Slots
<1>. QED  BY <1>2, <1>6, <1>7

-----------------------------------------------------------------------------
(* A record whose settings have arrived is as the last tick left it: an    *)
(* event would have begun or ended it.                                     *)
LEMMA EventsBegin ==
  ASSUME NEW c \in [Slots -> Client], NEW ev \in Seq(Event)
  PROVE  \A s \in Slots :
           \/ Events!Fold(c, ev)[s] = c[s]
           \/ Events!Fold(c, ev)[s].state \in {"INITIATING_CONNECTION", "PENDING_WELCOME"}
<1>. DEFINE Begins(x) ==
              \A s \in Slots :
                x[s] = c[s] \/ x[s].state \in {"INITIATING_CONNECTION", "PENDING_WELCOME"}
            T == {x \in [Slots -> Client] : Begins(x)}
<1>1. ASSUME NEW x \in T, NEW e \in Event PROVE HandleEvent(x, e) \in T
  <2>1. x \in [Slots -> Client] /\ Begins(x)
    OBVIOUS
  <2>2. HandleEvent(x, e) \in [Slots -> Client]
    BY <2>1, EventType
  <2>3. ASSUME NEW s \in Slots
        PROVE  \/ HandleEvent(x, e)[s] = c[s]
               \/ HandleEvent(x, e)[s].state \in {"INITIATING_CONNECTION", "PENDING_WELCOME"}
    BY <2>1, EventType
  <2>. QED  BY <2>2, <2>3
<1>2. c \in T
  OBVIOUS
<1>3. Events!Fold(c, ev) \in T
  <2>. HIDE DEF T
  <2>. QED  BY ONLY <1>1, <1>2, ev \in Seq(Event), Events!FoldClosed
<1>. QED  BY <1>3

(* Events that end records which are empty already change nothing. *)
LEMMA EventsIdle ==
  ASSUME NEW c \in [Slots -> Client], NEW ev \in Seq(Event),
         \A i \in DOMAIN ev : ~ev[i].connected /\ c[ev[i].client_id] = Unset
  PROVE  Events!Fold(c, ev) = c
<1>. DEFINE S == {e \in Event : ~e.connected /\ c[e.client_id] = Unset}
            T == {c}
<1>1. ev \in Seq(S)
  <2>1. Len(ev) \in Nat /\ DOMAIN ev = 1..Len(ev) /\ ev \in [1..Len(ev) -> Event]
    BY LenProperties
  <2>2. ev \in [1..Len(ev) -> S]
    BY <2>1
  <2>. HIDE DEF S
  <2>. QED  BY <2>1, <2>2, SeqDef
<1>2. ASSUME NEW x \in T, NEW e \in S PROVE HandleEvent(x, e) \in T
  <2>1. x = c /\ e \in Event /\ ~e.connected /\ c[e.client_id] = Unset
    OBVIOUS
  <2>2. HandleEvent(x, e) = [c EXCEPT ![e.client_id] = Unset]
    BY <2>1 DEF HandleEvent
  <2>3. [c EXCEPT ![e.client_id] = Unset] = c
    BY <2>1
  <2>. QED  BY <2>2, <2>3
<1>3. Events!Fold(c, ev) \in T
  <2>. HIDE DEF S, T
  <2>1. c \in T
    BY DEF T
  <2>. QED  BY ONLY <1>1, <1>2, <2>1, Events!FoldClosed
<1>. QED  BY <1>3

(* Slots can be counted. *)
LEMMA EnteringIsFinite ==
  \A S \in SUBSET Slots : IsFiniteSet(S) /\ Cardinality(S) \in Nat
<1>1. IsFiniteSet(Slots)
  BY SessionAssumption, FS_Interval DEF Slots
<1>. QED  BY <1>1, FS_Subset, FS_CardinalityType

(* What a tick does, in terms of its loops. *)
LEMMA TickIs ==
  ASSUME NEW said, Tick(said)
  PROVE  LET d == Turns!Fold(Messages!Fold(Begun(said), Ascending), Ascending)
         IN /\ \A s \in Slots : said[s] \in MaySay(Begun(said).clients[s])
            /\ clients' = [s \in Slots |-> Aging(d.clients[s])]
            /\ transport' = d.transport
            /\ pending_events' = d.events
            /\ players' = [s \in Slots |->
                 IF s = d.removed THEN Nobody
                 ELSE IF s = d.added /\ players[s] = Nobody THEN transport[s]
                 ELSE players[s]]
            /\ connections' = connections /\ receiving' = TRUE
<1>1. FoldLeft(HandleMessage, Begun(said), Ascending) = Messages!Fold(Begun(said), Ascending)
  BY DEF Messages!Fold, Messages!FoldLeft, Messages!MapThenFoldSet, Messages!Max,
         FoldLeft, MapThenFoldSet, Max
<1>2. FoldLeft(ProcessClient, Messages!Fold(Begun(said), Ascending), Ascending)
        = Turns!Fold(Messages!Fold(Begun(said), Ascending), Ascending)
  BY DEF Turns!Fold, Turns!FoldLeft, Turns!MapThenFoldSet, Turns!Max,
         FoldLeft, MapThenFoldSet, Max
<1>. QED  BY <1>1, <1>2 DEF Tick

(* A record that grows older. *)
LEMMA AgingIs ==
  ASSUME NEW c \in Client
  PROVE  /\ Aging(c) \in Client /\ Aging(c).state = c.state
         /\ Aging(c).silent <= c.silent + 1 /\ (~IsSet(c) => Aging(c) = c)
<1>1. \A age \in Nat : \A limit : Aged(age, limit) \in Nat /\ Aged(age, limit) <= age + 1
  BY DEF Aged
<1>2. CASE ~IsSet(c)
  BY <1>2 DEF Aging, Client
<1>3. CASE IsSet(c)
  <2>. DEFINE x == Aged(c.silent, Max({TimeToEnter, TimeInGame}))
              y == IF c.kicked = NotKicked THEN c.kicked ELSE Aged(c.kicked, Linger)
  <2>1. x \in Nat /\ x <= c.silent + 1
    BY <1>1 DEF Client
  <2>2. y \in Nat \cup {NotKicked}
    BY <1>1 DEF Client
  <2>3. Aging(c) = [c EXCEPT !.silent = x, !.kicked = y]
    BY <1>3 DEF Aging
  <2>. HIDE DEF x, y
  <2>. QED  BY <1>3, <2>1, <2>2, <2>3 DEF Client
<1>. QED  BY <1>2, <1>3

-----------------------------------------------------------------------------
(* The invariant, at the start of a tick, is what the loops ask for.       *)
LEMMA TickBegins ==
  ASSUME IInv, NEW said \in [Slots -> Sayings],
         \A s \in Slots : said[s] \in MaySay(Begun(said).clients[s]),
         NEW now, now = Now, NEW n, n = Others
  PROVE  n \in Nat /\ Fits(now, said) /\ Hearing(Begun(said), now, n, said)
<1>1. now = Events!Fold(clients, pending_events) /\ now = HandleEvents(pending_events)
  BY NowIs
<1>2. now \in [Slots -> Client]
  BY <1>1, NowType DEF IInv, TypeOK
<1>3. n \in Nat
  <2>1. Entering \in SUBSET Slots
    BY DEF Entering
  <2>2. Cardinality(Entering) \in Nat
    BY <2>1, EnteringIsFinite
  <2>. QED  BY <2>2 DEF Others, IInv, TypeOK, Patient
<1>4. Fits(now, said)
  <2>1. \A s \in Slots : (IsSet(now[s]) <=> transport[s] # Nobody) /\ (Receives(now[s]) => players[s] = transport[s])
    BY DEF IInv, SlotsAgree, OwnCharacter
  <2>2. \A s \in Slots : said[s] \in MaySay(now[s])
    BY <1>1 DEF Begun
  <2>. QED  BY <1>2, <2>1, <2>2 DEF Fits
<1>5. PICK t : t = Begun(said)
  OBVIOUS
<1>6. /\ t.said = said /\ t.clients = now /\ t.transport = transport
      /\ t.events = <<>> /\ t.added = NoSlot /\ t.removed = NoSlot
      /\ t = [said |-> said, clients |-> now, transport |-> transport,
              events |-> <<>>, added |-> NoSlot, removed |-> NoSlot]
  BY <1>1, <1>5 DEF Begun
<1>7. t \in TickType
  <2>1. <<>> \in Seq(Event) /\ transport \in [Slots -> Nat]
    BY DEF IInv, TypeOK
  <2>. QED  BY <1>2, <1>6, <2>1 DEF TickType
<1>8. OnlyLeft(t)
  BY <1>6 DEF OnlyLeft
<1>9. ASSUME NEW s \in Slots PROVE Good(t, now, n, s)
  <2>1. s # NoSlot
    BY SessionAssumption DEF Slots, NoSlot
  <2>2. (IsSet(now[s]) <=> transport[s] # Nobody) /\ (Receives(now[s]) => players[s] = transport[s])
    BY <1>4 DEF Fits
  <2>3. now[s] = clients[s] \/ now[s].state \in {"INITIATING_CONNECTION", "PENDING_WELCOME"}
    BY <1>1, EventsBegin DEF IInv, TypeOK
  <2>4. now[s].state = "WELCOME_ARRIVED" /\ players[s] = Nobody => now[s].silent <= n
    BY <2>3 DEF IInv, Patient
  <2>. QED  BY <1>6, <2>1, <2>2, <2>4 DEF Good
<1>10. InOrder(t, now, n)
  BY <1>7, <1>8, <1>9 DEF InOrder
<1>11. Hearing(t, now, n, said)
  BY <1>6, <1>10 DEF Hearing
<1>. QED  BY <1>3, <1>4, <1>5, <1>11

(* A tick keeps the records and the transport agreed, gives nobody the     *)
(* player of another, and lets who waits wait for one more connection.     *)
LEMMA TickKeeps ==
  ASSUME IInv, NEW said \in [Slots -> Sayings], Tick(said)
  PROVE  IInv'
<1>1. PICK now, n : now = Now /\ n = Others
  OBVIOUS
<1>2. /\ n \in Nat /\ Fits(now, said) /\ Hearing(Begun(said), now, n, said)
  BY <1>1, TickIs, TickBegins
<1>3. PICK t : t = Begun(said)
  OBVIOUS
<1>4. PICK h : h = Messages!Fold(t, Ascending)
  OBVIOUS
<1>5. PICK d : d = Turns!Fold(h, Ascending)
  OBVIOUS
<1>6. Hearing(h, now, n, said)
  BY <1>2, <1>3, <1>4, AllHeard
<1>7. InOrder(d, now, n) /\ \A s \in Slots : Served(d, s)
  BY <1>2, <1>5, <1>6, AllProcessed DEF Hearing
<1>8. /\ clients' = [s \in Slots |-> Aging(d.clients[s])]
      /\ transport' = d.transport
      /\ pending_events' = d.events
      /\ players' = [s \in Slots |->
           IF s = d.removed THEN Nobody
           ELSE IF s = d.added /\ players[s] = Nobody THEN transport[s]
           ELSE players[s]]
      /\ connections' = connections /\ receiving' = TRUE
  <2>1. d = Turns!Fold(Messages!Fold(Begun(said), Ascending), Ascending)
    BY <1>3, <1>4, <1>5
  <2>. DEFINE D == Turns!Fold(Messages!Fold(Begun(said), Ascending), Ascending)
  <2>2. /\ clients' = [s \in Slots |-> Aging(D.clients[s])]
        /\ transport' = D.transport
        /\ pending_events' = D.events
        /\ players' = [s \in Slots |->
             IF s = D.removed THEN Nobody
             ELSE IF s = D.added /\ players[s] = Nobody THEN transport[s]
             ELSE players[s]]
        /\ connections' = connections /\ receiving' = TRUE
    BY TickIs
  <2>. HIDE DEF D
  <2>3. d = D
    BY <2>1 DEF D
  <2>. QED  BY <2>2, <2>3
<1>9. d \in TickType /\ OnlyLeft(d) /\ \A s \in Slots : Good(d, now, n, s)
  BY <1>7 DEF InOrder
<1>10. PICK c : c = [s \in Slots |-> Aging(d.clients[s])]
  OBVIOUS
<1>11. ASSUME NEW s \in Slots
       PROVE  /\ d.clients[s] \in Client /\ c[s] \in Client /\ c[s].state = d.clients[s].state
              /\ c[s].silent <= d.clients[s].silent + 1 /\ (~IsSet(d.clients[s]) => c[s] = d.clients[s])
  <2>1. d.clients[s] \in Client /\ c[s] = Aging(d.clients[s])
    BY <1>9, <1>10 DEF TickType
  <2>. QED  BY <2>1, AgingIs
<1>12. c \in [Slots -> Client]
  BY <1>10, <1>11
<1>13. clients' = c /\ Now' = c
  <2>1. \A i \in DOMAIN d.events : ~d.events[i].connected /\ c[d.events[i].client_id] = Unset
    <3>. SUFFICES ASSUME NEW i \in DOMAIN d.events
                  PROVE  ~d.events[i].connected /\ c[d.events[i].client_id] = Unset
      OBVIOUS
    <3>1. ~d.events[i].connected /\ d.clients[d.events[i].client_id] = Unset
      BY <1>9 DEF OnlyLeft
    <3>2. d.events[i].client_id \in Slots
      BY <1>9, EventSlots
    <3>. QED  BY <1>11, <3>1, <3>2 DEF IsSet, Unset
  <2>2. d.events \in Seq(Event)
    BY <1>9 DEF TickType
  <2>3. Events!Fold(c, d.events) = c
    BY <1>12, <2>1, <2>2, EventsIdle
  <2>. QED  BY <1>8, <1>10, <2>3, NowIs
<1>14. ASSUME NEW s \in Slots
       PROVE  /\ IsSet(c[s]) <=> IsSet(d.clients[s])
              /\ Receives(c[s]) <=> Receives(d.clients[s])
  BY <1>11 DEF IsSet, Receives
<1>15. TypeOK'
  <2>1. d.transport \in [Slots -> Nat] /\ d.events \in Seq(Event)
    BY <1>9 DEF TickType
  <2>2. players' \in [Slots -> Nat]
    BY <1>8 DEF IInv, TypeOK, Nobody
  <2>. QED  BY <1>8, <1>12, <1>13, <2>1, <2>2 DEF IInv, TypeOK
<1>16. SlotsAgree'
  <2>1. ASSUME NEW s \in Slots PROVE (IsSet(Now[s]) <=> transport[s] # Nobody)'
    <3>1. IsSet(c[s]) <=> d.transport[s] # Nobody
      BY <1>9, <1>14 DEF Good
    <3>. QED  BY <1>8, <1>13, <3>1 DEF IsSet
  <2>2. ASSUME NEW i \in DOMAIN pending_events' PROVE ~pending_events[i].connected'
    BY <1>8, <1>9, <2>2 DEF OnlyLeft
  <2>. QED  BY <2>1, <2>2 DEF SlotsAgree
<1>17. OwnCharacter'
  <2>. SUFFICES ASSUME NEW s \in Slots, Receives(c[s]) PROVE players'[s] = transport'[s]
    BY <1>13 DEF OwnCharacter, Receives
  <2>1. Receives(d.clients[s]) /\ IsSet(d.clients[s])
    BY <1>14 DEF Receives, IsSet
  <2>2. Good(d, now, n, s)
    BY <1>9
  <2>3. d.removed # s /\ d.transport[s] = transport[s]
    BY <2>1, <2>2 DEF Good
  <2>4. CASE d.added = s
    <3>1. players[s] = Nobody
      BY <2>2, <2>4 DEF Good
    <3>. QED  BY <1>8, <2>3, <2>4, <3>1
  <2>5. CASE d.added # s
    <3>1. players[s] = transport[s]
      BY <2>1, <2>2, <2>5 DEF Good
    <3>. QED  BY <1>8, <2>3, <2>5, <3>1
  <2>. QED  BY <2>4, <2>5
<1>18. Patient'
  <2>1. PICK E : E = Entering
    OBVIOUS
  <2>2. PICK F : F = Entering'
    OBVIOUS
  <2>3. F = {s \in Slots : d.transport[s] # Nobody /\ ~Receives(c[s])}
    BY <1>8, <1>13, <2>2 DEF Entering, Receives
  <2>4. E = {s \in Slots : transport[s] # Nobody /\ ~Receives(now[s])}
    BY <1>1, <2>1 DEF Entering
  <2>5. F \subseteq E
    <3>. SUFFICES ASSUME NEW s \in Slots, d.transport[s] # Nobody, ~Receives(c[s])
                  PROVE  transport[s] # Nobody /\ ~Receives(now[s])
      BY <2>3, <2>4
    <3>1. Good(d, now, n, s) /\ ~Receives(d.clients[s])
      BY <1>9, <1>14
    <3>. QED  BY <3>1 DEF Good
  <2>6. IsFiniteSet(E) /\ Cardinality(E) \in Nat /\ Cardinality(F) \in Nat /\ Cardinality(F) <= Cardinality(E)
    <3>1. E \in SUBSET Slots /\ F \in SUBSET Slots
      BY <2>3, <2>4
    <3>. QED  BY <2>5, <3>1, EnteringIsFinite, FS_Subset
  <2>7. n = connections - Cardinality(E) /\ Others' = connections - Cardinality(F) /\ connections \in Nat
    BY <1>1, <1>8, <2>1, <2>2 DEF Others, IInv, TypeOK
  <2>8. Others' >= n
    BY <2>6, <2>7
  <2>9. ASSUME NEW s \in Slots, c[s].state = "WELCOME_ARRIVED", players'[s] = Nobody
        PROVE  c[s].silent <= Others'
    <3>1. Good(d, now, n, s) /\ Served(d, s) /\ d.clients[s].state = "WELCOME_ARRIVED"
      BY <1>7, <1>9, <1>11, <2>9
    <3>2. IsSet(d.clients[s]) /\ d.removed # s /\ d.added # s
      BY <3>1 DEF Good, IsSet
    <3>3. players[s] = Nobody
      BY <1>8, <2>9, <3>2
    <3>4. d.added # NoSlot /\ d.clients[s].silent <= n
      BY <3>1, <3>3 DEF Served, Good
    <3>5. PICK a \in Slots : a = d.added
      BY <1>9, <3>4 DEF TickType
    <3>6. Good(d, now, n, a)
      BY <1>9
    <3>7. a \in E
      <4>1. players[a] = Nobody /\ transport[a] # Nobody
        BY <3>5, <3>6 DEF Good
      <4>2. Receives(now[a]) => players[a] = transport[a]
        BY <1>2 DEF Fits
      <4>. QED  BY <2>4, <4>1, <4>2
    <3>8. a \notin F
      <4>1. d.clients[a].state \notin {"PENDING_WELCOME", "WELCOME_ARRIVED"} /\ d.clients[a] \in Client
        BY <1>11, <3>5, <3>6 DEF Good
      <4>2. Receives(d.clients[a]) \/ ~IsSet(d.clients[a])
        BY <4>1 DEF Client, States, Receives, IsSet
      <4>. QED  BY <1>14, <2>3, <3>6, <4>2 DEF Good
    <3>9. Cardinality(F) <= Cardinality(E) - 1
      <4>1. F \in SUBSET (E \ {a}) /\ IsFiniteSet(E \ {a}) /\ Cardinality(E \ {a}) = Cardinality(E) - 1
        BY <2>5, <2>6, <3>7, <3>8, FS_RemoveElement
      <4>. QED  BY <4>1, FS_Subset
    <3>10. n + 1 <= Others'
      BY <2>6, <2>7, <3>9
    <3>11. c[s].silent <= d.clients[s].silent + 1 /\ c[s].silent \in Nat /\ d.clients[s].silent \in Nat
      BY <1>11 DEF Client
    <3>12. Others' \in Int
      BY <2>6, <2>7
    <3>. QED  BY <1>2, <3>4, <3>10, <3>11, <3>12
  <2>10. Others' >= 0
    BY <1>2, <2>6, <2>7, <2>8
  <2>. QED  BY <1>13, <2>9, <2>10 DEF Patient
<1>. QED  BY <1>15, <1>16, <1>17, <1>18 DEF IInv

-----------------------------------------------------------------------------
(* The transport reports who comes or goes: the record that the event will *)
(* leave is the newcomer's, or empty.                                      *)
LEMMA ReportKeeps ==
  ASSUME IInv, NEW s \in Slots, NEW b \in BOOLEAN, NEW who \in Nat, who # Nobody <=> b,
         b => transport[s] = Nobody,
         transport' = [transport EXCEPT ![s] = who],
         pending_events' = Append(pending_events, [client_id |-> s, connected |-> b]),
         clients' = clients, players' = players, receiving' = receiving,
         connections' = connections + IF b THEN 1 ELSE 0, connections' <= MaxConnections
  PROVE  IInv'
<1>1. PICK c, ev, e : /\ c = clients /\ ev = pending_events
                      /\ e = [client_id |-> s, connected |-> b]
  OBVIOUS
<1>2. c \in [Slots -> Client] /\ ev \in Seq(Event) /\ e \in Event /\ e.client_id = s /\ e.connected = b
  BY <1>1 DEF IInv, TypeOK, Event
<1>3. PICK now, next : now = Events!Fold(c, ev) /\ next = Events!Fold(c, Append(ev, e))
  OBVIOUS
<1>4. Now = now /\ Now' = next /\ next = HandleEvent(now, e)
  <2>1. next = HandleEvent(now, e)
    BY ONLY <1>2, <1>3, OneMore
  <2>2. clients' = c /\ pending_events' = Append(ev, e)
    BY <1>1
  <2>. QED  BY <1>1, <1>3, <2>1, <2>2, NowIs
<1>5. now \in [Slots -> Client]
  BY <1>2, <1>3, NowType
<1>6. /\ \A r \in Slots \ {s} : next[r] = now[r]
      /\ next[s].state = IF b THEN "PENDING_WELCOME" ELSE "INITIATING_CONNECTION"
  BY <1>2, <1>4, <1>5, EventType
<1>7. TypeOK'
  <2>1. pending_events' \in Seq(Event)
    BY <1>1, <1>2
  <2>2. transport' \in [Slots -> Nat] /\ connections' \in 0..MaxConnections
    BY SessionAssumption DEF IInv, TypeOK
  <2>. QED  BY <2>1, <2>2 DEF IInv, TypeOK
<1>8. transport'[s] = who /\ \A r \in Slots \ {s} : transport'[r] = transport[r]
  BY DEF IInv, TypeOK
<1>9. SlotsAgree'
  <2>1. ASSUME NEW r \in Slots PROVE IsSet(next[r]) <=> transport'[r] # Nobody
    <3>1. IsSet(now[r]) <=> transport[r] # Nobody
      BY <1>4 DEF IInv, SlotsAgree
    <3>. QED  BY <1>6, <1>8, <3>1 DEF IsSet
  <2>2. Len(ev) \in Nat /\ DOMAIN ev = 1..Len(ev)
    BY <1>2, LenProperties
  <2>3. /\ DOMAIN Append(ev, e) = 1..Len(ev) + 1
        /\ Append(ev, e)[Len(ev) + 1] = e
        /\ \A i \in 1..Len(ev) : Append(ev, e)[i] = ev[i]
    BY <1>2, <2>2
  <2>4. \A i \in 1..Len(ev) + 1 : SubSeq(Append(ev, e), 1, i - 1) = SubSeq(ev, 1, i - 1)
    <3>. SUFFICES ASSUME NEW i \in 1..Len(ev) + 1
                  PROVE  SubSeq(Append(ev, e), 1, i - 1) = SubSeq(ev, 1, i - 1)
      OBVIOUS
    <3>1. i - 1 \in 0..Len(ev) /\ \A j \in 1..i - 1 : Append(ev, e)[j] = ev[j]
      BY <2>2, <2>3
    <3>2. Append(ev, e) \in Seq(Event) /\ i - 1 \in 0..Len(Append(ev, e))
      BY <1>2, <2>2
    <3>3. /\ SubSeq(ev, 1, i - 1) = Restrict(ev, 1..i - 1)
          /\ SubSeq(Append(ev, e), 1, i - 1) = Restrict(Append(ev, e), 1..i - 1)
      BY <1>2, <3>1, <3>2, SubSeqRestrict
    <3>. QED  BY <3>1, <3>3 DEF Restrict
  <2>5. SubSeq(ev, 1, Len(ev)) = ev
    BY <1>2
  <2>6. ASSUME NEW i \in 1..Len(ev) + 1, Append(ev, e)[i].connected
        PROVE  ~IsSet(Events!Fold(c, SubSeq(Append(ev, e), 1, i - 1))[Append(ev, e)[i].client_id])
    <3>1. CASE i = Len(ev) + 1
      <4>1. Append(ev, e)[i] = e /\ SubSeq(Append(ev, e), 1, i - 1) = ev /\ b
        BY <1>2, <2>2, <2>3, <2>4, <2>5, <2>6, <3>1
      <4>2. ~IsSet(now[s])
        BY <1>4, <4>1 DEF IInv, SlotsAgree
      <4>. QED  BY <1>2, <1>3, <4>1, <4>2
    <3>2. CASE i \in 1..Len(ev)
      <4>1. /\ pending_events[i].connected
            /\ Append(ev, e)[i] = pending_events[i]
            /\ SubSeq(Append(ev, e), 1, i - 1) = SubSeq(pending_events, 1, i - 1)
        BY <1>1, <2>3, <2>4, <2>6, <3>2
      <4>2. ~IsSet(HandleEvents(SubSeq(pending_events, 1, i - 1))[pending_events[i].client_id])
        BY <1>1, <2>2, <3>2, <4>1 DEF IInv, SlotsAgree
      <4>. QED  BY <1>1, <4>1, <4>2, NowIs
    <3>. QED  BY <2>2, <3>1, <3>2
  <2>7. pending_events' = Append(ev, e) /\ clients' = c
    BY <1>1
  <2>8. \A es : HandleEvents(es)' = Events!Fold(c, es')
    BY <1>1, NowIs DEF HandleEvents, Events!Fold, Events!FoldLeft, Events!MapThenFoldSet, Events!Max,
       FoldLeft, MapThenFoldSet, Max
  <2>. QED  BY <1>4, <2>1, <2>3, <2>6, <2>7, <2>8 DEF SlotsAgree
<1>10. OwnCharacter'
  <2>. SUFFICES ASSUME NEW r \in Slots, Receives(next[r]) PROVE players[r] = transport'[r]
    BY <1>4 DEF OwnCharacter, Receives
  <2>1. r # s
    BY <1>6 DEF Receives
  <2>2. Receives(now[r])
    BY <1>6, <2>1
  <2>. QED  BY <1>4, <1>8, <2>1, <2>2 DEF IInv, OwnCharacter
<1>11. Patient'
  <2>1. PICK E, F : E = Entering /\ F = Entering'
    OBVIOUS
  <2>2. /\ E = {r \in Slots : transport[r] # Nobody /\ ~Receives(now[r])}
        /\ F = {r \in Slots : transport'[r] # Nobody /\ ~Receives(next[r])}
    BY <1>4, <2>1 DEF Entering, Receives
  <2>3. F \subseteq (IF b THEN E \cup {s} ELSE E)
    BY <1>6, <1>8, <2>2
  <2>4. IsFiniteSet(E) /\ Cardinality(E) \in Nat /\ Cardinality(F) \in Nat
    BY <2>2, EnteringIsFinite
  <2>5. Cardinality(F) <= Cardinality(E) + IF b THEN 1 ELSE 0
    <3>1. CASE b
      <4>1. /\ IsFiniteSet(E \cup {s}) /\ Cardinality(E \cup {s}) \in Nat
            /\ Cardinality(E \cup {s}) = IF s \in E THEN Cardinality(E) ELSE Cardinality(E) + 1
        BY <2>4, FS_AddElement, FS_CardinalityType
      <4>2. F \in SUBSET (E \cup {s})
        BY <2>3, <3>1
      <4>3. Cardinality(F) <= Cardinality(E \cup {s})
        BY <4>1, <4>2, FS_Subset
      <4>. QED  BY <2>4, <3>1, <4>1, <4>3
    <3>2. CASE ~b
      <4>1. Cardinality(F) <= Cardinality(E)
        BY <2>3, <2>4, <3>2, FS_Subset
      <4>. QED  BY <2>4, <3>2, <4>1
    <3>. QED  BY <3>1, <3>2
  <2>6. /\ Others = connections - Cardinality(E) /\ connections \in Nat
        /\ Others' = connections' - Cardinality(F)
    BY <2>1 DEF Others, IInv, TypeOK
  <2>7. Others' >= Others /\ Others' \in Int /\ Others \in Int
    BY <2>4, <2>5, <2>6
  <2>8. ASSUME NEW r \in Slots, clients[r].state = "WELCOME_ARRIVED", players[r] = Nobody
        PROVE  clients[r].silent <= Others'
    <3>1. clients[r].silent <= Others /\ clients[r].silent \in Nat
      BY <2>8 DEF IInv, Patient, TypeOK, Client
    <3>. QED  BY <2>7, <3>1
  <2>9. Others' >= 0
    BY <2>7 DEF IInv, Patient
  <2>. QED  BY <2>8, <2>9 DEF Patient
<1>. QED  BY <1>7, <1>9, <1>10, <1>11 DEF IInv

-----------------------------------------------------------------------------
(* The invariant holds at first, when nobody is connected.                 *)
LEMMA InitHolds == Init => IInv
<1>. SUFFICES ASSUME Init PROVE IInv
  OBVIOUS
<1>1. Unset \in Client /\ ~IsSet(Unset) /\ ~Receives(Unset) /\ Unset.state # "WELCOME_ARRIVED"
  BY DEF Unset, Client, States, IsSet, Receives, NotKicked
<1>2. TypeOK
  <2>1. <<>> \in Seq(Event)
    OBVIOUS
  <2>2. 0 \in 0..MaxConnections
    BY SessionAssumption
  <2>. QED  BY <1>1, <2>1, <2>2 DEF Init, TypeOK, Nobody
<1>3. Now = clients
  <2>1. \A i \in DOMAIN pending_events :
          ~pending_events[i].connected /\ clients[pending_events[i].client_id] = Unset
    BY DEF Init
  <2>2. PICK c, ev : c = clients /\ ev = pending_events
    OBVIOUS
  <2>3. c \in [Slots -> Client] /\ ev \in Seq(Event)
    BY <1>2, <2>2 DEF TypeOK
  <2>4. Events!Fold(c, ev) = c
    BY <2>1, <2>2, <2>3, EventsIdle
  <2>. QED  BY <2>2, <2>4, NowIs
<1>4. SlotsAgree
  BY <1>1, <1>3 DEF Init, SlotsAgree, Nobody
<1>5. OwnCharacter
  BY <1>1, <1>3 DEF Init, OwnCharacter
<1>6. Patient
  <2>1. Entering = {}
    BY DEF Init, Entering, Nobody
  <2>2. Others = 0
    BY <2>1, FS_EmptySet DEF Others, Init
  <2>. QED  BY <1>1, <2>2 DEF Init, Patient
<1>. QED  BY <1>2, <1>4, <1>5, <1>6 DEF IInv

(* A newcomer gets the lowest free slot. *)
LEMMA ConnectKeeps == IInv /\ Connect => IInv'
<1>. SUFFICES ASSUME IInv, Connect PROVE IInv'
  OBVIOUS
<1>. DEFINE free == {s \in Slots : transport[s] = Nobody}
<1>1. free \in SUBSET Nat /\ free # {}
  BY SessionAssumption DEF Slots, Connect
<1>2. PICK s \in Slots : s = Min(free) /\ transport[s] = Nobody
  BY <1>1, LowestIsOne
<1>3. /\ transport' = [transport EXCEPT ![s] = connections + 1]
      /\ pending_events' = Append(pending_events, [client_id |-> s, connected |-> TRUE])
      /\ connections' = connections + 1 /\ connections < MaxConnections
      /\ clients' = clients /\ players' = players /\ receiving' = receiving
  BY <1>2 DEF Connect
<1>4. PICK who \in Nat : who = connections + 1 /\ who # Nobody
  BY DEF IInv, TypeOK, Nobody
<1>5. connections + 1 <= MaxConnections
  BY <1>3, SessionAssumption DEF IInv, TypeOK
<1>. QED  BY <1>2, <1>3, <1>4, <1>5, ReportKeeps

(* A client leaves its slot. *)
LEMMA LeaveKeeps == IInv /\ (\E s \in Slots : Leave(s)) => IInv'
<1>. SUFFICES ASSUME IInv, NEW s \in Slots, Leave(s) PROVE IInv'
  OBVIOUS
<1>1. /\ transport' = [transport EXCEPT ![s] = Nobody]
      /\ pending_events' = Append(pending_events, [client_id |-> s, connected |-> FALSE])
      /\ connections' = connections + IF FALSE THEN 1 ELSE 0
      /\ connections' <= MaxConnections
      /\ clients' = clients /\ players' = players /\ receiving' = receiving
  BY SessionAssumption DEF Leave, IInv, TypeOK
<1>2. Nobody \in Nat
  BY DEF Nobody
<1>. QED  BY <1>1, <1>2, ReportKeeps

(* A step of nobody, or of the packets' end, leaves the records alone. *)
LEMMA RestKeeps ==
  ASSUME IInv, UNCHANGED <<transport, pending_events, clients, players, connections>>,
         receiving' \in BOOLEAN
  PROVE  IInv'
<1>1. Now' = Now
  BY NowIs
<1>2. TypeOK'
  BY DEF IInv, TypeOK
<1>3. \A ev : HandleEvents(ev)' = Events!Fold(clients, ev')
  BY DEF HandleEvents, Events!Fold, Events!FoldLeft, Events!MapThenFoldSet, Events!Max,
         FoldLeft, MapThenFoldSet, Max
<1>4. SlotsAgree'
  BY <1>1, <1>3, NowIs DEF IInv, SlotsAgree
<1>5. OwnCharacter'
  BY <1>1 DEF IInv, OwnCharacter
<1>6. Patient'
  <2>1. Entering' = Entering
    BY <1>1 DEF Entering
  <2>2. Others' = Others
    BY <2>1 DEF Others
  <2>. QED  BY <2>2 DEF IInv, Patient
<1>. QED  BY <1>2, <1>4, <1>5, <1>6 DEF IInv

(* Whatever the server or its clients do keeps the invariant. *)
LEMMA StepKeeps == IInv /\ [Next]_vars => IInv'
<1>. SUFFICES ASSUME IInv, [Next]_vars PROVE IInv'
  OBVIOUS
<1>1. CASE Connect
  BY <1>1, ConnectKeeps
<1>2. CASE \E s \in Slots : Leave(s)
  BY <1>2, LeaveKeeps
<1>3. CASE PacketsReceived
  BY <1>3, RestKeeps DEF PacketsReceived
<1>4. CASE \E said \in [Slots -> Sayings] : Tick(said)
  BY <1>4, TickKeeps
<1>5. CASE UNCHANGED vars
  BY <1>5, RestKeeps DEF vars, IInv, TypeOK
<1>. QED  BY <1>1, <1>2, <1>3, <1>4, <1>5 DEF Next

(* The inductive invariant holds, for any number of slots and connections  *)
(* (server_setup.cpp, advance_clients_state()).                            *)
THEOREM Invariant == Spec => []IInv
BY InitHolds, StepKeeps, PTL DEF Spec

(* The server's records and the transport agree on who is connected, and   *)
(* no event connects a client into a record that is still in use           *)
(* (server_setup::init_client, unset_client).                              *)
THEOREM KeepsSlotsAgreed == Spec => []SlotsAgree
<1>1. IInv => SlotsAgree
  BY DEF IInv
<1>. QED  BY <1>1, Invariant, PTL

(* Who receives the steps of the game plays its own character, not that of *)
(* the client who had the slot before.                                     *)
THEOREM PlaysItsOwn == Spec => []OwnCharacter
<1>1. IInv => OwnCharacter
  BY DEF IInv
<1>. QED  BY <1>1, Invariant, PTL

(* Who could be admitted waits at most a tick for each connection that was *)
(* admitted or has gone: one client is admitted per tick, and each once.   *)
THEOREM WaitsATickForEach == Spec => []Patient
<1>1. IInv => Patient
  BY DEF IInv
<1>. QED  BY <1>1, Invariant, PTL

(* So, if the time to enter leaves a tick for each connection there will   *)
(* be, who waits beyond it waits for the player of a predecessor to go.    *)
THEOREM WaitsForPredecessorOnly ==
  ASSUME MaxConnections <= TimeToEnter
  PROVE  Spec => []PlaysOwnCharacter
<1>1. IInv => PlaysOwnCharacter
  <2>. SUFFICES ASSUME IInv, NEW s \in Slots, Waiting(s) PROVE players[s] # Nobody
    BY DEF PlaysOwnCharacter, IInv
  <2>1. /\ clients[s].state = "WELCOME_ARRIVED" /\ clients[s].silent > TimeToEnter
        /\ clients[s].silent \in Nat
    BY DEF Waiting, IInv, TypeOK, Client
  <2>2. players[s] = Nobody => clients[s].silent <= Others
    BY <2>1 DEF IInv, Patient
  <2>3. Entering \in SUBSET Slots
    BY DEF Entering
  <2>4. PICK k \in Nat : k = Cardinality(Entering)
    BY <2>3, EnteringIsFinite
  <2>5. connections \in Nat /\ connections <= MaxConnections /\ Others = connections - k
    BY <2>4, SessionAssumption DEF Others, IInv, TypeOK
  <2>6. MaxConnections \in Nat /\ TimeToEnter \in Nat
    BY SessionAssumption
  <2>7. Others <= TimeToEnter /\ Others \in Int
    BY <2>5, <2>6
  <2>. QED  BY <2>1, <2>2, <2>6, <2>7
<1>. QED  BY <1>1, Invariant, PTL
=============================================================================
