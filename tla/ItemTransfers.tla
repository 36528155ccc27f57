---------------------------- MODULE ItemTransfers ----------------------------
(***************************************************************************)
(* Items of the players and the ways they change hands: transfers commanded *)
(* by a player, mounting that takes time, reloading that a player's weapons *)
(* go through on their own, and items picked up by touching them.           *)
(*                                                                          *)
(* One action is one step of the cosmos: at most one event from outside     *)
(* (which may be several players touching things), then, in the order of    *)
(* standard_solve(), chambering, reloading, mounting, picking up and the    *)
(* deletions queued meanwhile. The parts of a step are operators from one   *)
(* world to the next.                                                       *)
(*                                                                          *)
(* Magazines are not opened and nothing is fired, so the rounds of a        *)
(* magazine are a number that stays. Cooldowns after a transfer, and guns   *)
(* that cannot be chambered one in each hand, are left out.                 *)
(***************************************************************************)
EXTENDS Integers, SequencesExt

CONSTANTS
    PlayerOrder,    \* the players, in the order of their entities
    ItemOrder,      \* all ids of items, in their order
    Kind,           \* what each item is
    NoEntity,       \* the id that denotes nothing
    BagSpace,       \* the room in a bag
    MountTime,      \* steps a mount or an unmount into a hand takes
    ChamberTime,    \* steps it takes to chamber a rocket
    LowAmmoCue,     \* num_last_bullets_to_trigger_low_ammo_cue of the rifle
    StartInside,    \* what the slots that are not empty hold at first
    StartCharges,   \* the sizes of stacks a game may begin with
    StartRounds,    \* the rounds in magazines a game may begin with
    MaxEvents       \* bound: events from outside

ASSUME ItemAssumption ==
    /\ BagSpace \in Nat /\ MountTime \in Nat \ {0} /\ ChamberTime \in Nat \ {0}
    /\ LowAmmoCue \in Nat /\ MaxEvents \in Nat /\ NoEntity \notin ToSet(PlayerOrder) \cup ToSet(ItemOrder)

(***************************************************************************)
(* world.inside        the items in each slot, in the order they came       *)
(* world.charges       the size of each stack, 0 for an id that is free     *)
(* world.rounds        the rounds in each magazine                          *)
(* world.mounts        the pending mount of each item                       *)
(* world.ctx           the reloading context of each player                 *)
(* world.chambering    how long a launcher has been loading its chamber     *)
(* world.doomed        what is deleted when the step ends                   *)
(* world.failed        whether an assertion failed, and over what           *)
(* world.accounted     history: how many charges there should be            *)
(***************************************************************************)
VARIABLES
    world,
    events,         \* how many events came from outside
    parity          \* the number of steps taken, modulo 2

vars == <<world, events, parity>>

Players == ToSet(PlayerOrder)
Items == ToSet(ItemOrder)
Of(kind) == {i \in Items : Kind[i] = kind}
Rockets == Of("rocket")

Hands == {"PRIMARY_HAND", "SECONDARY_HAND"}

Slots ==
    ((Hands \cup {"BACK"}) \X Players)
        \cup ({"GUN_DETACHABLE_MAGAZINE"} \X Of("rifle"))
        \cup ({"GUN_CHAMBER", "GUN_CHAMBER_MAGAZINE"} \X Of("launcher"))
        \cup ({"ITEM_DEPOSIT"} \X Of("bag"))

Nowhere == <<"INVALID", NoEntity>>

NoMount == [to |-> Nowhere, quantity |-> 0, progress |-> 0]
NoContext == [slot |-> Nowhere, new |-> NoEntity, old |-> NoEntity]

-----------------------------------------------------------------------------
(* Slots *)

IsMounted(s) == s[1] \in {"GUN_DETACHABLE_MAGAZINE", "GUN_CHAMBER", "GUN_CHAMBER_MAGAZINE"}
IsHand(s) == s[1] \in Hands

Compatible(s, i) ==
    CASE s[1] = "BACK" -> Kind[i] = "bag"
      [] s[1] = "GUN_DETACHABLE_MAGAZINE" -> Kind[i] = "magazine"
      [] s[1] \in {"GUN_CHAMBER", "GUN_CHAMBER_MAGAZINE"} -> Kind[i] = "rocket"
      [] OTHER -> TRUE

ExactlyOneItem(s) == s[1] # "ITEM_DEPOSIT"

Unlimited == 1000

SpaceAvailable(s) ==
    CASE s[1] = "ITEM_DEPOSIT" -> BagSpace
      [] s[1] \in {"GUN_CHAMBER", "GUN_CHAMBER_MAGAZINE"} -> 1
      [] OTHER -> Unlimited

SpacePerCharge(i) ==
    [rocket |-> 1, bag |-> 1, magazine |-> 2, rifle |-> 3, launcher |-> 4][Kind[i]]

Charges(w, i) == IF Kind[i] = "rocket" THEN w.charges[i] ELSE 1
Alive(w, i) == i \in Items /\ Charges(w, i) > 0
CanStack(i, j) == i \in Rockets /\ j \in Rockets

\* The first of those found, if any was.
HeadOr(found, none) == IF found = <<>> THEN none ELSE Head(found)
OneOr(found, none) == IF found = {} THEN none ELSE CHOOSE one \in found : TRUE

CurrentSlot(w, e) == OneOr({s \in Slots : Contains(w.inside[s], e)}, Nowhere)

\* A slot with those its container lies in.
RECURSIVE SlotAndAncestors(_, _)
SlotAndAncestors(w, s) ==
    IF s = Nowhere THEN {} ELSE {s} \cup SlotAndAncestors(w, CurrentSlot(w, s[2]))

\* The player who has the slot, directly or in something carried.
CapabilityOver(w, s) == OneOr({a[2] : a \in SlotAndAncestors(w, s)} \cap Players, NoEntity)

OwningCapability(w, i) == CapabilityOver(w, CurrentSlot(w, i))

\* Only what a bag holds counts for its size, guns do not grow by their load.
RECURSIVE SpaceOccupied(_, _)
SpaceOccupied(w, i) ==
    Charges(w, i) * SpacePerCharge(i) +
        IF Kind[i] # "bag" THEN 0
        ELSE FoldLeft(LAMBDA sum, j : sum + SpaceOccupied(w, j), 0, w.inside[<<"ITEM_DEPOSIT", i>>])

SpaceInside(w, s) == FoldLeft(LAMBDA sum, i : sum + SpaceOccupied(w, i), 0, w.inside[s])

LocalSpaceAvailable(w, s) ==
    IF SpaceAvailable(s) = Unlimited THEN Unlimited
    ELSE Max({0, SpaceAvailable(s) - SpaceInside(w, s)})

SpaceOfSlotAlone(w, s) == LocalSpaceAvailable(w, s)
RealSpaceAvailable(w, s) ==
    IF s[1] = "GUN_CHAMBER_MAGAZINE" /\ w.inside[<<"GUN_CHAMBER", s[2]>>] # <<>> THEN 0
    ELSE Min({LocalSpaceAvailable(w, a) : a \in SlotAndAncestors(w, s)})

-----------------------------------------------------------------------------
(* What a transfer would do *)

Fitting(w, i, quantity, rsa) ==
    LET n == Min({Charges(w, i), rsa \div SpacePerCharge(i)})
    IN  IF Charges(w, i) = 1 \/ Kind[i] # "rocket"
        THEN IF rsa > 0 /\ rsa >= SpaceOccupied(w, i) THEN 1 ELSE 0
        ELSE IF quantity = -1 THEN n ELSE Min({n, quantity})

\* How many charges of i the slot takes; all of them when quantity is -1.
ChargesContained(w, i, to, quantity) ==
    LET refused ==
            \/ Contains(w.inside[to], i)
            \/ ~Compatible(to, i)
            \/ ExactlyOneItem(to) /\ Len(w.inside[to]) = 1 /\ ~CanStack(w.inside[to][1], i)
    IN  IF refused THEN 0 ELSE Fitting(w, i, quantity, RealSpaceAvailable(w, to))

Reachable(w, s) ==
    \A a \in SlotAndAncestors(w, s) : a[1] \notin {"ITEM_DEPOSIT", "GUN_CHAMBER"}

AncestorMounted(w, s) == \E a \in SlotAndAncestors(w, s) \ {s} : IsMounted(a)

Wielded(w, p) ==
    FoldLeft(LAMBDA held, h : held \o w.inside[<<h, p>>], <<>>, <<"PRIMARY_HAND", "SECONDARY_HAND">>)

\* p has the item, q the slot it is to go to.
ConditionsBetween(w, from, to, p, q) ==
    LET mounting == ~IsMounted(from) /\ IsMounted(to)
        unmounting == IsMounted(from) /\ ~IsMounted(to)
        canMount == q = p /\ IsHand(from) /\ Reachable(w, to)
        canUnmount ==
            /\ q \in {p, NoEntity}
            /\ Reachable(w, from)
            /\ IF to = Nowhere THEN Len(Wielded(w, p)) <= 1
               ELSE w.inside[to] = <<>> /\ IsHand(to) /\ to[2] = p
        outOfReach(s) == s # Nowhere /\ AncestorMounted(w, s) /\ ~Reachable(w, s)
        possible ==
            CASE p = NoEntity -> ~IsMounted(to) /\ ~AncestorMounted(w, to)
              [] p # NoEntity /\ IsMounted(from) /\ IsMounted(to) -> FALSE
              [] p # NoEntity /\ mounting -> canMount
              [] p # NoEntity /\ unmounting -> canUnmount
              [] OTHER -> \A s \in {from, to} : ~outOfReach(s)
    IN  IF ~possible THEN "ABORT"
        ELSE IF p # NoEntity /\ (mounting \/ unmounting) THEN "PROGRESS" ELSE "NONE"

MountingConditions(w, i, to) ==
    ConditionsBetween(w, CurrentSlot(w, i), to, OwningCapability(w, i), CapabilityOver(w, to))

FreeIds(w) == {r \in Rockets : w.charges[r] = 0}

\* How many charges a transfer moves, 0 when it is refused.
TransferredCharges(w, i, to, quantity, bypass) ==
    LET p == OwningCapability(w, i)
        q == CapabilityOver(w, to)
        poolIsFull == Kind[i] = "rocket" /\ Cardinality(FreeIds(w)) <= 1
        refused ==
            \/ ~Alive(w, i)
            \/ poolIsFull
            \/ p # NoEntity /\ q # NoEntity /\ p # q
            \/ \E a \in SlotAndAncestors(w, to) : a[2] = i
            \/ ~bypass /\ MountingConditions(w, i, to) = "ABORT"
    IN  IF refused THEN 0
        ELSE IF to # Nowhere THEN ChargesContained(w, i, to, quantity)
             ELSE IF quantity = -1 THEN Charges(w, i) ELSE Min({quantity, Charges(w, i)})

-----------------------------------------------------------------------------
(* Transfers *)

Take(w, i) == [w EXCEPT !.inside = [s \in Slots |-> Remove(@[s], i)]]

InitiateMounting(w, i, to, quantity) ==
    LET m == w.mounts[i]
    IN  IF to = Nowhere /\ m # NoMount /\ ~IsMounted(m.to)
        THEN [w EXCEPT !.mounts[i].to = Nowhere]
        ELSE [w EXCEPT !.mounts[i] = [to |-> to, quantity |-> quantity, progress |-> 0]]

StackOntoOfTwo(w, i, target, n) ==
    LET moved == [w EXCEPT !.charges[target] = @ + n]
    IN  IF n = Charges(w, i) THEN moved ELSE [moved EXCEPT !.charges[i] = @ - n]

\* The whole stack is only queued for deletion: it keeps its charges, and lies
\* nowhere, until the step ends.
StackOnto(w, i, target, n) ==
    LET moved == [w EXCEPT !.charges[target] = @ + n,
                           !.accounted = IF i \in w.doomed THEN @ + n ELSE @]
    IN  IF n = Charges(w, i) THEN [moved EXCEPT !.doomed = @ \cup {i}]
        ELSE [moved EXCEPT !.charges[i] = @ - n]

NewId(w) == LET f == SelectInSeq(ItemOrder, LAMBDA i : i \in FreeIds(w)) IN ItemOrder[f]

Put(w, i, to) == IF to = Nowhere THEN w ELSE [w EXCEPT !.inside[to] = Append(@, i)]

Split(w, i, to, n) ==
    LET clone == NewId(w)
    IN  Put([w EXCEPT !.charges[i] = @ - n, !.charges[clone] = n,
                      !.accounted = IF i \in w.doomed THEN @ + n ELSE @], clone, to)

Move(w, i, to, n) ==
    LET whole == n = Charges(w, i)
        taken == IF whole THEN Take(w, i) ELSE w
        target == IF to = Nowhere THEN 0
                  ELSE SelectInSeq(taken.inside[to], LAMBDA j : CanStack(i, j))
    IN  IF target # 0 THEN StackOnto(taken, i, taken.inside[to][target], n)
        ELSE IF whole THEN Put(taken, i, to) ELSE Split(w, i, to, n)

TransferOf(w, i, to, quantity, takesTime, n) ==
    [ok |-> n > 0,
     world |-> IF n = 0 THEN w
               ELSE IF takesTime THEN InitiateMounting(w, i, to, quantity)
               ELSE Move(w, i, to, n)]

PerformTransfer(w, i, to, quantity, bypass) ==
    TransferOf(w, i, to, quantity, ~bypass /\ IsMounted(CurrentSlot(w, i)) # IsMounted(to),
               TransferredCharges(w, i, to, quantity, bypass))

-----------------------------------------------------------------------------
(* Mounting *)

MountingDuration(w, i, m) ==
    IF IsMounted(CurrentSlot(w, i)) /\ m.to = Nowhere THEN 1 ELSE MountTime

\* Charges go one by one. A quantity that was not specified stays negative.
SolveMount(w, i) ==
    LET m == w.mounts[i]
        due == Charges(w, i) = 1 \/ m.quantity = 1
        next == IF due THEN NoMount
                ELSE [m EXCEPT !.progress = 0, !.quantity = IF @ = -1 THEN -1 ELSE @ - 1]
    IN  IF m = NoMount THEN w
        ELSE IF ~Alive(w, i) \/ MountingConditions(w, i, m.to) # "PROGRESS"
             THEN [w EXCEPT !.mounts[i] = NoMount]
        ELSE IF m.progress + 1 < MountingDuration(w, i, m)
             THEN [w EXCEPT !.mounts[i].progress = @ + 1]
        ELSE PerformTransfer([w EXCEPT !.mounts[i] = next], i, m.to, 1, TRUE).world

SolveItemMounting(w) == FoldLeft(SolveMount, w, ItemOrder)

-----------------------------------------------------------------------------
(* Reloading *)

\* Items each followed by what is inside when they are bags.
RECURSIVE WithContents(_, _)
WithContents(w, items) ==
    FoldLeft(LAMBDA all, i : all \o <<i>> \o
                 (IF Kind[i] = "bag" THEN WithContents(w, w.inside[<<"ITEM_DEPOSIT", i>>]) ELSE <<>>),
             <<>>, items)

RocketsOnTheBackFirst(w, p) == WithContents(w, w.inside[<<"BACK", p>>]) \o Wielded(w, p)
RocketSources(w, p) == Wielded(w, p) \o WithContents(w, w.inside[<<"BACK", p>>])

Context(slot, new, old) ==
    IF new = NoEntity THEN NoContext ELSE [slot |-> slot, new |-> new, old |-> old]

\* Anything that fits, and what is held comes first.
RocketContext(w, p, gun) ==
    LET magazine == <<"GUN_CHAMBER_MAGAZINE", gun>>
        fits(i) == ChargesContained(w, i, magazine, -1) > 0
    IN  Context(magazine, HeadOr(SelectSeq(RocketSources(w, p), fits), NoEntity), NoEntity)

\* The fullest magazine, if it is fuller than the one in the gun; the older id
\* when two are as full.
MagazineContext(w, p, gun) ==
    LET slot == <<"GUN_DETACHABLE_MAGAZINE", gun>>
        carried == WithContents(w, Wielded(w, p) \o w.inside[<<"BACK", p>>])
        candidates == Of("magazine") \cap ToSet(w.inside[slot] \o carried)
        rounds == {w.rounds[i] : i \in candidates}
        best == ItemOrder[SelectInSeq(ItemOrder, LAMBDA i : i \in candidates /\ w.rounds[i] = Max(rounds))]
        old == IF w.inside[slot] = <<>> THEN NoEntity ELSE w.inside[slot][1]
    IN  IF candidates = {} \/ (old # NoEntity /\ w.rounds[best] <= w.rounds[old]) THEN NoContext
        ELSE [slot |-> slot, new |-> best, old |-> old]

ContextFor(w, p, i) ==
    CASE Kind[i] = "launcher" -> RocketContext(w, p, i)
      [] Kind[i] = "rifle" -> MagazineContext(w, p, i)
      [] OTHER -> NoContext

ReloadingContext(w, p) ==
    LET held == Wielded(w, p)
    IN  HeadOr(SelectSeq([n \in DOMAIN held |-> ContextFor(w, p, held[n])], LAMBDA c : c # NoContext),
               NoContext)

\* The old source is not compared.
IsDifferentViable(w, p) == [ReloadingContext(w, p) EXCEPT !.old = w.ctx[p].old] # w.ctx[p]

NeedsReload(w, i) ==
    CASE Kind[i] = "rifle" ->
            \A m \in ToSet(w.inside[<<"GUN_DETACHABLE_MAGAZINE", i>>]) : w.rounds[m] = 0
      [] Kind[i] = "launcher" ->
            /\ w.inside[<<"GUN_CHAMBER_MAGAZINE", i>>] = <<>>
            /\ RealSpaceAvailable(w, <<"GUN_CHAMBER_MAGAZINE", i>>) > 0
      [] OTHER -> TRUE

StartReloading(w, p) ==
    LET held == ToSet(Wielded(w, p))
    IN  IF w.ctx[p] = NoContext /\ held # {} /\ \A i \in held : NeedsReload(w, i)
        THEN [w EXCEPT !.ctx[p] = ReloadingContext(w, p)]
        ELSE w

\* Lets a magazine that is being unmounted fall to the ground.
DropMagazine(w, i) ==
    IF i # NoEntity /\ w.mounts[i] # NoMount THEN [w EXCEPT !.mounts[i].to = Nowhere] ELSE w

DropIfZeroAmmo(w, i) == IF w.rounds[i] <= LowAmmoCue THEN DropMagazine(w, i) ELSE w

\* The slot that takes the whole item away from the hands.
DepositsOnBack(w, p) ==
    LET worn == w.inside[<<"BACK", p>>] IN [n \in DOMAIN worn |-> <<"ITEM_DEPOSIT", worn[n]>>]

HolsteringSlot(w, p, i) ==
    LET takes(s) == ChargesContained(w, i, s, -1) = Charges(w, i)
    IN  HeadOr(SelectSeq(<<<<"BACK", p>>>> \o DepositsOnBack(w, p), takes), Nowhere)

\* Looking for the holster of nothing fails an assertion.
HideOtherItem(w, p) ==
    LET other == HeadOr(SelectSeq(Wielded(w, p), LAMBDA i : i # w.ctx[p].slot[2]), NoEntity)
        whose == IF OwningCapability(w, w.ctx[p].old) # p THEN "taken" ELSE "held"
    IN  IF other = NoEntity THEN [ok |-> FALSE, world |-> [w EXCEPT !.failed = whose]]
        ELSE PerformTransfer(w, other, HolsteringSlot(w, p, other), 1, FALSE)

HandsOf(p) == <<<<"PRIMARY_HAND", p>>, <<"SECONDARY_HAND", p>>>>
FreeHand(w, p) == HeadOr(SelectSeq(HandsOf(p), LAMBDA h : w.inside[h] = <<>>), Nowhere)

Answer(result, w) == [result |-> result, world |-> w]
ContinueIf(step) == Answer(IF step.ok THEN "CONTINUE" ELSE "INTERRUPT", step.world)

HoldsAnything(w, p) == Len(Wielded(w, p)) > 0
HandsAreFull(w, p) == Len(Wielded(w, p)) > 1

UnmountInto(hidden, p, old, hand) ==
    IF ~hidden.ok \/ hand = Nowhere THEN Answer("INTERRUPT", hidden.world)
    ELSE Answer("CONTINUE", DropIfZeroAmmo(PerformTransfer(hidden.world, old, hand, 1, FALSE).world, old))

UnmountOld(w, p, hidden) ==
    LET old == w.ctx[p].old
        free == IF HandsAreFull(w, p) THEN hidden ELSE [ok |-> TRUE, world |-> w]
    IN  IF w.mounts[old] # NoMount THEN Answer("CONTINUE", DropIfZeroAmmo(w, old))
        ELSE UnmountInto(free, p, old, FreeHand(free.world, p))

MountNew(w, p) ==
    IF w.mounts[w.ctx[p].new] # NoMount THEN [ok |-> TRUE, world |-> w]
    ELSE PerformTransfer(w, w.ctx[p].new, w.ctx[p].slot, 1, FALSE)

\* Of a stack all but one charge goes back to where it was.
HideRest(pulled, new, from) ==
    IF ~pulled.ok \/ Charges(pulled.world, new) = 1 THEN pulled
    ELSE PerformTransfer(pulled.world, new, from, Charges(pulled.world, new) - 1, FALSE)

MountIfHidden(hidden, p) == IF hidden.ok THEN MountNew(hidden.world, p) ELSE hidden

PullNew(w, p, hand) ==
    LET new == w.ctx[p].new
    IN  MountIfHidden(HideRest(PerformTransfer(w, new, hand, -1, FALSE), new, CurrentSlot(w, new)), p)

\* hidden is what comes of hiding another item, if it comes to that.
NextOperation(w, p, hidden) ==
    LET ctx == w.ctx[p]
        at(i) == IF i = NoEntity THEN Nowhere ELSE CurrentSlot(w, i)
        hideOld == IsHand(at(ctx.old)) /\ hidden.ok
        failed == IsHand(at(ctx.old)) /\ hidden.world.failed # "no"
    IN  IF ctx.new = NoEntity \/ at(ctx.new) = ctx.slot THEN Answer("COMPLETE", w)
        ELSE IF IsDifferentViable(w, p) THEN Answer("DIFFERENT_VIABLE", w)
        ELSE IF at(ctx.old) = ctx.slot THEN UnmountOld(w, p, hidden)
        ELSE IF hideOld \/ failed THEN Answer("CONTINUE", hidden.world)
        ELSE ContinueIf(IF IsHand(at(ctx.new)) THEN MountNew(w, p)
                        ELSE IF FreeHand(w, p) # Nowhere THEN PullNew(w, p, FreeHand(w, p))
                        ELSE hidden)

AdvanceContext(w, p) == NextOperation(w, p, HideOtherItem(w, p))

Chambering(w, gun) ==
    /\ Kind[gun] = "launcher"
    /\ w.inside[<<"GUN_CHAMBER", gun>>] = <<>> /\ w.inside[<<"GUN_CHAMBER_MAGAZINE", gun>>] # <<>>

\* A launcher whose magazine was filled may have another round to load.
Concluded(p, gun, step) ==
    LET loaded == Kind[gun] = "launcher" /\ step.world.inside[<<"GUN_CHAMBER", gun>>] # <<>>
        next == IF step.result = "COMPLETE" /\ loaded THEN ContextFor(step.world, p, gun) ELSE NoContext
    IN  IF step.result = "CONTINUE" THEN step.world ELSE [step.world EXCEPT !.ctx[p] = next]

AdvanceOnce(w, p) ==
    LET gun == w.ctx[p].slot[2]
    IN  IF w.ctx[p] = NoContext \/ w.failed # "no" THEN w
        ELSE IF ~Chambering(w, gun) THEN Concluded(p, gun, AdvanceContext(w, p))
        ELSE IF IsDifferentViable(w, p) THEN [w EXCEPT !.ctx[p] = NoContext] ELSE w

\* Twice, so that a step that was answered has the next one follow at once.
AdvanceReloadingContexts(w) ==
    LET advanced(v, p) == FoldLeft(LAMBDA u, n : AdvanceOnce(u, p), StartReloading(v, p), <<1, 2>>)
    IN  FoldLeft(advanced, w, PlayerOrder)

PressReload(w, p) ==
    IF w.ctx[p] # NoContext THEN DropMagazine(w, w.ctx[p].old)
    ELSE [w EXCEPT !.ctx[p] = ReloadingContext(w, p)]

-----------------------------------------------------------------------------
(* A step *)

Total(charges) == FoldFunction(+, 0, charges)

Init ==
    /\ \E charges \in StartCharges, rounds \in StartRounds :
          world = [inside |-> [s \in Slots |-> IF s \in DOMAIN StartInside THEN StartInside[s] ELSE <<>>],
                   charges |-> charges,
                   rounds |-> rounds,
                   mounts |-> [i \in Items |-> NoMount],
                   ctx |-> [p \in Players |-> NoContext],
                   chambering |-> [g \in Of("launcher") |-> 0],
                   doomed |-> {},
                   failed |-> "no",
                   accounted |-> Total(charges)]
    /\ events = 0
    /\ parity = 0

\* A launcher in somebody's hand loads its chamber from its magazine.
LoadChamber(w, gun) ==
    LET magazine == w.inside[<<"GUN_CHAMBER_MAGAZINE", gun>>]
        counted == [w EXCEPT !.chambering[gun] = @ + 1]
        reset == [w EXCEPT !.chambering[gun] = 0]
    IN  IF ~IsHand(CurrentSlot(w, gun)) \/ ~Chambering(w, gun) THEN reset
        ELSE IF counted.chambering[gun] < ChamberTime THEN counted
        ELSE PerformTransfer(reset, Last(magazine), <<"GUN_CHAMBER", gun>>, 1, TRUE).world

LoadChambers(w) == FoldLeft(LAMBDA v, i : IF Kind[i] = "launcher" THEN LoadChamber(v, i) ELSE v, w, ItemOrder)

\* Where a player puts what is touched: bags on the back, other things into the
\* bag, then into the hands; a gun into the hands first when they are empty.
PickupSlot(w, p, i) ==
    LET worn == <<<<"BACK", p>>>>
        bags == DepositsOnBack(w, p)
        order == IF Kind[i] \in {"rifle", "launcher"} /\ Wielded(w, p) = <<>>
                 THEN HandsOf(p) \o bags \o worn ELSE worn \o bags \o HandsOf(p)
    IN  HeadOr(SelectSeq(order, LAMBDA s : ChargesContained(w, i, s, -1) > 0), Nowhere)

\* Contacts were collected before: the item may be somebody's by now, or gone.
PickUp(w, touch) ==
    LET to == PickupSlot(w, touch.player, touch.item)
    IN  IF OwningCapability(w, touch.item) # NoEntity \/ to = Nowhere THEN w
        ELSE PerformTransfer(w, touch.item, to, -1, FALSE).world

PerformDeletions(w) ==
    LET kept(i) == i \notin w.doomed
        still(i) == IF i \in w.doomed THEN NoEntity ELSE i
    IN  [w EXCEPT !.inside = [s \in Slots |-> SelectSeq(@[s], kept)],
                  !.charges = [r \in Rockets |-> IF kept(r) THEN @[r] ELSE 0],
                  !.mounts = [i \in Items |-> IF kept(i) THEN @[i] ELSE NoMount],
                  !.ctx = [p \in Players |-> [@[p] EXCEPT !.new = still(@), !.old = still(@)]],
                  !.doomed = {}]

\* A transfer that is commanded; a refused one leaves the world alone.
Transfers ==
    {t \in [kind : {"transfer"}, item : Items, to : Slots \cup {Nowhere}, quantity : {-1, 1}] :
        LET p == OwningCapability(world, t.item)
        IN  /\ p # NoEntity
            /\ t.to = Nowhere \/ CapabilityOver(world, t.to) = p
            /\ t.quantity = 1 => Charges(world, t.item) > 1
            /\ TransferredCharges(world, t.item, t.to, t.quantity, FALSE) > 0}

Reloads == [kind : {"reload"}, player : Players]

\* Players touch things that lay on the ground; each picks up once in a while.
Touches ==
    LET lying == {i \in Items : Alive(world, i) /\ CurrentSlot(world, i) = Nowhere}
        touching == [player : Players, item : lying]
        two == {both \in touching \X touching : both[1].player # both[2].player}
    IN  [kind : {"touch"}, contacts : {<<t>> : t \in touching} \cup two]

Inputs ==
    {[kind |-> "nothing"]} \cup IF events < MaxEvents THEN Transfers \cup Reloads \cup Touches ELSE {}

\* Transfers come first, then the guns, then the keys; contacts are collected last.
Solve(w, in) ==
    LET commanded == IF in.kind = "transfer"
                     THEN PerformTransfer(w, in.item, in.to, in.quantity, FALSE).world ELSE w
        loaded == LoadChambers(commanded)
        pressed == IF in.kind = "reload" THEN PressReload(loaded, in.player) ELSE loaded
        mounted == SolveItemMounting(AdvanceReloadingContexts(pressed))
        contacts == IF in.kind = "touch" THEN in.contacts ELSE <<>>
    IN  PerformDeletions(FoldLeft(PickUp, mounted, contacts))

\* After an assertion failed there is nothing more.
StepTaken == world.failed = "no" /\ parity' = 1 - parity

Step ==
    /\ StepTaken
    /\ \E in \in Inputs :
          /\ world' = Solve(world, in)
          /\ events' = IF in.kind = "nothing" THEN events ELSE events + 1

Next == Step

\* The world goes on.
Spec == Init /\ [][Next]_vars /\ WF_parity(StepTaken)

-----------------------------------------------------------------------------
(* Properties *)

(***************************************************************************)
(* Charges neither vanish nor appear while stacks are split, merged,        *)
(* mounted one by one, pulled out for a reload and deleted at the end of    *)
(* steps. The exception is part of the account: a stack merged whole stays  *)
(* alive until the step ends (perform_transfer.cpp), and when somebody else *)
(* touches it in the same step its charges are added a second time.         *)
(***************************************************************************)
ChargesConserved == Total(world.charges) = world.accounted

(***************************************************************************)
(* Nothing holds more than it has room for, however deep bags lie in bags,  *)
(* and where one item may be there is one: every way into a slot asks all   *)
(* of its ancestors (calc_real_space_available()).                          *)
(***************************************************************************)
FitsInside ==
    \A s \in Slots :
        /\ SpaceInside(world, s) <= SpaceAvailable(s)
        /\ ExactlyOneItem(s) => Len(world.inside[s]) <= 1

(***************************************************************************)
(* A reload that hides another item to free a hand has one to hide          *)
(* (find_slot_for() asserts that there is), unless its old magazine is in   *)
(* the hand of another player: the code asks whether it is in a hand, not   *)
(* in whose.                                                                *)
(***************************************************************************)
OnlyTakenMagazineFails == world.failed # "held"

(***************************************************************************)
(* Left alone, players come to rest: no reload starts over for ever (as the *)
(* rocket launcher's did, docs/pages/todo/todo_done.md:3348) and no mount   *)
(* goes on for ever, but for a whole stack told into a slot that has no     *)
(* room for the rest of it, which is tried again and again.                 *)
(***************************************************************************)
Endless(i) == i \in Rockets /\ world.mounts[i].quantity = -1 /\ world.charges[i] > 1

Settles ==
    <>[](\/ world.failed # "no"
         \/ /\ \A p \in Players : world.ctx[p] = NoContext \/ Endless(world.ctx[p].new)
            /\ \A i \in Items : world.mounts[i] = NoMount \/ Endless(i))

=============================================================================
