------------------------- MODULE BombDefusalProofs -------------------------
(***************************************************************************)
(* What the bomb defusal mode promises for any number of players, rounds   *)
(* and arenas, all colours, limits and lengths of phases, and any wishes   *)
(* of players and administrators in any second: teams keep their score     *)
(* over the swap of sides, every round is decided once, players are frozen *)
(* as the flag says, colours and sizes of teams are kept, phases end in    *)
(* time, and a defused bomb wins the round.                                *)
(*                                                                         *)
(* One step of the mode is a long sequence of operations, in the midst of  *)
(* which little of this holds. The proofs follow a mode through it: Whole  *)
(* is what every operation keeps; a mode is Early from the tick of its     *)
(* clock until its state is advanced, when a phase may be overdue and      *)
(* players be frozen as of the second before; Opened when a round was just *)
(* set up; Awake from then on until the solver has run; and Kept, which is *)
(* the invariant, between steps. Recast relates two modes between which    *)
(* characters and money changed alone, Kin those between which players     *)
(* came and went, Reseated those between which they changed sides.         *)
(***************************************************************************)
EXTENDS BombDefusal, FiniteSetTheorems, WellFoundedInduction, TLAPS

-----------------------------------------------------------------------------
(* Types. *)
Sides     == Factions \cup {"SPECTATOR"}
Phases    == {"INIT", "WARMUP", "LIVE", "ROUND_END_DELAY", "MATCH_SUMMARY"}
AnyId     == Ids \cup {NoId}
Worn      == PlayerColors \cup {NoColor, Excess}
Character == [state : {"none", "conscious", "knocked out"}, side : Sides,
              frozen : BOOLEAN, knocked_out : Nat]
Player    == [faction : Sides, character : Character, color : Worn,
              round_when_chosen_faction : Int, money : 0..rules.maximum_money]
Rosters   == UNION {[S -> Player] : S \in SUBSET Ids}
Points    == [Factions -> Nat]
Win       == [when : Nat, winner : Sides]
Bomb      == [state : {"none", "idle", "armed", "defused", "gone"}, when_armed : Nat,
              defuser : AnyId, sender : AnyId]
History   == [team : [Ids -> 0..2], bombing : 1..2, won : [1..2 -> Nat], started : Nat, maps : Nat]
Mode      == [state : Phases, now : Nat, players : Rosters, score : Points, losses : Points,
              last_win : Win, planter : AnyId, frozen : BOOLEAN, bomb : Bomb,
              should_commence : BOOLEAN, commencing : Int, undefined : BOOLEAN,
              history : History]

TypeOK == mode \in Mode /\ tick \in BOOLEAN

-----------------------------------------------------------------------------
(* The parts of the inductive invariant, of any mode. *)

(* The teams that the model remembers are those of the players.            *)
TeamsKept(s) ==
  /\ \A p \in Seated(s) : s.history.team[p] = TeamOn(s.history, s.players[p].faction)
  /\ \A p \in Ids \ Seated(s) : s.history.team[p] = 0

(* What the colours in one team are like: worn[p] is the colour of p.      *)
Coloured(team, worn) ==
  \A p \in team :
    /\ worn[p] # NoColor
    /\ IF worn[p] = Excess THEN PlayerColors \subseteq {worn[q] : q \in team}
       ELSE \A q \in team \ {p} : worn[q] # worn[p]

ColorsOf(s) == [p \in Seated(s) |-> s.players[p].color]

ColorsKept(s) ==
  Scrambling \/ /\ \A f \in Factions : Coloured(PlayersIn(s, f), ColorsOf(s))
                /\ \A p \in PlayersIn(s, "SPECTATOR") : s.players[p].color = NoColor

LimitKept(s) ==
  Scrambling \/ rules.max_players_per_team = 0 \/
    \A f \in Factions : Cardinality(PlayersIn(s, f)) <= rules.max_players_per_team

(* Nothing was played before a match is live; what ends in a summary is a  *)
(* half or a match, and only the first half.                               *)
ScoreKept(s) ==
  /\ \A f \in Factions : s.score[f] = s.history.won[TeamOn(s.history, f)]
  /\ s.state \in {"INIT", "WARMUP"} => RoundNum(s) = 0 /\ s.history.started = 0 /\ s.history.bombing = 1
  /\ s.state = "LIVE" => RoundNum(s) = s.history.started - 1
  /\ s.state \in {"ROUND_END_DELAY", "MATCH_SUMMARY"} => RoundNum(s) = s.history.started
  /\ s.state \in {"LIVE", "ROUND_END_DELAY"} =>
       /\ ~IsFinalRound(s)
       /\ (s.history.bombing = 2) = (RoundNum(s) >= NumRounds \div 2)
  /\ s.state = "MATCH_SUMMARY" =>
       IsFinalRound(s) \/ (IsHalfwayRound(s) /\ s.history.bombing = 1)

(* The flag that says whether players are frozen, as of the n-th second.   *)
FlagAt(s, n) ==
  /\ s.state = "LIVE" => (s.frozen <=> n < rules.freeze_secs)
  /\ s.state = "WARMUP" => (s.frozen <=> n >= rules.warmup_secs)

Stands(s, p, frozen) ==
  s.players[p].character.state = "conscious" => s.players[p].character.frozen = frozen

PostureKept(s) == FlagAt(s, s.now) /\ \A p \in Seated(s) : Stands(s, p, s.frozen)

(* A bomb that was armed in time goes off in time.                         *)
ClockKept(s) ==
  /\ s.state = "WARMUP" => s.now < rules.warmup_secs + rules.match_begins_secs
  /\ s.state = "LIVE" => s.now < rules.freeze_secs + rules.round_secs + rules.fuse_delay
  /\ s.state = "ROUND_END_DELAY" => SinceWin(s) < rules.round_end_secs
  /\ s.state = "MATCH_SUMMARY" => SinceWin(s) < rules.match_summary_seconds
  /\ s.state = "LIVE" /\ BombPlanted(s) =>
       s.bomb.when_armed < rules.freeze_secs + rules.round_secs
         /\ s.now < s.bomb.when_armed + rules.fuse_delay

IInv ==
  /\ TypeOK
  /\ TeamsKept(mode) /\ ColorsKept(mode) /\ LimitKept(mode) /\ ScoreKept(mode)
  /\ PostureKept(mode) /\ ClockKept(mode)

-----------------------------------------------------------------------------
(* Constants and arithmetic. *)

(* The ruleset, one by one. *)
LEMMA RulesFit ==
  /\ MaxIds \in Nat /\ Maps \in Nat /\ rules.max_rounds \in Nat /\ rules.max_players_per_team \in Nat
  /\ rules.price \in Nat /\ rules.warmup_secs \in Nat /\ rules.match_begins_secs \in Nat
  /\ rules.freeze_secs \in Nat /\ rules.fuse_delay \in Nat \ {0} /\ rules.round_secs \in Nat \ {0}
  /\ rules.round_end_secs \in Nat \ {0} /\ rules.match_summary_seconds \in Nat \ {0}
  /\ rules.maximum_money \in Nat /\ rules.initial_money \in 0..rules.maximum_money
  /\ rules.warmup_initial_money \in 0..rules.maximum_money
  /\ rules.game_commencing_seconds \in Int
BY BombAssumption

(* The larger and the smaller of two numbers. *)
LEMMA OfTwo ==
  ASSUME NEW a \in Int, NEW b \in Int
  PROVE  /\ Max({a, b}) = IF a >= b THEN a ELSE b
         /\ Min({a, b}) = IF a <= b THEN a ELSE b
<1>1. \A x \in {a, b} : (\A y \in {a, b} : x >= y) <=> x = IF a >= b THEN a ELSE b
  OBVIOUS
<1>2. \A x \in {a, b} : (\A y \in {a, b} : x <= y) <=> x = IF a <= b THEN a ELSE b
  OBVIOUS
<1>3. Max({a, b}) = IF a >= b THEN a ELSE b
  <2>1. PICK m \in {a, b} : m = IF a >= b THEN a ELSE b
    OBVIOUS
  <2>. QED  BY <1>1, <2>1 DEF Max
<1>4. Min({a, b}) = IF a <= b THEN a ELSE b
  <2>1. PICK m \in {a, b} : m = IF a <= b THEN a ELSE b
    OBVIOUS
  <2>. QED  BY <1>2, <2>1 DEF Min
<1>. QED  BY <1>3, <1>4

(* An award leaves a player within the limits of money. *)
LEMMA AwardedInRange ==
  ASSUME NEW money \in 0..rules.maximum_money, NEW amount \in Int
  PROVE  Awarded(money, amount) \in 0..rules.maximum_money
<1>1. PICK max \in Nat : max = rules.maximum_money
  BY RulesFit
<1>2. PICK sum \in Int : sum = money + amount
  BY <1>1
<1>3. Min({max, sum}) = IF max <= sum THEN max ELSE sum
  BY OfTwo
<1>4. PICK least \in Int : least = Min({max, sum}) /\ least <= max
  BY <1>3
<1>5. Max({0, least}) = IF 0 >= least THEN 0 ELSE least
  BY OfTwo
<1>6. Max({0, least}) \in 0..max
  BY <1>4, <1>5
<1>. QED  BY <1>1, <1>2, <1>4, <1>6 DEF Awarded

(* There is an even number of rounds, half of them in each half. *)
LEMMA Halves ==
  /\ NumRounds \in Nat /\ NumRounds \div 2 \in Nat \ {0}
  /\ NumRounds = 2 * (NumRounds \div 2)
<1>. DEFINE n == rules.max_rounds \div 2
<1>1. n \in Nat
  BY RulesFit
<1>. HIDE DEF n
<1>2. NumRounds = IF n * 2 >= 2 THEN n * 2 ELSE 2
  BY <1>1, OfTwo DEF NumRounds, n
<1>. QED  BY <1>1, <1>2

-----------------------------------------------------------------------------
(* What an operation on the players may make of a player: the side and the *)
(* colour stay, and who is conscious was so, as frozen as before, or is    *)
(* frozen as one of F says.                                                *)
Becomes(F, v, w) ==
  /\ w.faction = v.faction /\ w.color = v.color
  /\ w.character.state = "conscious" =>
       \/ w.character.frozen \in F
       \/ v.character.state = "conscious" /\ w.character.frozen = v.character.frozen

Recast(F, s, t) ==
  /\ t \in Mode
  /\ t = [s EXCEPT !.players = t.players]
  /\ Seated(t) = Seated(s)
  /\ \A p \in Seated(s) : Becomes(F, s.players[p], t.players[p])

(* The same players are on the same sides, and remembered as such. *)
SameSides(s, t) ==
  /\ Seated(t) = Seated(s)
  /\ \A p \in Seated(s) : /\ t.players[p].faction = s.players[p].faction
                          /\ t.players[p].color = s.players[p].color

SameSeats(s, t) ==
  /\ SameSides(s, t)
  /\ t.history.team = s.history.team /\ t.history.bombing = s.history.bombing

SameScore(s, t) == t.state = s.state /\ t.score = s.score /\ t.history = s.history

SeatsKept(s) == TeamsKept(s) /\ ColorsKept(s) /\ LimitKept(s)

(* A mode has its players. *)
LEMMA ModeHasPlayers ==
  ASSUME NEW s \in Mode
  PROVE  /\ Seated(s) \subseteq Ids
         /\ s.players \in [Seated(s) -> Player]
         /\ \A p \in Seated(s) : s.players[p] \in Player
BY DEF Mode, Rosters, Seated

(* A mode with other players is a mode. *)
LEMMA Manned ==
  ASSUME NEW s \in Mode, NEW S \in SUBSET Ids, NEW r \in [S -> Player]
  PROVE  /\ [s EXCEPT !.players = r] \in Mode
         /\ [s EXCEPT !.players = r].players = r
<1>1. r \in Rosters
  BY DEF Rosters
<1>. QED  BY <1>1 DEF Mode

(* All players at once, as in a loop over them. *)
LEMMA RecastAll ==
  ASSUME NEW s \in Mode, NEW F, NEW r \in [Seated(s) -> Player],
         \A p \in Seated(s) : Becomes(F, s.players[p], r[p])
  PROVE  Recast(F, s, [s EXCEPT !.players = r])
<1>. DEFINE t == [s EXCEPT !.players = r]
<1>1. t \in Mode /\ t.players = r
  BY ModeHasPlayers, Manned
<1>2. Seated(t) = Seated(s)
  BY <1>1 DEF Seated
<1>. QED  BY <1>1, <1>2 DEF Recast

(* One player. *)
LEMMA RecastOne ==
  ASSUME NEW s \in Mode, NEW F, NEW p \in Seated(s), NEW w \in Player,
         Becomes(F, s.players[p], w)
  PROVE  Recast(F, s, [s EXCEPT !.players[p] = w])
<1>. DEFINE r == [s.players EXCEPT ![p] = w]
<1>1. r \in [Seated(s) -> Player] /\ r[p] = w /\ \A q \in Seated(s) \ {p} : r[q] = s.players[q]
  BY ModeHasPlayers
<1>. HIDE DEF r
<1>2. \A q \in Seated(s) : Becomes(F, s.players[q], r[q])
  BY <1>1 DEF Becomes
<1>3. Recast(F, s, [s EXCEPT !.players = r])
  BY <1>1, <1>2, RecastAll
<1>4. [s EXCEPT !.players[p] = w] = [s EXCEPT !.players = r]
  BY DEF r
<1>. QED  BY <1>3, <1>4

(* Nobody. *)
LEMMA RecastNone ==
  ASSUME NEW s \in Mode, NEW F
  PROVE  Recast(F, s, s)
<1>1. s = [s EXCEPT !.players = s.players]
  BY DEF Mode
<1>. QED  BY <1>1 DEF Recast, Becomes

(* One after the other. *)
LEMMA RecastTwice ==
  ASSUME NEW s, NEW t, NEW u, NEW F, Recast(F, s, t), Recast(F, t, u)
  PROVE  Recast(F, s, u)
BY DEF Recast, Becomes

(* A loop of nothing but what is allowed is allowed. *)
LEMMA RecastMore ==
  ASSUME NEW s, NEW t, NEW F, NEW G, F \subseteq G, Recast(F, s, t)
  PROVE  Recast(G, s, t)
BY DEF Recast, Becomes

(* Everything but the players is as it was. *)
LEMMA RecastFields ==
  ASSUME NEW s \in Mode, NEW t, NEW F, Recast(F, s, t)
  PROVE  /\ t \in Mode
         /\ t.state = s.state /\ t.now = s.now /\ t.score = s.score /\ t.losses = s.losses
         /\ t.last_win = s.last_win /\ t.planter = s.planter /\ t.frozen = s.frozen /\ t.bomb = s.bomb
         /\ t.should_commence = s.should_commence /\ t.commencing = s.commencing
         /\ t.history = s.history
         /\ SameSeats(s, t) /\ SameScore(s, t)
BY DEF Recast, Mode, SameSides, SameSeats, SameScore, Becomes

(* What colours and the limit promise depends on the sides alone. *)
LEMMA SidesAlone ==
  ASSUME NEW s, NEW t, SameSides(s, t)
  PROVE  /\ \A f : PlayersIn(t, f) = PlayersIn(s, f)
         /\ ColorsOf(t) = ColorsOf(s)
         /\ ColorsKept(s) => ColorsKept(t)
         /\ LimitKept(s) => LimitKept(t)
<1>1. \A f : PlayersIn(t, f) = PlayersIn(s, f)
  BY DEF SameSides, PlayersIn
<1>2. ColorsOf(t) = ColorsOf(s)
  BY DEF SameSides, ColorsOf
<1>3. ASSUME ColorsKept(s) PROVE ColorsKept(t)
  <2>1. \A p \in PlayersIn(s, "SPECTATOR") : t.players[p].color = s.players[p].color
    BY DEF SameSides, PlayersIn
  <2>. QED  BY <1>1, <1>2, <1>3, <2>1 DEF ColorsKept
<1>4. LimitKept(s) => LimitKept(t)
  BY <1>1 DEF LimitKept
<1>. QED  BY <1>1, <1>2, <1>3, <1>4

(* What seats promise depends on seats alone. *)
LEMMA SeatsAlone ==
  ASSUME NEW s, NEW t, SameSeats(s, t), SeatsKept(s)
  PROVE  SeatsKept(t)
<1>1. \A f : TeamOn(t.history, f) = TeamOn(s.history, f)
  BY DEF SameSeats, TeamOn
<1>2. TeamsKept(t)
  BY <1>1 DEF SameSeats, SameSides, SeatsKept, TeamsKept
<1>. QED  BY <1>2, SidesAlone DEF SameSeats, SeatsKept

(* What the score promises depends on the score, the phase and the teams.  *)
LEMMA ScoreAlone ==
  ASSUME NEW s, NEW t, SameScore(s, t), ScoreKept(s)
  PROVE  ScoreKept(t)
<1>1. RoundNum(t) = RoundNum(s) /\ IsFinalRound(t) = IsFinalRound(s) /\ IsHalfwayRound(t) = IsHalfwayRound(s)
  BY DEF SameScore, RoundNum, IsFinalRound, IsHalfwayRound
<1>. QED  BY <1>1 DEF SameScore, ScoreKept
-----------------------------------------------------------------------------
(* The operations on players alone. *)

(* post_award(): whoever gets it and however much it is. *)
LEMMA AwardRecasts ==
  ASSUME NEW s \in Mode, NEW p, NEW amount \in Int
  PROVE  Recast({}, s, PostAward(s, p, amount))
<1>1. CASE s.state = "WARMUP" \/ p \notin Seated(s)
  BY <1>1, RecastNone DEF PostAward
<1>2. CASE ~(s.state = "WARMUP" \/ p \notin Seated(s))
  <2>. DEFINE w == [s.players[p] EXCEPT !.money = Awarded(@, amount)]
  <2>1. s.players[p] \in Player
    BY <1>2, ModeHasPlayers
  <2>2. Awarded(s.players[p].money, amount) \in 0..rules.maximum_money
    BY <2>1, AwardedInRange DEF Player
  <2>3. w \in Player /\ Becomes({}, s.players[p], w)
    BY <2>1, <2>2 DEF Player, Becomes
  <2>4. PostAward(s, p, amount) = [s EXCEPT !.players[p] = w]
    BY <1>2 DEF PostAward
  <2>. HIDE DEF w
  <2>. QED  BY <1>2, <2>3, <2>4, RecastOne
<1>. QED  BY <1>1, <1>2

(* A character that is created is as frozen as the phase wants it. *)
LEMMA CharacterIsCreated ==
  ASSUME NEW s \in Mode, NEW v \in Player
  PROVE  /\ BornFrozen(s) \in BOOLEAN
         /\ CreateCharacterForPlayer(s, v) \in Player
         /\ Becomes({BornFrozen(s)}, v, CreateCharacterForPlayer(s, v))
<1>. DEFINE b == BornFrozen(s)
<1>1. b \in BOOLEAN
  BY DEF BornFrozen
<1>. HIDE DEF b
<1>2. NoCharacter \in Character
  BY DEF NoCharacter, Character, Sides
<1>3. [state |-> "conscious", side |-> v.faction, knocked_out |-> 0, frozen |-> b] \in Character
  BY <1>1 DEF Character, Player
<1>4. CASE v.faction = "SPECTATOR"
  <2>1. CreateCharacterForPlayer(s, v) = [v EXCEPT !.character = NoCharacter]
    BY <1>4 DEF CreateCharacterForPlayer
  <2>2. [v EXCEPT !.character = NoCharacter] \in Player
    BY <1>2 DEF Player
  <2>. QED  BY <1>1, <2>1, <2>2 DEF b, Becomes, Player, NoCharacter
<1>5. CASE v.faction # "SPECTATOR"
  <2>. DEFINE c == [state |-> "conscious", side |-> v.faction, knocked_out |-> 0, frozen |-> b]
  <2>1. CreateCharacterForPlayer(s, v) = [v EXCEPT !.character = c]
    BY <1>5 DEF CreateCharacterForPlayer, b
  <2>2. [v EXCEPT !.character = c] \in Player
    BY <1>3 DEF Player
  <2>3. c.frozen = b
    OBVIOUS
  <2>. HIDE DEF c
  <2>. QED  BY <1>1, <2>1, <2>2, <2>3 DEF b, Becomes, Player
<1>. QED  BY <1>4, <1>5

(* The loops that create characters. *)
LEMMA SpawnRecasts ==
  ASSUME NEW s \in Mode, NEW who
  PROVE  Recast({BornFrozen(s)}, s, SpawnEach(s, who))
<1>. DEFINE r == [p \in Seated(s) |-> IF p \in who THEN CreateCharacterForPlayer(s, s.players[p])
                                      ELSE s.players[p]]
<1>1. SpawnEach(s, who) = [s EXCEPT !.players = r]
  BY DEF SpawnEach, ForEachPlayer
<1>2. \A p \in Seated(s) : r[p] \in Player /\ Becomes({BornFrozen(s)}, s.players[p], r[p])
  BY ModeHasPlayers, CharacterIsCreated DEF Becomes
<1>3. r \in [Seated(s) -> Player]
  BY <1>2
<1>. HIDE DEF r
<1>. QED  BY <1>1, <1>2, <1>3, RecastAll

(* spawn_characters_for_recently_assigned(), in the first seconds or not.  *)
LEMMA LatecomersRecast ==
  ASSUME NEW s \in Mode
  PROVE  Recast({BornFrozen(s)}, s, SpawnCharactersForRecentlyAssigned(s))
BY SpawnRecasts, RecastNone DEF SpawnCharactersForRecentlyAssigned

(* respawn_the_dead(), in the warmup. *)
LEMMA RespawnRecasts ==
  ASSUME NEW s \in Mode
  PROVE  Recast({BornFrozen(s)}, s, RespawnTheDead(s))
BY SpawnRecasts DEF RespawnTheDead

(* A character that is knocked out stays with its player. *)
LEMMA KnockOutRecasts ==
  ASSUME NEW s \in Mode, NEW p \in Seated(s)
  PROVE  Recast({}, s, KnockOut(s, p))
<1>. DEFINE v == s.players[p]
            when == IF s.state = "WARMUP" THEN s.now ELSE 0
            c == [v.character EXCEPT !.state = "knocked out", !.knocked_out = when]
            w == [v EXCEPT !.character = c]
<1>1. v \in Player /\ when \in Nat
  BY ModeHasPlayers DEF Mode
<1>2. c \in Character /\ c.state = "knocked out"
  <2>. HIDE DEF v, when
  <2>. QED  BY <1>1 DEF Character, Player
<1>3. KnockOut(s, p) = [s EXCEPT !.players[p] = w]
  <2>1. KnockOut(s, p) = [s EXCEPT !.players[p].character = c]
    BY DEF KnockOut
  <2>. HIDE DEF c
  <2>. QED  BY <2>1
<1>. HIDE DEF c, v
<1>4. w \in Player /\ Becomes({}, v, w)
  BY <1>1, <1>2 DEF Player, Becomes
<1>. HIDE DEF w
<1>. QED  BY <1>3, <1>4, RecastOne DEF v

(* A death: the character falls, and somebody is paid for it or fined.     *)
LEMMA DieRecasts ==
  ASSUME NEW s \in Mode, NEW p \in Seated(s), NEW k
  PROVE  Recast({}, s, Die(s, p, k))
<1>. DEFINE t == KnockOut(s, p)
<1>1. Recast({}, s, t) /\ t \in Mode
  BY KnockOutRecasts DEF Recast
<1>2. rules.knockout_award \in Int /\ -rules.team_kill_penalty \in Int
  BY BombAssumption
<1>3. \A amount \in Int : Recast({}, s, PostAward(t, k, amount))
  <2>. HIDE DEF t
  <2>. QED  BY <1>1, AwardRecasts, RecastTwice
<1>. HIDE DEF t
<1>4. Recast({}, s, CountKnockout(t, p, k))
  BY <1>1, <1>2, <1>3 DEF CountKnockout
<1>. QED  BY <1>4 DEF Die, t

(* Whoever is near a bomb that explodes falls. *)
LEMMA BlastRecasts ==
  ASSUME NEW s \in Mode, NEW p \in Seated(s)
  PROVE  Recast({}, s, Detonation(s, p))
BY DieRecasts DEF Detonation

Detonations == INSTANCE SeqFolds WITH Op <- Detonation

(* The explosion, however many it fells and in whichever order.            *)
LEMMA ExplosionRecasts ==
  ASSUME NEW s \in Mode, NEW victims \in Seq(Seated(s))
  PROVE  /\ [s EXCEPT !.bomb.state = "gone"] \in Mode
         /\ Recast({}, [s EXCEPT !.bomb.state = "gone"], Explode(s, victims))
<1>. DEFINE t == [s EXCEPT !.bomb.state = "gone"]
            T == {u \in Mode : Recast({}, t, u)}
            S == Seated(s)
<1>1. t \in Mode /\ Seated(t) = S
  BY DEF Mode, Bomb, Seated
<1>. HIDE DEF t, S
<1>2. t \in T
  BY <1>1, RecastNone
<1>3. ASSUME NEW u \in T, NEW p \in S PROVE Detonation(u, p) \in T
  <2>1. Recast({}, u, Detonation(u, p))
    BY <1>1, <1>3, BlastRecasts DEF Recast
  <2>. QED  BY <2>1, RecastTwice DEF Recast
<1>4. Detonations!Fold(t, victims) \in T
  <2>1. victims \in Seq(S)
    BY DEF S
  <2>. HIDE DEF T
  <2>. QED  BY <1>2, <1>3, <2>1, Detonations!FoldClosed
<1>5. Explode(s, victims) = Detonations!Fold(t, victims)
  BY DEF t, Explode, Detonations!Fold, Detonations!FoldLeft, Detonations!MapThenFoldSet, Detonations!Max, FoldLeft, MapThenFoldSet, Max
<1>. QED  BY <1>1, <1>4, <1>5 DEF t

(* Who buys pays. *)
LEMMA PurchaseRecasts ==
  ASSUME NEW s \in Mode, NEW p \in Seated(s)
  PROVE  Recast({}, s, Purchase(s, p, rules.price))
<1>. DEFINE v == s.players[p]
            w == [v EXCEPT !.money = @ - rules.price]
<1>1. CASE v.money >= rules.price /\ Purchase(s, p, rules.price) # s
  <2>1. v \in Player /\ rules.price \in Nat
    BY ModeHasPlayers, RulesFit
  <2>. HIDE DEF v
  <2>2. v.money \in 0..rules.maximum_money /\ rules.maximum_money \in Nat
    BY <2>1, RulesFit DEF Player
  <2>3. v.money - rules.price \in 0..rules.maximum_money
    BY <1>1, <2>1, <2>2
  <2>4. w \in Player /\ Becomes({}, v, w)
    BY <2>1, <2>3 DEF Player, Becomes
  <2>5. Purchase(s, p, rules.price) = [s EXCEPT !.players[p] = w]
    BY <1>1 DEF Purchase, v
  <2>. HIDE DEF w
  <2>. QED  BY <2>4, <2>5, RecastOne DEF v
<1>2. CASE Purchase(s, p, rules.price) = s
  BY <1>2, RecastNone
<1>. QED  BY <1>1, <1>2 DEF Purchase

(* Everybody's money and choices are set anew. *)
LEMMA ResetRecasts ==
  ASSUME NEW s \in Mode, NEW money \in 0..rules.maximum_money
  PROVE  /\ Recast({}, s, ResetPlayersStats(s))
         /\ Recast({}, s, [s EXCEPT !.players =
                             [p \in Seated(s) |-> [s.players[p] EXCEPT !.money = money]]])
<1>0. rules.initial_money \in 0..rules.maximum_money
  BY RulesFit
<1>1. ASSUME NEW v \in Player, NEW m \in 0..rules.maximum_money
      PROVE  LET b == [v EXCEPT !.money = m]
                 a == [b EXCEPT !.round_when_chosen_faction = -1]
             IN a \in Player /\ b \in Player /\ Becomes({}, v, a) /\ Becomes({}, v, b)
  <2>. DEFINE b == [v EXCEPT !.money = m]
              a == [b EXCEPT !.round_when_chosen_faction = -1]
  <2>1. b \in Player /\ Becomes({}, v, b)
    BY DEF Player, Becomes
  <2>. HIDE DEF b
  <2>2. a \in Player /\ Becomes({}, b, a)
    BY <2>1 DEF Player, Becomes
  <2>. QED  BY <2>1, <2>2 DEF Becomes, b
<1>. DEFINE a == [p \in Seated(s) |-> [s.players[p] EXCEPT !.money = rules.initial_money,
                                                           !.round_when_chosen_faction = -1]]
            b == [p \in Seated(s) |-> [s.players[p] EXCEPT !.money = money]]
<1>2. a \in [Seated(s) -> Player] /\ \A p \in Seated(s) : Becomes({}, s.players[p], a[p])
  BY <1>0, <1>1, ModeHasPlayers
<1>3. b \in [Seated(s) -> Player] /\ \A p \in Seated(s) : Becomes({}, s.players[p], b[p])
  BY <1>1, ModeHasPlayers
<1>4. ResetPlayersStats(s) = [s EXCEPT !.players = a]
  BY DEF ResetPlayersStats, ForEachPlayer
<1>. HIDE DEF a, b
<1>5. Recast({}, s, [s EXCEPT !.players = b])
  BY <1>3, RecastAll
<1>. QED  BY <1>2, <1>4, <1>5, RecastAll DEF b

(* set_players_frozen(): afterwards the flag is true of every character, if *)
(* it was before of every one of them that it now is said of.               *)
LEMMA FreezeTells ==
  ASSUME NEW s \in Mode, NEW flag \in BOOLEAN,
         s.frozen = flag => \A p \in Seated(s) : Stands(s, p, flag)
  PROVE  LET t == SetPlayersFrozen(s, flag)
         IN  /\ t \in Mode
             /\ t = [s EXCEPT !.players = t.players, !.frozen = flag]
             /\ SameSeats(s, t) /\ SameScore(s, t)
             /\ \A p \in Seated(t) : Stands(t, p, flag)
<1>. DEFINE r == [p \in Seated(s) |-> IF s.players[p].character = NoCharacter THEN s.players[p]
                                      ELSE [s.players[p] EXCEPT !.character.frozen = flag]]
            t == [s EXCEPT !.players = r]
            u == [t EXCEPT !.frozen = flag]
<1>1. CASE s.frozen = flag
  <2>1. s = [s EXCEPT !.players = s.players, !.frozen = flag]
    BY <1>1 DEF Mode
  <2>. QED  BY <1>1, <2>1 DEF SetPlayersFrozen, SameSides, SameSeats, SameScore
<1>2. CASE s.frozen # flag
  <2>1. SetPlayersFrozen(s, flag) = u
    BY <1>2 DEF SetPlayersFrozen, ForEachPlayer
  <2>2. ASSUME NEW v \in Player
        PROVE  LET w == IF v.character = NoCharacter THEN v ELSE [v EXCEPT !.character.frozen = flag]
               IN  w \in Player /\ Becomes({flag}, v, w)
                   /\ (w.character.state = "conscious" => w.character.frozen = flag)
    <3>. DEFINE c == [v.character EXCEPT !.frozen = flag]
                w == [v EXCEPT !.character = c]
    <3>1. c \in Character /\ c.frozen = flag
      BY DEF Player, Character
    <3>. HIDE DEF c
    <3>2. w \in Player /\ w.character = c /\ w.faction = v.faction /\ w.color = v.color
      BY <3>1 DEF Player
    <3>3. [v EXCEPT !.character.frozen = flag] = w
      BY DEF c
    <3>. HIDE DEF w
    <3>. QED  BY <3>1, <3>2, <3>3 DEF Becomes, NoCharacter
  <2>3. /\ r \in [Seated(s) -> Player]
        /\ \A p \in Seated(s) : /\ Becomes({flag}, s.players[p], r[p])
                                /\ r[p].character.state = "conscious" => r[p].character.frozen = flag
    BY <2>2, ModeHasPlayers
  <2>. HIDE DEF r
  <2>4. Recast({flag}, s, t) /\ t \in Mode /\ t.players = r
    BY <2>3, RecastAll, Manned, ModeHasPlayers
  <2>5. SameSeats(s, t) /\ SameScore(s, t)
    BY <2>4, RecastFields
  <2>6. u \in Mode /\ u.players = r /\ u = [s EXCEPT !.players = r, !.frozen = flag]
    BY <2>4 DEF Mode
  <2>7. SameSeats(s, u) /\ SameScore(s, u)
    BY <2>4, <2>5, <2>6 DEF Mode, SameSides, SameSeats, SameScore, Seated
  <2>8. \A p \in Seated(u) : Stands(u, p, flag)
    BY <2>3, <2>6 DEF Seated, Stands
  <2>. HIDE DEF u, t
  <2>. QED  BY <2>1, <2>6, <2>7, <2>8
<1>. QED  BY <1>1, <1>2

-----------------------------------------------------------------------------
(* Rounds and matches. *)

(* What holds of a mode at whatever point of a step. *)
Whole(s) == s \in Mode /\ SeatsKept(s) /\ ScoreKept(s)

NoBombYet(s) == s.bomb.state \in {"none", "idle"} /\ s.bomb.defuser = NoId

(* A round, or the warmup, has just been set up. *)
Opened(s) ==
  /\ Whole(s) /\ s.state \in {"WARMUP", "LIVE"} /\ s.now = 0
  /\ s.state = "WARMUP" => rules.warmup_secs > 0
  /\ NoBombYet(s) /\ PostureKept(s)

(* Everybody gets a character, whoever had one before. *)
LEMMA AllAreSpawned ==
  ASSUME NEW s \in Mode, NEW t, t = SpawnEach(s, Seated(s))
  PROVE  \A p \in Seated(t) : Stands(t, p, BornFrozen(s))
<1>1. t = [s EXCEPT !.players = [p \in Seated(s) |-> CreateCharacterForPlayer(s, s.players[p])]]
  BY DEF SpawnEach, ForEachPlayer
<1>2. t.players = [p \in Seated(s) |-> CreateCharacterForPlayer(s, s.players[p])]
  BY <1>1 DEF Mode
<1>3. ASSUME NEW v \in Player
      PROVE  LET w == CreateCharacterForPlayer(s, v)
             IN  w.character.state = "conscious" => w.character.frozen = BornFrozen(s)
  <2>1. CASE v.faction = "SPECTATOR"
    <3>1. CreateCharacterForPlayer(s, v).character = NoCharacter
      BY <2>1 DEF CreateCharacterForPlayer, Player
    <3>. QED  BY <3>1 DEF NoCharacter
  <2>2. CASE v.faction # "SPECTATOR"
    BY <2>2 DEF CreateCharacterForPlayer, Player
  <2>. QED  BY <2>1, <2>2
<1>. QED  BY <1>2, <1>3, ModeHasPlayers DEF Seated, Stands

(* setup_round(): the clock, the bomb and the flag start anew, and every   *)
(* character does as the flag says.                                        *)
LEMMA RoundIsSetUp ==
  ASSUME NEW s \in Mode, s.state \in {"WARMUP", "LIVE"},
         s.state = "WARMUP" => rules.warmup_secs > 0
  PROVE  LET t == SetupRound(s)
         IN  /\ t \in Mode /\ t.state = s.state /\ t.now = 0 /\ t.score = s.score
             /\ t.history = [s.history EXCEPT !.started = IF s.state = "LIVE" THEN @ + 1 ELSE @]
             /\ NoBombYet(t) /\ PostureKept(t) /\ SameSeats(s, t)
<1>. DEFINE live == s.state # "WARMUP"
            bomb == [NoBomb EXCEPT !.state = IF live /\ rules.bomb_flavour THEN "idle" ELSE "none"]
            history == [s.history EXCEPT !.started = IF live THEN @ + 1 ELSE @]
            clean == [s EXCEPT !.now = 0, !.last_win = NoWin, !.planter = NoId, !.frozen = FALSE,
                               !.bomb = bomb, !.history = history]
            peopled == SpawnEach(clean, Seated(clean))
            t == IF live /\ rules.freeze_secs > 0 THEN SetPlayersFrozen(peopled, TRUE) ELSE peopled
<1>1. bomb \in Bomb /\ bomb.state \in {"none", "idle"} /\ bomb.defuser = NoId
  BY DEF NoBomb, NoId, Bomb, AnyId
<1>2. /\ history \in History
      /\ history.team = s.history.team /\ history.bombing = s.history.bombing
  BY DEF Mode, History
<1>3. NoWin \in Win /\ NoId \in AnyId
  BY DEF NoWin, Win, Sides, AnyId
<1>. HIDE DEF bomb, history
<1>4. /\ clean \in Mode /\ clean.state = s.state /\ clean.now = 0 /\ clean.frozen = FALSE
      /\ clean.players = s.players /\ clean.score = s.score /\ clean.bomb = bomb /\ clean.history = history
  BY <1>1, <1>2, <1>3 DEF Mode
<1>5. SetupRound(s) = t
  <2>1. Seated(clean) = Seated(s)
    BY <1>4 DEF Seated
  <2>2. clean = [s EXCEPT !.now = 0, !.last_win = NoWin, !.planter = NoId, !.frozen = FALSE,
                          !.bomb = bomb, !.history.started = IF live THEN @ + 1 ELSE @]
    BY DEF history
  <2>. HIDE DEF clean
  <2>. QED  BY <2>1, <2>2 DEF SetupRound, bomb
<1>6. SameSeats(s, clean)
  BY <1>2, <1>4 DEF SameSeats, SameSides, Seated
<1>. HIDE DEF clean
<1>7. /\ Recast({BornFrozen(clean)}, clean, peopled)
      /\ \A p \in Seated(peopled) : Stands(peopled, p, BornFrozen(clean))
  BY <1>4, SpawnRecasts, AllAreSpawned
<1>8. /\ peopled \in Mode /\ peopled.state = s.state /\ peopled.now = 0 /\ peopled.score = s.score
      /\ peopled.history = history /\ peopled.bomb = bomb /\ peopled.frozen = FALSE
      /\ SameSeats(clean, peopled)
  BY <1>4, <1>7, RecastFields
<1>. HIDE DEF peopled
<1>9. rules.freeze_secs \in Nat /\ rules.warmup_secs \in Int
  BY RulesFit
<1>10. CASE live /\ rules.freeze_secs > 0
  <2>1. t = SetPlayersFrozen(peopled, TRUE)
    BY <1>10
  <2>2. /\ t \in Mode /\ t = [peopled EXCEPT !.players = t.players, !.frozen = TRUE]
        /\ SameSeats(peopled, t) /\ \A p \in Seated(t) : Stands(t, p, TRUE)
    <3>1. peopled.frozen # TRUE
      BY <1>8
    <3>. HIDE DEF t
    <3>. QED  BY <1>8, <2>1, <3>1, FreezeTells
  <2>. HIDE DEF t
  <2>3. /\ t.state = s.state /\ t.now = 0 /\ t.score = s.score /\ t.history = history
        /\ t.bomb = bomb /\ t.frozen = TRUE
    BY <1>8, <2>2 DEF Mode
  <2>4. PostureKept(t)
    BY <1>9, <1>10, <2>2, <2>3 DEF PostureKept, FlagAt
  <2>. QED  BY <1>1, <1>5, <1>6, <1>8, <2>2, <2>3, <2>4
            DEF NoBombYet, SameSeats, SameSides, history
<1>11. CASE ~(live /\ rules.freeze_secs > 0)
  <2>1. t = peopled
    BY <1>11
  <2>2. BornFrozen(clean) = FALSE
    BY <1>4, <1>9, <1>11 DEF BornFrozen, FreezeLeft, WarmupLeft
  <2>. HIDE DEF t
  <2>3. PostureKept(t)
    <3>1. FlagAt(t, 0)
      <4>1. t.frozen = FALSE /\ t.state = s.state
        BY <1>8, <2>1
      <4>2. s.state = "LIVE" => ~(0 < rules.freeze_secs)
        BY <1>9, <1>11
      <4>3. s.state = "WARMUP" => ~(0 >= rules.warmup_secs)
        BY <1>9
      <4>. QED  BY <4>1, <4>2, <4>3 DEF FlagAt
    <3>2. \A p \in Seated(t) : Stands(t, p, FALSE)
      BY <1>7, <2>1, <2>2
    <3>. QED  BY <1>8, <2>1, <3>1, <3>2 DEF PostureKept
  <2>. QED  BY <1>1, <1>5, <1>6, <1>8, <2>1, <2>3
            DEF NoBombYet, SameSeats, SameSides, history
<1>. QED  BY <1>10, <1>11

(* A round is started in a match that goes on: with it the phase, and the  *)
(* number of rounds started.                                               *)
GoesOn(s) ==
  /\ \A f \in Factions : s.score[f] = s.history.won[TeamOn(s.history, f)]
  /\ RoundNum(s) = s.history.started
  /\ ~IsFinalRound(s)
  /\ (s.history.bombing = 2) = (RoundNum(s) >= NumRounds \div 2)

(* setup_round() while the match is live: one round more was started, and  *)
(* nothing else of the score changes.                                      *)
LEMMA LiveIsSetUp ==
  ASSUME NEW s \in Mode, s.state = "LIVE", SeatsKept(s), GoesOn(s)
  PROVE  Opened(SetupRound(s))
<1>. DEFINE t == SetupRound(s)
<1>1. /\ t \in Mode /\ t.state = "LIVE" /\ t.now = 0 /\ t.score = s.score
      /\ t.history = [s.history EXCEPT !.started = @ + 1]
      /\ NoBombYet(t) /\ PostureKept(t) /\ SameSeats(s, t)
  BY RoundIsSetUp
<1>. HIDE DEF t
<1>2. SeatsKept(t)
  BY <1>1, SeatsAlone
<1>3. /\ t.history.won = s.history.won /\ t.history.bombing = s.history.bombing
      /\ t.history.started = s.history.started + 1 /\ s.history.started \in Nat
  BY <1>1 DEF Mode, History
<1>4. RoundNum(t) = RoundNum(s) /\ IsFinalRound(t) = IsFinalRound(s)
  BY <1>1 DEF RoundNum, IsFinalRound
<1>5. \A f : TeamOn(t.history, f) = TeamOn(s.history, f)
  BY <1>3 DEF TeamOn
<1>6. ScoreKept(t)
  <2>1. RoundNum(t) = t.history.started - 1
    BY <1>3, <1>4 DEF GoesOn
  <2>. QED  BY <1>1, <1>3, <1>4, <1>5, <2>1 DEF ScoreKept, GoesOn
<1>. QED  BY <1>1, <1>2, <1>6 DEF Opened, Whole, t

(* Before anything was played, a match goes on. *)
LEMMA NothingPlayed ==
  ASSUME NEW s \in Mode, \A f \in Factions : s.score[f] = 0 /\ s.history.won[TeamOn(s.history, f)] = 0,
         s.history.started = 0, s.history.bombing = 1
  PROVE  GoesOn(s)
<1>1. s.score["BOMBING"] = 0 /\ s.score["DEFUSING"] = 0 /\ RoundNum(s) = 0
  BY DEF Factions, RoundNum
<1>2. NumRounds \div 2 \in Nat \ {0} /\ NumRounds # 0
  BY Halves
<1>3. ~IsFinalRound(s)
  BY <1>1, <1>2 DEF IsFinalRound, Factions
<1>. QED  BY <1>1, <1>2, <1>3 DEF GoesOn

(* restart(): whatever was before, a warmup or a first round is set up.    *)
LEMMA RestartOpens ==
  ASSUME NEW s \in Mode, ColorsKept(s), LimitKept(s)
  PROVE  Opened(Restart(s))
<1>. DEFINE none == [f \in Factions |-> 0]
            history == [s.history EXCEPT
                          !.won = [team \in 1..2 |-> 0], !.started = 0, !.bombing = 1,
                          !.team = [p \in Ids |-> IF p \in Seated(s)
                                      THEN TeamOn([bombing |-> 1], s.players[p].faction) ELSE 0]]
            stats == ResetPlayersStats(s)
            reset == [stats EXCEPT !.score = none, !.losses = none, !.history = history]
            rich  == [reset EXCEPT !.players = [p \in Seated(reset) |->
                        [reset.players[p] EXCEPT !.money = rules.warmup_initial_money]]]
            warm  == [rich EXCEPT !.state = "WARMUP"]
            live  == [reset EXCEPT !.state = "LIVE"]
<1>1. Recast({}, s, stats) /\ stats \in Mode /\ stats.history = s.history /\ SameSides(s, stats)
  BY ResetRecasts, RecastFields, RulesFit DEF SameSeats
<1>2. /\ history \in History
      /\ history.won = [team \in 1..2 |-> 0] /\ history.started = 0 /\ history.bombing = 1
      /\ \A p \in Ids \ Seated(s) : history.team[p] = 0
      /\ \A p \in Seated(s) : history.team[p] = TeamOn(history, s.players[p].faction)
  <2>. DEFINE team == [p \in Ids |-> IF p \in Seated(s)
                         THEN TeamOn([bombing |-> 1], s.players[p].faction) ELSE 0]
  <2>1. team \in [Ids -> 0..2]
    BY DEF TeamOn
  <2>2. [i \in 1..2 |-> 0] \in [1..2 -> Nat]
    OBVIOUS
  <2>. HIDE DEF team
  <2>3. history = [s.history EXCEPT !.won = [i \in 1..2 |-> 0], !.started = 0, !.bombing = 1, !.team = team]
    BY DEF team
  <2>. HIDE DEF history
  <2>4. /\ history \in History /\ history.team = team
        /\ history.won = [i \in 1..2 |-> 0] /\ history.started = 0 /\ history.bombing = 1
    <3>1. PICK won \in [1..2 -> Nat] : won = [i \in 1..2 |-> 0]
      BY <2>2
    <3>2. PICK h \in History : h = s.history
      BY DEF Mode
    <3>3. history = [h EXCEPT !.won = won, !.started = 0, !.bombing = 1, !.team = team]
      BY <2>3, <3>1, <3>2
    <3>4. history = [team |-> team, bombing |-> 1, won |-> won, started |-> 0, maps |-> h.maps]
      BY <3>3 DEF History
    <3>. QED  BY <2>1, <3>1, <3>4 DEF History
  <2>5. \A f : TeamOn(history, f) = TeamOn([bombing |-> 1], f)
    BY <2>4 DEF TeamOn
  <2>6. \A p \in Seated(s) : team[p] = TeamOn([bombing |-> 1], s.players[p].faction)
    BY ModeHasPlayers DEF team
  <2>7. \A p \in Ids \ Seated(s) : team[p] = 0
    BY DEF team
  <2>. QED  BY <2>4, <2>5, <2>6, <2>7
<1>3. none \in Points /\ \A f \in Factions : none[f] = 0
  BY DEF Points
<1>. HIDE DEF history, none, stats
<1>4. /\ reset \in Mode /\ reset.score = none /\ reset.history = history /\ reset.players = stats.players
  BY <1>1, <1>2, <1>3 DEF Mode
<1>5. SameSides(s, reset)
  BY <1>1, <1>4 DEF SameSides, Seated
<1>6. Restart(s) = SetupRound(IF rules.warmup_secs > 4 THEN warm ELSE live)
  <2>1. reset = [stats EXCEPT
                  !.score = none, !.losses = none,
                  !.history.won = [team \in 1..2 |-> 0], !.history.started = 0, !.history.bombing = 1,
                  !.history.team = [p \in Ids |->
                     IF p \in Seated(s) THEN TeamOn([bombing |-> 1], s.players[p].faction) ELSE 0]]
    BY <1>1 DEF history
  <2>. HIDE DEF reset
  <2>. QED  BY <2>1 DEF Restart, stats, none, ForEachPlayer
<1>. HIDE DEF reset
<1>7. /\ rich \in Mode /\ rich.score = none /\ rich.history = history /\ SameSides(s, rich)
  <2>1. Recast({}, reset, rich)
    BY <1>4, ResetRecasts, RulesFit
  <2>2. SameSides(reset, rich) /\ rich \in Mode /\ rich.score = none /\ rich.history = history
    BY <1>4, <2>1, RecastFields DEF SameSeats
  <2>. QED  BY <1>5, <2>2 DEF SameSides
<1>. HIDE DEF rich
<1>8. ASSUME NEW u, u \in Mode, u.score = none, u.history = history, SameSides(s, u)
      PROVE  /\ SeatsKept(u)
             /\ GoesOn(u)
             /\ u.state = "LIVE" => Opened(SetupRound(u))
             /\ u.state = "WARMUP" /\ rules.warmup_secs > 0 => Opened(SetupRound(u))
  <2>1. TeamsKept(u)
    BY <1>2, <1>8 DEF TeamsKept, SameSides
  <2>2. SeatsKept(u)
    BY <1>8, <2>1, SidesAlone DEF SeatsKept
  <2>3. \A f \in Factions : u.score[f] = 0 /\ u.history.won[TeamOn(u.history, f)] = 0
    BY <1>2, <1>3, <1>8 DEF Factions, TeamOn
  <2>4. GoesOn(u)
    BY <1>2, <1>8, <2>3, NothingPlayed
  <2>5. u.state = "LIVE" => Opened(SetupRound(u))
    BY <1>8, <2>2, <2>4, LiveIsSetUp
  <2>6. ASSUME u.state = "WARMUP", rules.warmup_secs > 0 PROVE Opened(SetupRound(u))
    <3>. DEFINE t == SetupRound(u)
    <3>1. /\ t \in Mode /\ t.state = "WARMUP" /\ t.now = 0 /\ t.score = none
          /\ t.history = [history EXCEPT !.started = @]
          /\ NoBombYet(t) /\ PostureKept(t) /\ SameSeats(u, t)
      BY <1>8, <2>6, RoundIsSetUp
    <3>. HIDE DEF t
    <3>2. t.history = history
      BY <1>2, <3>1 DEF History
    <3>3. SeatsKept(t)
      BY <2>2, <3>1, SeatsAlone
    <3>4. RoundNum(t) = 0
      BY <1>3, <3>1 DEF RoundNum, Factions
    <3>5. ScoreKept(t)
      BY <1>2, <1>8, <2>3, <3>1, <3>2, <3>4 DEF ScoreKept
    <3>. QED  BY <2>6, <3>1, <3>3, <3>5 DEF Opened, Whole, t
  <2>. QED  BY <2>2, <2>4, <2>5, <2>6
<1>9. /\ warm \in Mode /\ warm.state = "WARMUP" /\ warm.score = none /\ warm.history = history
      /\ SameSides(s, warm)
  BY <1>7 DEF Mode, SameSides, Seated, Phases
<1>10. /\ live \in Mode /\ live.state = "LIVE" /\ live.score = none /\ live.history = history
       /\ SameSides(s, live)
  BY <1>4, <1>5 DEF Mode, SameSides, Seated, Phases
<1>. HIDE DEF warm, live
<1>. QED  BY <1>6, <1>8, <1>9, <1>10, RulesFit

(* Sides are swapped: a team of the one side is that of the other.         *)
LEMMA SidesAreSwapped ==
  ASSUME NEW s \in Mode, NEW t, t = SwapAssignedFactions(s)
  PROVE  /\ t \in Mode /\ t = [s EXCEPT !.players = t.players]
         /\ Seated(t) = Seated(s)
         /\ \A p \in Seated(s) :
              t.players[p].faction = IF s.players[p].faction \in Factions
                                     THEN Other(s.players[p].faction) ELSE s.players[p].faction
         /\ ColorsKept(s) => ColorsKept(t)
         /\ LimitKept(s) => LimitKept(t)
<1>. DEFINE r == [p \in Seated(s) |-> IF s.players[p].faction \in Factions
                                      THEN [s.players[p] EXCEPT !.faction = Other(@)] ELSE s.players[p]]
<1>1. ASSUME NEW v \in Player, v.faction \in Factions
      PROVE  LET w == [v EXCEPT !.faction = Other(@)]
             IN  w \in Player /\ w.faction = Other(v.faction) /\ w.color = v.color
  BY <1>1 DEF Player, Sides, Factions, Other
<1>2. /\ r \in [Seated(s) -> Player]
      /\ \A p \in Seated(s) :
           /\ r[p].color = s.players[p].color
           /\ r[p].faction = IF s.players[p].faction \in Factions
                             THEN Other(s.players[p].faction) ELSE s.players[p].faction
  BY <1>1, ModeHasPlayers
<1>3. t = [s EXCEPT !.players = r]
  BY DEF SwapAssignedFactions, ForEachPlayer
<1>. HIDE DEF r
<1>4. t \in Mode /\ t.players = r /\ Seated(t) = Seated(s)
  BY <1>2, <1>3, Manned, ModeHasPlayers DEF Seated
<1>5. /\ \A f \in Factions : PlayersIn(t, f) = PlayersIn(s, Other(f))
      /\ PlayersIn(t, "SPECTATOR") = PlayersIn(s, "SPECTATOR")
  BY <1>2, <1>4 DEF PlayersIn, Other, Factions
<1>6. ColorsOf(t) = ColorsOf(s)
  BY <1>2, <1>4 DEF ColorsOf
<1>7. \A f \in Factions : Other(f) \in Factions
  BY DEF Factions, Other
<1>8. \A p \in PlayersIn(s, "SPECTATOR") : t.players[p].color = s.players[p].color
  BY <1>2, <1>4 DEF PlayersIn
<1>9. ColorsKept(s) => ColorsKept(t)
  BY <1>5, <1>6, <1>7, <1>8 DEF ColorsKept
<1>10. LimitKept(s) => LimitKept(t)
  BY <1>5, <1>7 DEF LimitKept
<1>. QED  BY <1>2, <1>3, <1>4, <1>9, <1>10

(* The second half: teams keep what they have won on the other side.       *)
LEMMA SecondHalfOpens ==
  ASSUME NEW s, Whole(s), s.state = "MATCH_SUMMARY", ~IsFinalRound(s)
  PROVE  Opened(StartNextHalf(s))
<1>. DEFINE swapped == SwapAssignedFactions(s)
            paid    == [swapped EXCEPT !.players = [p \in Seated(swapped) |->
                         [swapped.players[p] EXCEPT !.money = rules.initial_money]]]
            score   == [f \in Factions |-> s.score[Other(f)]]
            losses  == [f \in Factions |-> 0]
            history == [s.history EXCEPT !.bombing = 3 - @]
            u       == [paid EXCEPT !.score = score, !.losses = losses, !.history = history]
            live    == [u EXCEPT !.state = "LIVE"]
<1>1. /\ s \in Mode /\ SeatsKept(s) /\ RoundNum(s) = s.history.started
      /\ \A f \in Factions : s.score[f] = s.history.won[TeamOn(s.history, f)]
      /\ IsHalfwayRound(s) /\ s.history.bombing = 1
  BY DEF Whole, ScoreKept
<1>2. /\ swapped \in Mode /\ swapped = [s EXCEPT !.players = swapped.players]
      /\ Seated(swapped) = Seated(s)
      /\ \A p \in Seated(s) :
           swapped.players[p].faction = IF s.players[p].faction \in Factions
                                        THEN Other(s.players[p].faction) ELSE s.players[p].faction
      /\ ColorsKept(swapped) /\ LimitKept(swapped)
  BY <1>1, SidesAreSwapped DEF SeatsKept
<1>3. swapped.history = s.history /\ swapped.score = s.score
  BY <1>1, <1>2 DEF Mode
<1>. HIDE DEF swapped
<1>4. Recast({}, swapped, paid)
  BY <1>2, ResetRecasts, RulesFit
<1>5. paid \in Mode /\ paid.history = s.history /\ paid.score = s.score /\ SameSides(swapped, paid)
  BY <1>2, <1>3, <1>4, RecastFields DEF SameSeats
<1>6. score \in Points /\ score["BOMBING"] = s.score["DEFUSING"] /\ score["DEFUSING"] = s.score["BOMBING"]
      /\ losses \in Points
  BY <1>1 DEF Mode, Points, Factions, Other
<1>7. /\ history \in History /\ history.bombing = 2 /\ history.team = s.history.team
      /\ history.won = s.history.won /\ history.started = s.history.started
  BY <1>1 DEF Mode, History
<1>8. StartNextHalf(s) = SetupRound(live)
  <2>1. u = [paid EXCEPT !.score = score, !.losses = losses, !.history.bombing = 3 - @]
    BY <1>5 DEF history
  <2>. HIDE DEF u, score, losses
  <2>2. StartNextHalf(s) = StartNextRound(u)
    BY <2>1 DEF StartNextHalf, ForEachPlayer, swapped, score, losses
  <2>. QED  BY <2>2 DEF StartNextRound
<1>. HIDE DEF paid, score, losses, history
<1>9. /\ live \in Mode /\ live.state = "LIVE" /\ live.score = score /\ live.history = history
      /\ live.players = paid.players
  BY <1>5, <1>6, <1>7 DEF Mode, Phases
<1>. HIDE DEF live
<1>10. SameSides(swapped, live)
  BY <1>5, <1>9 DEF SameSides, Seated
<1>11. TeamOn(history, "BOMBING") = TeamOn(s.history, "DEFUSING")
       /\ TeamOn(history, "DEFUSING") = TeamOn(s.history, "BOMBING")
       /\ TeamOn(history, "SPECTATOR") = TeamOn(s.history, "SPECTATOR")
  BY <1>1, <1>7 DEF TeamOn
<1>12. TeamsKept(live)
  <2>1. TeamsKept(s) /\ Seated(live) = Seated(s)
    BY <1>1, <1>2, <1>10 DEF SeatsKept, SameSides
  <2>2. ASSUME NEW p \in Seated(s)
        PROVE  history.team[p] = TeamOn(history, live.players[p].faction)
    <3>1. s.players[p].faction \in Sides
      BY <1>1, ModeHasPlayers DEF Player
    <3>2. live.players[p].faction = IF s.players[p].faction \in Factions
                                    THEN Other(s.players[p].faction) ELSE s.players[p].faction
      BY <1>2, <1>10 DEF SameSides
    <3>3. history.team[p] = TeamOn(s.history, s.players[p].faction)
      BY <1>7, <2>1 DEF TeamsKept
    <3>. QED  BY <1>11, <3>1, <3>2, <3>3 DEF Sides, Factions, Other
  <2>. QED  BY <1>7, <1>9, <2>1, <2>2 DEF TeamsKept
<1>13. SeatsKept(live)
  BY <1>2, <1>10, <1>12, SidesAlone DEF SeatsKept
<1>14. GoesOn(live)
  <2>1. s.score["BOMBING"] \in Nat /\ s.score["DEFUSING"] \in Nat
    BY <1>1 DEF Mode, Points, Factions
  <2>2. RoundNum(live) = RoundNum(s)
    BY <1>6, <1>9, <2>1 DEF RoundNum
  <2>3. ~IsFinalRound(live)
    BY <1>6, <1>9, <2>2 DEF IsFinalRound, Factions
  <2>4. RoundNum(live) >= NumRounds \div 2
    BY <1>1, <2>2, Halves DEF IsHalfwayRound
  <2>5. \A f \in Factions : live.score[f] = live.history.won[TeamOn(live.history, f)]
    BY <1>1, <1>6, <1>7, <1>9, <1>11 DEF Factions
  <2>. QED  BY <1>1, <1>7, <1>9, <2>2, <2>3, <2>4, <2>5 DEF GoesOn
<1>. QED  BY <1>8, <1>9, <1>13, <1>14, LiveIsSetUp

(* The next round of a half. *)
LEMMA NextRoundOpens ==
  ASSUME NEW s, Whole(s), s.state = "ROUND_END_DELAY"
  PROVE  Opened(StartNextRound(s))
<1>. DEFINE live == [s EXCEPT !.state = "LIVE"]
<1>1. /\ live \in Mode /\ live.state = "LIVE" /\ live.score = s.score /\ live.history = s.history
      /\ live.players = s.players
  BY DEF Whole, Mode, Phases
<1>. HIDE DEF live
<1>2. SeatsKept(live)
  BY <1>1, SeatsAlone DEF SameSeats, SameSides, Seated, Whole
<1>3. RoundNum(live) = RoundNum(s) /\ IsFinalRound(live) = IsFinalRound(s)
  BY <1>1 DEF RoundNum, IsFinalRound
<1>4. GoesOn(live)
  BY <1>1, <1>3 DEF Whole, ScoreKept, GoesOn
<1>. QED  BY <1>1, <1>2, <1>4, LiveIsSetUp DEF StartNextRound, live

(* The first round after the warmup. *)
LEMMA WarmupEnds ==
  ASSUME NEW s, Whole(s), s.state = "WARMUP"
  PROVE  Opened(EndWarmupAndGoLive(s))
<1>. DEFINE live == [s EXCEPT !.state = "LIVE"]
            t    == ResetPlayersStats(live)
<1>1. /\ live \in Mode /\ live.state = "LIVE" /\ live.score = s.score /\ live.history = s.history
      /\ live.players = s.players
  BY DEF Whole, Mode, Phases
<1>. HIDE DEF live
<1>2. SeatsKept(live)
  BY <1>1, SeatsAlone DEF SameSeats, SameSides, Seated, Whole
<1>3. /\ t \in Mode /\ t.state = "LIVE" /\ t.score = s.score /\ t.history = s.history /\ SeatsKept(t)
  BY <1>1, <1>2, ResetRecasts, RecastFields, SeatsAlone, RulesFit
<1>. HIDE DEF t
<1>4. s.score["BOMBING"] = 0 /\ s.score["DEFUSING"] = 0
  <2>1. s.score["BOMBING"] \in Nat /\ s.score["DEFUSING"] \in Nat
    BY DEF Whole, Mode, Points, Factions
  <2>2. s.score["BOMBING"] + s.score["DEFUSING"] = 0
    BY DEF Whole, ScoreKept, RoundNum
  <2>. QED  BY <2>1, <2>2
<1>5. GoesOn(t)
  <2>1. \A f \in Factions : s.score[f] = s.history.won[TeamOn(s.history, f)]
    BY DEF Whole, ScoreKept
  <2>2. \A f \in Factions : t.score[f] = 0 /\ t.history.won[TeamOn(t.history, f)] = 0
    BY <1>3, <1>4, <2>1 DEF Factions
  <2>. QED  BY <1>3, <2>2, NothingPlayed DEF Whole, ScoreKept
<1>. QED  BY <1>3, <1>5, LiveIsSetUp DEF EndWarmupAndGoLive, t, live

-----------------------------------------------------------------------------
(* Rounds that are decided. *)

(* Who stands as the flag says does so after what leaves it to F.          *)
LEMMA RecastStands ==
  ASSUME NEW s, NEW t, NEW F, NEW flag, Recast(F, s, t), F \subseteq {flag},
         \A p \in Seated(s) : Stands(s, p, flag)
  PROVE  \A p \in Seated(t) : Stands(t, p, flag)
BY DEF Recast, Becomes, Stands

(* What a won round is worth to either side is a number. *)
LEMMA AwardsAreNumbers ==
  ASSUME NEW n \in Int, NEW planted \in BOOLEAN
  PROVE  /\ rules.winning_faction_award + (IF planted THEN rules.defused_team_bonus ELSE 0) \in Int
         /\ rules.losing_faction_award
              + Min({n - 1, rules.max_consecutive_loss_bonuses}) * rules.consecutive_loss_bonus
              + (IF planted THEN rules.lost_but_bomb_planted_team_bonus ELSE 0) \in Int
<1>1. PICK a \in Int, b \in Int, c \in Int, d \in Int, e \in Int, m \in Int :
        /\ a = rules.winning_faction_award /\ b = rules.defused_team_bonus
        /\ c = rules.losing_faction_award /\ d = rules.consecutive_loss_bonus
        /\ e = rules.lost_but_bomb_planted_team_bonus /\ m = rules.max_consecutive_loss_bonuses
  BY BombAssumption
<1>2. PICK k \in Int : k = Min({n - 1, m})
  <2>1. n - 1 \in Int
    OBVIOUS
  <2>. QED  BY <2>1, OfTwo
<1>3. PICK kd \in Int : kd = k * d
  BY <1>1, <1>2
<1>4. a + (IF planted THEN b ELSE 0) \in Int /\ c + kd + (IF planted THEN e ELSE 0) \in Int
  OBVIOUS
<1>. QED  BY <1>1, <1>2, <1>3, <1>4

(* make_win(): the round is accounted to a side; half of the rounds, or    *)
(* the match, may be over with it.                                         *)
LEMMA WinIsMade ==
  ASSUME NEW s, Whole(s), s.state = "LIVE", NEW winner \in Factions,
         \A p \in Seated(s) : Stands(s, p, s.frozen)
  PROVE  LET t == MakeWin(s, winner)
         IN  /\ Whole(t) /\ PostureKept(t)
             /\ t.state \in {"ROUND_END_DELAY", "MATCH_SUMMARY"}
             /\ t.now = s.now /\ t.bomb = s.bomb
             /\ t.last_win.when = s.now /\ t.last_win.winner = winner
<1>. DEFINE loser == Other(winner)
            losses == s.losses[loser] + 1
            planted == loser = "BOMBING" /\ s.planter # NoId
            winner_award == rules.winning_faction_award + IF planted THEN rules.defused_team_bonus ELSE 0
            loser_award == rules.losing_faction_award
                       + Min({losses - 1, rules.max_consecutive_loss_bonuses}) * rules.consecutive_loss_bonus
                       + IF planted THEN rules.lost_but_bomb_planted_team_bonus ELSE 0
            amount(p) == IF s.players[p].faction = winner THEN winner_award ELSE loser_award
            score == [s.score EXCEPT ![winner] = @ + 1]
            lost == [f \in Factions |-> IF f = winner THEN 0 ELSE losses]
            w == TeamOn(s.history, winner)
            history == [s.history EXCEPT !.won[w] = @ + 1]
            win == [when |-> s.now, winner |-> winner]
            won == [s EXCEPT !.score = score, !.losses = lost, !.state = "ROUND_END_DELAY",
                             !.last_win = win, !.history = history]
            r == [p \in Seated(won) |-> [won.players[p] EXCEPT !.money = Awarded(@,
                    IF won.players[p].faction = winner THEN winner_award ELSE loser_award)]]
            paid == [won EXCEPT !.players = r]
            over == [paid EXCEPT !.state = "MATCH_SUMMARY"]
            t == IF IsHalfwayRound(paid) \/ IsFinalRound(paid) THEN SetPlayersFrozen(over, TRUE) ELSE paid
<1>1. /\ s \in Mode /\ SeatsKept(s) /\ ~IsFinalRound(s)
      /\ RoundNum(s) = s.history.started - 1
      /\ (s.history.bombing = 2) = (RoundNum(s) >= NumRounds \div 2)
      /\ \A f \in Factions : s.score[f] = s.history.won[TeamOn(s.history, f)]
  BY DEF Whole, ScoreKept
<1>2. loser \in Factions /\ losses \in Nat
  BY <1>1 DEF Other, Factions, Mode, Points
<1>3. winner_award \in Int /\ loser_award \in Int
  <2>1. planted \in BOOLEAN /\ losses \in Int
    BY <1>2
  <2>. HIDE DEF planted, losses
  <2>. QED  BY <2>1, AwardsAreNumbers
<1>4. /\ score \in Points /\ score[winner] = s.score[winner] + 1 /\ score[Other(winner)] = s.score[Other(winner)]
      /\ lost \in Points
  BY <1>1, <1>2 DEF Mode, Points, Other, Factions
<1>5. /\ history \in History /\ history.bombing = s.history.bombing /\ history.team = s.history.team
      /\ history.started = s.history.started
      /\ history.won[w] = s.history.won[w] + 1
      /\ w \in 1..2 /\ TeamOn(s.history, Other(winner)) \in 1..2 /\ TeamOn(s.history, Other(winner)) # w
      /\ history.won[TeamOn(s.history, Other(winner))] = s.history.won[TeamOn(s.history, Other(winner))]
  <2>1. PICK h \in History : h = s.history
    BY <1>1 DEF Mode
  <2>2. w \in 1..2 /\ TeamOn(h, Other(winner)) \in 1..2 /\ TeamOn(h, Other(winner)) # w
    BY <2>1 DEF TeamOn, Other, Factions, History
  <2>. HIDE DEF w
  <2>3. PICK wins \in [1..2 -> Nat] : wins = [h.won EXCEPT ![w] = @ + 1]
    <3>1. PICK f \in [1..2 -> Nat] : f = h.won
      BY DEF History
    <3>2. [f EXCEPT ![w] = f[w] + 1] \in [1..2 -> Nat]
      BY <2>2
    <3>. QED  BY <3>1, <3>2
  <2>4. history = [h EXCEPT !.won = wins]
    BY <2>1, <2>3
  <2>5. wins[w] = h.won[w] + 1 /\ wins[TeamOn(h, Other(winner))] = h.won[TeamOn(h, Other(winner))]
    BY <2>2, <2>3 DEF History
  <2>. HIDE DEF history
  <2>6. history = [team |-> h.team, bombing |-> h.bombing, won |-> wins, started |-> h.started, maps |-> h.maps]
    BY <2>4 DEF History
  <2>. QED  BY <2>1, <2>2, <2>5, <2>6 DEF History
<1>6. win \in Win
  BY <1>1 DEF Win, Mode, Sides
<1>7. MakeWin(s, winner) = t
  <2>1. won = [s EXCEPT !.score[winner] = @ + 1, !.losses = lost, !.state = "ROUND_END_DELAY",
                        !.last_win = win, !.history.won[w] = @ + 1]
    BY DEF history, score
  <2>. HIDE DEF won, lost, win, w, winner_award, loser_award
  <2>. QED  BY <2>1 DEF MakeWin, ForEachPlayer, lost, win, w, winner_award, loser_award
<1>. HIDE DEF winner_award, loser_award, losses, planted, lost, history, score, win
<1>8. /\ won \in Mode /\ won.players = s.players /\ won.score = score /\ won.history = history
      /\ won.state = "ROUND_END_DELAY" /\ won.now = s.now /\ won.last_win = win /\ won.bomb = s.bomb
      /\ won.frozen = s.frozen
  BY <1>1, <1>4, <1>5, <1>6 DEF Mode, Phases
<1>. HIDE DEF won
<1>9. Recast({}, won, paid)
  <2>1. ASSUME NEW p \in Seated(won)
        PROVE  r[p] \in Player /\ Becomes({}, won.players[p], r[p])
    <3>. DEFINE v == won.players[p]
                m == Awarded(v.money, IF v.faction = winner THEN winner_award ELSE loser_award)
    <3>1. v \in Player
      BY <1>8, ModeHasPlayers
    <3>2. m \in 0..rules.maximum_money
      BY <1>3, <3>1, AwardedInRange DEF Player
    <3>3. r[p] = [v EXCEPT !.money = m]
      OBVIOUS
    <3>. HIDE DEF v, m, r
    <3>4. r[p] \in Player /\ Becomes({}, v, r[p])
      BY <3>1, <3>2, <3>3 DEF Player, Becomes
    <3>. QED  BY <3>4 DEF v
  <2>2. r \in [Seated(won) -> Player]
    BY <2>1
  <2>. HIDE DEF r
  <2>. QED  BY <1>8, <2>1, <2>2, RecastAll
<1>10. /\ paid \in Mode /\ paid.score = score /\ paid.history = history
       /\ paid.state = "ROUND_END_DELAY" /\ paid.now = s.now /\ paid.last_win = win /\ paid.bomb = s.bomb
       /\ paid.frozen = s.frozen /\ SameSides(won, paid)
  BY <1>8, <1>9, RecastFields DEF SameSeats
<1>11. \A p \in Seated(paid) : Stands(paid, p, paid.frozen)
  <2>1. \A p \in Seated(won) : Stands(won, p, s.frozen)
    BY <1>8 DEF Stands, Seated
  <2>. HIDE DEF paid
  <2>. QED  BY <1>9, <1>10, <2>1, RecastStands
<1>. HIDE DEF r, paid
<1>12. SameSides(s, paid)
  BY <1>8, <1>10 DEF SameSides, Seated
<1>13. RoundNum(paid) = RoundNum(s) + 1 /\ RoundNum(paid) = history.started /\ RoundNum(s) \in Nat
  <2>1. s.score["BOMBING"] \in Nat /\ s.score["DEFUSING"] \in Nat /\ s.history.started \in Nat
    BY <1>1 DEF Mode, Points, Factions, History
  <2>. QED  BY <1>1, <1>4, <1>5, <1>10, <2>1 DEF RoundNum, Factions, Other
<1>14. \A f \in Factions : score[f] = history.won[TeamOn(history, f)]
  <2>1. \A f : TeamOn(history, f) = TeamOn(s.history, f)
    BY <1>5 DEF TeamOn
  <2>2. score[winner] = history.won[w] /\ score[Other(winner)] = history.won[TeamOn(s.history, Other(winner))]
    BY <1>1, <1>2, <1>4, <1>5
  <2>3. \A f \in Factions : f = winner \/ f = Other(winner)
    BY DEF Factions, Other
  <2>. QED  BY <2>1, <2>2, <2>3
<1>15. ASSUME NEW u, u \in Mode, u.score = score, u.history = history, SameSides(s, u)
       PROVE  SeatsKept(u) /\ RoundNum(u) = RoundNum(paid) /\ IsFinalRound(u) = IsFinalRound(paid)
              /\ IsHalfwayRound(u) = IsHalfwayRound(paid)
  <2>1. SameSeats(s, u)
    BY <1>5, <1>15 DEF SameSeats
  <2>. QED  BY <1>1, <1>10, <1>15, <2>1, SeatsAlone DEF RoundNum, IsFinalRound, IsHalfwayRound
<1>16. CASE IsHalfwayRound(paid) \/ IsFinalRound(paid)
  <2>1. /\ over \in Mode /\ over.score = score /\ over.history = history
        /\ over.state = "MATCH_SUMMARY" /\ over.now = s.now /\ over.last_win = win /\ over.bomb = s.bomb
        /\ over.frozen = paid.frozen /\ over.players = paid.players
    BY <1>10 DEF Mode, Phases
  <2>. HIDE DEF over
  <2>2. SameSides(s, over)
    BY <1>12, <2>1 DEF SameSides, Seated
  <2>3. \A p \in Seated(over) : Stands(over, p, over.frozen)
    BY <1>11, <2>1 DEF Stands, Seated
  <2>4. t = SetPlayersFrozen(over, TRUE)
    BY <1>16
  <2>. HIDE DEF t
  <2>5. /\ t \in Mode /\ t = [over EXCEPT !.players = t.players, !.frozen = TRUE]
        /\ SameSeats(over, t) /\ \A p \in Seated(t) : Stands(t, p, TRUE)
    BY <2>1, <2>3, <2>4, FreezeTells
  <2>6. /\ t.score = score /\ t.history = history /\ t.frozen = TRUE
        /\ t.state = "MATCH_SUMMARY" /\ t.now = s.now /\ t.last_win = win /\ t.bomb = s.bomb
    BY <2>1, <2>5 DEF Mode
  <2>7. SameSides(s, t)
    BY <2>2, <2>5 DEF SameSeats, SameSides
  <2>8. SeatsKept(t) /\ RoundNum(t) = RoundNum(paid) /\ IsFinalRound(t) = IsFinalRound(paid)
        /\ IsHalfwayRound(t) = IsHalfwayRound(paid)
    BY <1>15, <2>5, <2>6, <2>7
  <2>9. IsFinalRound(t) \/ (IsHalfwayRound(t) /\ t.history.bombing = 1)
    <3>1. CASE IsHalfwayRound(paid)
      <4>1. RoundNum(paid) = NumRounds \div 2 /\ NumRounds \div 2 \in Nat
        BY <3>1, Halves DEF IsHalfwayRound
      <4>2. s.history.bombing # 2
        BY <1>1, <1>13, <4>1
      <4>3. s.history.bombing \in 1..2
        BY <1>1 DEF Mode, History
      <4>. QED  BY <1>5, <2>6, <2>8, <3>1, <4>2, <4>3
    <3>. QED  BY <1>16, <2>8, <3>1
  <2>10. ScoreKept(t)
    BY <1>13, <1>14, <2>6, <2>8, <2>9 DEF ScoreKept
  <2>11. PostureKept(t)
    BY <2>5, <2>6 DEF PostureKept, FlagAt
  <2>. QED  BY <1>7, <2>5, <2>6, <2>8, <2>10, <2>11 DEF Whole, win
<1>17. CASE ~(IsHalfwayRound(paid) \/ IsFinalRound(paid))
  <2>1. t = paid
    BY <1>17
  <2>. HIDE DEF t
  <2>2. SeatsKept(t)
    BY <1>10, <1>12, <1>15, <2>1
  <2>3. (t.history.bombing = 2) = (RoundNum(t) >= NumRounds \div 2)
    <3>1. RoundNum(paid) # NumRounds \div 2 /\ NumRounds \div 2 \in Nat
      BY <1>17, Halves DEF IsHalfwayRound
    <3>. QED  BY <1>1, <1>5, <1>10, <1>13, <2>1, <3>1
  <2>4. ScoreKept(t)
    BY <1>10, <1>13, <1>14, <1>17, <2>1, <2>3 DEF ScoreKept
  <2>5. PostureKept(t)
    BY <1>10, <1>11, <2>1 DEF PostureKept, FlagAt
  <2>. QED  BY <1>7, <1>10, <2>1, <2>2, <2>4, <2>5 DEF Whole, win
<1>. QED  BY <1>16, <1>17

Standing(s) == \A p \in Seated(s) : Stands(s, p, s.frozen)

(* Between the clock's tick and the phase's own doing, the flag may be as  *)
(* of the second before, and a character as the phase wants one that is    *)
(* created now.                                                            *)
Drowsy(s) ==
  /\ \E n \in {s.now - 1, s.now} : FlagAt(s, n)
  /\ \A p \in Seated(s) :
       Stands(s, p, s.frozen) \/ (s.state \in {"LIVE", "WARMUP"} /\ Stands(s, p, BornFrozen(s)))

(* The fuse of the bomb may be up, not more. *)
Due(s) ==
  s.state = "LIVE" /\ BombPlanted(s) =>
    /\ s.bomb.when_armed < rules.freeze_secs + rules.round_secs
    /\ s.now <= s.bomb.when_armed + rules.fuse_delay

Early(s) == Whole(s) /\ s.state # "INIT" /\ Drowsy(s) /\ Due(s)

(* What the solver is given: only a bomb may still end the phase.          *)
Ready(s) ==
  /\ s.state = "WARMUP" => s.now < rules.warmup_secs + rules.match_begins_secs
  /\ s.state = "ROUND_END_DELAY" => SinceWin(s) < rules.round_end_secs
  /\ s.state = "MATCH_SUMMARY" => SinceWin(s) < rules.match_summary_seconds
  /\ s.state = "LIVE" /\ ~BombPlanted(s) => s.now < rules.freeze_secs + rules.round_secs
  /\ Due(s)

Awake(s) == Whole(s) /\ s.state # "INIT" /\ PostureKept(s) /\ Ready(s)

(* A loop over players leaves a mode whole. *)
LEMMA RecastWhole ==
  ASSUME NEW s, NEW t, NEW F, Whole(s), Recast(F, s, t)
  PROVE  Whole(t)
BY RecastFields, SeatsAlone, ScoreAlone DEF Whole

(* A round that opens has all its time before it. *)
LEMMA OpenedIsAwake ==
  ASSUME NEW s, Opened(s)
  PROVE  Awake(s) /\ Early(s)
<1>1. Whole(s) /\ s.state \in {"WARMUP", "LIVE"} /\ PostureKept(s) /\ s.now = 0 /\ ~BombPlanted(s)
      /\ (s.state = "WARMUP" => rules.warmup_secs > 0)
  BY DEF Opened, NoBombYet, BombPlanted
<1>2. Ready(s)
  BY <1>1, RulesFit DEF Ready, Due
<1>3. Drowsy(s)
  BY <1>1 DEF Drowsy, PostureKept
<1>. QED  BY <1>1, <1>2, <1>3 DEF Awake, Early, Ready

(* process_win_conditions(): a round that goes on has time left, or its    *)
(* bomb is planted; one that ends is won by who defused the bomb.          *)
LEMMA RoundIsJudged ==
  ASSUME NEW s, Whole(s), s.state = "LIVE", Standing(s)
  PROVE  LET t == ProcessWinConditions(s)
         IN  \/ t = s /\ (BombPlanted(s) \/ RoundLeft(s) > 0) /\ WhoDefused(s) = NoId
             \/ /\ Whole(t) /\ PostureKept(t) /\ t.state \in {"ROUND_END_DELAY", "MATCH_SUMMARY"}
                /\ t.now = s.now /\ t.bomb = s.bomb /\ t.last_win.when = s.now
                /\ WhoDefused(s) # NoId => t.last_win.winner = "DEFUSING"
<1>. DEFINE Won(t, winner) ==
              /\ Whole(t) /\ PostureKept(t) /\ t.state \in {"ROUND_END_DELAY", "MATCH_SUMMARY"}
              /\ t.now = s.now /\ t.bomb = s.bomb /\ t.last_win.when = s.now /\ t.last_win.winner = winner
<1>1. ASSUME NEW p, NEW amount \in Int, NEW winner \in Factions
      PROVE  Won(MakeWin(PostAward(s, p, amount), winner), winner)
  <2>. DEFINE u == PostAward(s, p, amount)
  <2>1. Recast({}, s, u)
    BY AwardRecasts DEF Whole
  <2>2. /\ Whole(u) /\ u.state = "LIVE" /\ u.now = s.now /\ u.bomb = s.bomb /\ u.frozen = s.frozen
    BY <2>1, RecastWhole, RecastFields DEF Whole
  <2>. HIDE DEF u
  <2>3. \A q \in Seated(u) : Stands(u, q, u.frozen)
    BY <2>1, <2>2, RecastStands DEF Standing
  <2>. QED  BY <2>2, <2>3, WinIsMade DEF u
<1>2. ASSUME NEW winner \in Factions
      PROVE  Won(MakeWin(s, winner), winner)
  BY WinIsMade DEF Standing
<1>3. rules.bomb_explosion_award \in Int /\ rules.bomb_defuse_award \in Int
  BY BombAssumption
<1>4. RoundLeft(s) \in Int
  BY RulesFit DEF RoundLeft, Whole, Mode
<1>5. BombExploded(s) => WhoDefused(s) = NoId
  BY DEF BombExploded, WhoDefused
<1>. HIDE DEF Won
<1>6. LET t == ProcessWinConditions(s)
      IN \/ t = s /\ (BombPlanted(s) \/ RoundLeft(s) > 0) /\ WhoDefused(s) = NoId
         \/ Won(t, "DEFUSING")
         \/ Won(t, "BOMBING") /\ WhoDefused(s) = NoId
  BY <1>1, <1>2, <1>3, <1>4, <1>5 DEF ProcessWinConditions, Factions
<1>. QED  BY <1>6 DEF Won

(* advance_state() while the match is live. *)
LEMMA LiveAdvances ==
  ASSUME NEW s, Early(s), s.state = "LIVE"
  PROVE  LET t == AdvanceLive(s)
         IN  /\ Awake(t) /\ t.bomb = s.bomb
             /\ s.bomb.state = "defused" /\ s.bomb.defuser # NoId => t.last_win.winner = "DEFUSING"
<1>. DEFINE u == IF FreezeLeft(s) <= 0 THEN SetPlayersFrozen(s, FALSE) ELSE s
            t == ProcessWinConditions(u)
<1>1. Whole(s) /\ s \in Mode /\ Drowsy(s) /\ Due(s)
  BY DEF Early, Whole
<1>2. s.now \in Nat /\ rules.freeze_secs \in Nat /\ s.frozen \in BOOLEAN
  BY <1>1, RulesFit DEF Mode
<1>3. BornFrozen(s) <=> s.now < rules.freeze_secs
  BY <1>2 DEF BornFrozen, FreezeLeft
<1>4. /\ Whole(u) /\ u.state = "LIVE" /\ u.now = s.now /\ u.bomb = s.bomb
      /\ Standing(u) /\ FlagAt(u, u.now)
  <2>1. CASE FreezeLeft(s) <= 0
    <3>1. ~(s.now < rules.freeze_secs)
      BY <1>2, <2>1 DEF FreezeLeft
    <3>2. s.frozen = FALSE => \A p \in Seated(s) : Stands(s, p, FALSE)
      BY <1>1, <1>3, <3>1 DEF Drowsy, BornFrozen, Stands
    <3>3. u = SetPlayersFrozen(s, FALSE)
      BY <2>1
    <3>. HIDE DEF u
    <3>4. /\ u \in Mode /\ u = [s EXCEPT !.players = u.players, !.frozen = FALSE]
          /\ SameSeats(s, u) /\ SameScore(s, u) /\ \A p \in Seated(u) : Stands(u, p, FALSE)
      BY <1>1, <3>2, <3>3, FreezeTells
    <3>5. u.state = "LIVE" /\ u.now = s.now /\ u.bomb = s.bomb /\ u.frozen = FALSE
      BY <1>1, <3>4 DEF Mode
    <3>6. Whole(u)
      BY <1>1, <3>4, SeatsAlone, ScoreAlone DEF Whole
    <3>. QED  BY <3>1, <3>4, <3>5, <3>6 DEF Standing, FlagAt
  <2>2. CASE ~(FreezeLeft(s) <= 0)
    <3>1. s.now < rules.freeze_secs
      BY <1>2, <2>2 DEF FreezeLeft
    <3>2. PICK n \in {s.now - 1, s.now} : FlagAt(s, n)
      BY <1>1 DEF Drowsy
    <3>3. s.frozen = TRUE
      BY <1>2, <3>1, <3>2 DEF FlagAt
    <3>4. BornFrozen(s) = TRUE
      BY <1>3, <3>1 DEF BornFrozen
    <3>5. Standing(s)
      BY <1>1, <3>3, <3>4 DEF Standing, Drowsy
    <3>. QED  BY <1>1, <2>2, <3>1, <3>3, <3>5 DEF FlagAt
  <2>. QED  BY <2>1, <2>2
<1>. HIDE DEF u
<1>5. Due(u)
  BY <1>1, <1>4 DEF Due, BombPlanted
<1>6. \/ t = u /\ (BombPlanted(u) \/ RoundLeft(u) > 0) /\ WhoDefused(u) = NoId
      \/ /\ Whole(t) /\ PostureKept(t) /\ t.state \in {"ROUND_END_DELAY", "MATCH_SUMMARY"}
         /\ t.now = u.now /\ t.bomb = u.bomb /\ t.last_win.when = u.now
         /\ WhoDefused(u) # NoId => t.last_win.winner = "DEFUSING"
  BY <1>4, RoundIsJudged
<1>7. AdvanceLive(s) = t
  BY DEF AdvanceLive, u
<1>. HIDE DEF t
<1>8. CASE t = u /\ (BombPlanted(u) \/ RoundLeft(u) > 0) /\ WhoDefused(u) = NoId
  <2>1. PostureKept(t)
    BY <1>4, <1>8 DEF PostureKept, Standing
  <2>2. ~BombPlanted(t) => t.now < rules.freeze_secs + rules.round_secs
    BY <1>2, <1>4, <1>8, RulesFit DEF RoundLeft
  <2>3. Ready(t)
    BY <1>4, <1>5, <1>8, <2>2 DEF Ready
  <2>4. ~(s.bomb.state = "defused" /\ s.bomb.defuser # NoId)
    BY <1>4, <1>8 DEF WhoDefused
  <2>. QED  BY <1>4, <1>7, <1>8, <2>1, <2>3, <2>4 DEF Awake
<1>9. CASE /\ Whole(t) /\ PostureKept(t) /\ t.state \in {"ROUND_END_DELAY", "MATCH_SUMMARY"}
           /\ t.now = u.now /\ t.bomb = u.bomb /\ t.last_win.when = u.now
           /\ WhoDefused(u) # NoId => t.last_win.winner = "DEFUSING"
  <2>1. SinceWin(t) = 0
    BY <1>2, <1>4, <1>9 DEF SinceWin
  <2>2. Ready(t)
    BY <1>9, <2>1, RulesFit DEF Ready, Due
  <2>3. s.bomb.state = "defused" /\ s.bomb.defuser # NoId => WhoDefused(u) # NoId
    BY <1>4 DEF WhoDefused
  <2>. QED  BY <1>4, <1>7, <1>9, <2>2, <2>3 DEF Awake
<1>. QED  BY <1>6, <1>8, <1>9

(* advance_state() in the warmup. *)
LEMMA WarmupAdvances ==
  ASSUME NEW s, Early(s), s.state = "WARMUP"
  PROVE  LET t == AdvanceWarmup(s)
         IN  Awake(t) /\ (t.bomb = s.bomb \/ NoBombYet(t))
<1>. DEFINE respawned == RespawnTheDead(s)
            frozen == SetPlayersFrozen(respawned, TRUE)
            t == AdvanceWarmup(s)
<1>1. Whole(s) /\ s \in Mode /\ Drowsy(s)
  BY DEF Early, Whole
<1>2. s.now \in Nat /\ rules.warmup_secs \in Nat /\ rules.match_begins_secs \in Nat /\ s.frozen \in BOOLEAN
  BY <1>1, RulesFit DEF Mode
<1>3. BornFrozen(s) <=> s.now >= rules.warmup_secs
  BY <1>2 DEF BornFrozen, WarmupLeft
<1>4. Recast({BornFrozen(s)}, s, respawned)
  BY <1>1, RespawnRecasts
<1>5. /\ Whole(respawned) /\ respawned \in Mode /\ respawned.state = "WARMUP"
      /\ respawned.now = s.now /\ respawned.bomb = s.bomb /\ respawned.frozen = s.frozen
  BY <1>1, <1>4, RecastWhole, RecastFields
<1>6. CASE s.now < rules.warmup_secs
  <2>1. t = respawned
    <3>1. WarmupLeft(s) > 0
      BY <1>2, <1>6 DEF WarmupLeft
    <3>. HIDE DEF respawned
    <3>. QED  BY <3>1 DEF AdvanceWarmup, respawned
  <2>2. PICK n \in {s.now - 1, s.now} : FlagAt(s, n)
    BY <1>1 DEF Drowsy
  <2>3. s.frozen = FALSE
    BY <1>2, <1>6, <2>2 DEF FlagAt
  <2>4. BornFrozen(s) = FALSE
    BY <1>2, <1>3, <1>6 DEF BornFrozen
  <2>5. \A p \in Seated(s) : Stands(s, p, FALSE)
    BY <1>1, <2>3, <2>4 DEF Drowsy
  <2>. HIDE DEF respawned, t
  <2>6. \A p \in Seated(t) : Stands(t, p, FALSE)
    BY <1>4, <2>1, <2>4, <2>5, RecastStands
  <2>7. PostureKept(t)
    <3>1. t.frozen = FALSE /\ t.now = s.now /\ t.state = "WARMUP" /\ ~(s.now >= rules.warmup_secs)
      BY <1>2, <1>5, <1>6, <2>1, <2>3
    <3>. QED  BY <2>6, <3>1 DEF PostureKept, FlagAt
  <2>8. Ready(t)
    BY <1>2, <1>5, <1>6, <2>1 DEF Ready, Due
  <2>. QED  BY <1>5, <2>1, <2>7, <2>8 DEF Awake, t
<1>7. CASE s.now >= rules.warmup_secs
  <2>1. BornFrozen(s) = TRUE
    BY <1>3, <1>7 DEF BornFrozen
  <2>2. s.frozen = TRUE => \A p \in Seated(s) : Stands(s, p, TRUE)
    BY <1>1, <2>1 DEF Drowsy
  <2>. HIDE DEF respawned
  <2>3. respawned.frozen = TRUE => \A p \in Seated(respawned) : Stands(respawned, p, TRUE)
    BY <1>4, <1>5, <2>1, <2>2, RecastStands
  <2>4. /\ frozen \in Mode /\ frozen = [respawned EXCEPT !.players = frozen.players, !.frozen = TRUE]
        /\ SameSeats(respawned, frozen) /\ SameScore(respawned, frozen)
        /\ \A p \in Seated(frozen) : Stands(frozen, p, TRUE)
    BY <1>5, <2>3, FreezeTells
  <2>. HIDE DEF frozen
  <2>5. /\ frozen.state = "WARMUP" /\ frozen.now = s.now /\ frozen.bomb = s.bomb /\ frozen.frozen = TRUE
    BY <1>5, <2>4 DEF Mode
  <2>6. Whole(frozen)
    BY <1>5, <2>4, SeatsAlone, ScoreAlone DEF Whole
  <2>7. t = IF MatchBeginsIn(s) > 0 THEN frozen ELSE EndWarmupAndGoLive(frozen)
    <3>1. ~(WarmupLeft(s) > 0)
      BY <1>2, <1>7 DEF WarmupLeft
    <3>. HIDE DEF t
    <3>. QED  BY <3>1 DEF AdvanceWarmup, frozen, respawned, t
  <2>8. Opened(EndWarmupAndGoLive(frozen))
    BY <2>5, <2>6, WarmupEnds
  <2>. HIDE DEF t
  <2>9. CASE MatchBeginsIn(s) > 0
    <3>1. s.now < rules.warmup_secs + rules.match_begins_secs
      BY <1>2, <1>7, <2>9 DEF MatchBeginsIn
    <3>2. PostureKept(frozen)
      BY <1>7, <2>4, <2>5 DEF PostureKept, FlagAt
    <3>3. Ready(frozen)
      BY <2>5, <3>1 DEF Ready, Due
    <3>. QED  BY <2>5, <2>6, <2>7, <2>9, <3>2, <3>3 DEF Awake, t
  <2>10. CASE ~(MatchBeginsIn(s) > 0)
    BY <2>7, <2>8, <2>10, OpenedIsAwake DEF Opened, t
  <2>. QED  BY <2>9, <2>10
<1>. QED  BY <1>2, <1>6, <1>7

(* advance_state(). *)
LEMMA StateAdvances ==
  ASSUME NEW s, Early(s)
  PROVE  LET t == AdvanceState(s)
         IN  /\ Awake(t) /\ (t.bomb = s.bomb \/ NoBombYet(t))
             /\ s.state = "LIVE" /\ s.bomb.state = "defused" /\ s.bomb.defuser # NoId =>
                  t.last_win.winner = "DEFUSING"
<1>1. s \in Mode /\ Whole(s) /\ s.state \in Phases /\ s.state # "INIT" /\ Drowsy(s)
  BY DEF Early, Whole, Mode
<1>2. CASE s.state = "WARMUP"
  BY <1>2, WarmupAdvances DEF AdvanceState
<1>3. CASE s.state = "LIVE"
  BY <1>3, LiveAdvances DEF AdvanceState
<1>4. s.state \in {"ROUND_END_DELAY", "MATCH_SUMMARY"} => PostureKept(s)
  BY <1>1 DEF Drowsy, PostureKept, FlagAt
<1>5. SinceWin(s) \in Int
  BY <1>1 DEF SinceWin, Mode, Win
<1>6. CASE s.state = "ROUND_END_DELAY"
  <2>1. CASE SinceWin(s) >= rules.round_end_secs
    BY <1>1, <1>6, <2>1, NextRoundOpens, OpenedIsAwake DEF AdvanceState, Opened
  <2>2. CASE ~(SinceWin(s) >= rules.round_end_secs)
    <3>1. Ready(s)
      BY <1>5, <1>6, <2>2, RulesFit DEF Ready, Due
    <3>. QED  BY <1>1, <1>4, <1>6, <2>2, <3>1 DEF AdvanceState, Awake
  <2>. QED  BY <2>1, <2>2
<1>7. CASE s.state = "MATCH_SUMMARY"
  <2>1. CASE SinceWin(s) < rules.match_summary_seconds
    <3>1. Ready(s)
      BY <1>7, <2>1 DEF Ready, Due
    <3>. QED  BY <1>1, <1>4, <1>7, <2>1, <3>1 DEF AdvanceState, Awake
  <2>2. CASE ~(SinceWin(s) < rules.match_summary_seconds)
    <3>1. AdvanceState(s) = IF IsFinalRound(s) THEN Restart(s) ELSE StartNextHalf(s)
      BY <1>7, <2>2 DEF AdvanceState
    <3>2. Opened(AdvanceState(s))
      BY <1>1, <1>7, <3>1, RestartOpens, SecondHalfOpens DEF Whole, SeatsKept
    <3>. QED  BY <1>7, <3>2, OpenedIsAwake DEF Opened
  <2>. QED  BY <2>1, <2>2
<1>. QED  BY <1>1, <1>2, <1>3, <1>6, <1>7 DEF Phases

-----------------------------------------------------------------------------
(* Colours and places in a team. *)

(* Numbers have a smallest one. *)
LEMMA MinIsThere ==
  ASSUME NEW S \in SUBSET Nat, S # {}
  PROVE  Min(S) \in S
<1>. DEFINE R == {ss \in Nat \X Nat : ss[1] < ss[2]}
<1>1. IsWellFoundedOn(R, Nat)
  BY NatLessThanWellFounded DEF OpToRel
<1>2. PICK x \in S : \A y \in S : ~(<<y, x>> \in R)
  BY <1>1, WFMin
<1>3. \A y \in S : ~(y < x)
  BY <1>2
<1>4. \A y \in S : x <= y
  BY <1>3
<1>. QED  BY <1>4 DEF Min

(* Who leaves a team without anybody to take the colour, or with a colour  *)
(* that is none, leaves the others as they were.                           *)
LEMMA TeamIsLeft ==
  ASSUME NEW team, NEW worn, Coloured(team, worn), NEW p,
         \/ p \notin team
         \/ worn[p] \in {NoColor, Excess}
         \/ \A q \in team \ {p} : worn[q] # Excess
  PROVE  Coloured(team \ {p}, worn)
<1>. DEFINE rest == team \ {p}
<1>1. ASSUME NEW q \in rest, worn[q] = Excess, NEW c \in PlayerColors
      PROVE  \E r \in rest : worn[r] = c
  <2>1. PICK r \in team : worn[r] = c
    BY <1>1 DEF Coloured
  <2>2. c \notin {NoColor, Excess}
    BY BombAssumption
  <2>. QED  BY <1>1, <2>1, <2>2
<1>2. ASSUME NEW q \in rest, worn[q] = Excess
      PROVE  PlayerColors \subseteq {worn[r] : r \in rest}
  BY <1>1, <1>2
<1>3. ASSUME NEW q \in rest, worn[q] # Excess, NEW r \in rest \ {q}
      PROVE  worn[r] # worn[q]
  BY <1>3 DEF Coloured
<1>4. \A q \in rest : worn[q] # NoColor
  BY DEF Coloured
<1>. QED  BY <1>2, <1>3, <1>4 DEF Coloured

(* The colour of who leaves a team goes to one who had none of his own.    *)
LEMMA ColorIsInherited ==
  ASSUME NEW team, NEW worn, NEW new, Coloured(team, worn), NEW p \in team, NEW heir \in team \ {p},
         worn[p] \in PlayerColors, worn[heir] = Excess,
         new[heir] = worn[p], \A q \in team \ {p, heir} : new[q] = worn[q]
  PROVE  Coloured(team \ {p}, new)
<1>. DEFINE rest == team \ {p}
<1>1. worn[p] # Excess /\ worn[p] # NoColor
  BY BombAssumption
<1>2. \A q \in team \ {p} : worn[q] # worn[p]
  BY <1>1 DEF Coloured
<1>3. ASSUME NEW q \in rest, new[q] = Excess, NEW c \in PlayerColors
      PROVE  \E r \in rest : new[r] = c
  <2>1. CASE c = worn[p]
    BY <2>1
  <2>2. CASE c # worn[p]
    <3>1. q # heir /\ worn[q] = Excess
      BY <1>1, <1>3
    <3>2. PICK r \in team : worn[r] = c
      BY <3>1 DEF Coloured
    <3>3. c # Excess
      BY BombAssumption
    <3>. QED  BY <2>2, <3>2, <3>3
  <2>. QED  BY <2>1, <2>2
<1>4. ASSUME NEW q \in rest, new[q] = Excess
      PROVE  PlayerColors \subseteq {new[r] : r \in rest}
  BY <1>3, <1>4
<1>5. ASSUME NEW q \in rest, new[q] # Excess, NEW r \in rest \ {q}
      PROVE  new[r] # new[q]
  <2>1. CASE q = heir
    BY <1>2, <2>1
  <2>2. CASE q # heir
    <3>1. worn[q] = new[q] /\ worn[q] # Excess
      BY <1>5, <2>2
    <3>2. worn[r] # worn[q]
      BY <3>1, <1>5 DEF Coloured
    <3>. QED  BY <1>2, <3>1, <3>2, <2>2
  <2>. QED  BY <2>1, <2>2
<1>6. \A q \in rest : new[q] # NoColor
  BY <1>1 DEF Coloured
<1>. QED  BY <1>4, <1>5, <1>6 DEF Coloured

(* Who joins a team takes a colour that nobody wears there, or there is    *)
(* none.                                                                   *)
LEMMA TeamIsJoined ==
  ASSUME NEW team, NEW worn, NEW new, Coloured(team, worn), NEW p, p \notin team,
         \A q \in team : new[q] = worn[q],
         \/ new[p] = Excess /\ PlayerColors \subseteq {worn[q] : q \in team}
         \/ new[p] \in PlayerColors \ {worn[q] : q \in team}
  PROVE  Coloured(team \cup {p}, new)
<1>1. new[p] # NoColor
  BY BombAssumption DEF NoColor, Excess
<1>2. ASSUME NEW q \in team \cup {p}, new[q] = Excess
      PROVE  PlayerColors \subseteq {new[r] : r \in team \cup {p}}
  <2>1. PlayerColors \subseteq {worn[r] : r \in team}
    <3>1. CASE q \in team
      BY <1>2, <3>1 DEF Coloured
    <3>2. CASE q = p
      BY <1>2, <3>2, BombAssumption
    <3>. QED  BY <3>1, <3>2
  <2>. QED  BY <2>1
<1>3. ASSUME NEW q \in team \cup {p}, new[q] # Excess, NEW r \in (team \cup {p}) \ {q}
      PROVE  new[r] # new[q]
  <2>1. CASE q \in team /\ r \in team
    BY <1>3, <2>1 DEF Coloured
  <2>2. CASE q = p
    BY <1>3, <2>2
  <2>3. CASE q \in team /\ r = p
    <3>1. worn[q] # Excess
      BY <1>3, <2>3
    <3>. QED  BY <2>3, <3>1, <1>3
  <2>. QED  BY <2>1, <2>2, <2>3
<1>4. \A q \in team \cup {p} : new[q] # NoColor
  BY <1>1 DEF Coloured
<1>. QED  BY <1>2, <1>3, <1>4 DEF Coloured

(* Only what a team wears matters. *)
LEMMA ColouredAlone ==
  ASSUME NEW team, NEW worn, NEW new, Coloured(team, worn), \A q \in team : new[q] = worn[q]
  PROVE  Coloured(team, new)
<1>1. {new[q] : q \in team} = {worn[q] : q \in team}
  OBVIOUS
<1>. QED  BY <1>1 DEF Coloured

(* Somebody changes his colour. *)
Dressed(s, t, worn) ==
  /\ t \in Mode /\ t = [s EXCEPT !.players = t.players]
  /\ Seated(t) = Seated(s)
  /\ \A q \in Seated(s) : /\ t.players[q].faction = s.players[q].faction
                          /\ t.players[q].character = s.players[q].character
  /\ ColorsOf(t) = worn

(* The same, but for colours and for what an access to nothing overwrites. *)
Touched(s, t) ==
  /\ t \in Mode /\ t = [s EXCEPT !.players = t.players, !.undefined = t.undefined]
  /\ Seated(t) = Seated(s)
  /\ \A q \in Seated(s) : /\ t.players[q].faction = s.players[q].faction
                          /\ t.players[q].character = s.players[q].character

LEMMA DressedIsTouched ==
  ASSUME NEW s \in Mode, NEW t, NEW worn, Dressed(s, t, worn)
  PROVE  Touched(s, t)
<1>1. t \in Mode /\ t = [s EXCEPT !.players = t.players]
  BY DEF Dressed
<1>2. t = [s EXCEPT !.players = t.players, !.undefined = t.undefined]
  BY <1>1 DEF Mode
<1>. QED  BY <1>1, <1>2 DEF Dressed, Touched

(* A colour is all that an assignment of it changes. *)
LEMMA OneIsDressed ==
  ASSUME NEW s \in Mode, NEW p \in Seated(s), NEW c \in Worn
  PROVE  Dressed(s, [s EXCEPT !.players[p].color = c], [ColorsOf(s) EXCEPT ![p] = c])
<1>. DEFINE w == [s.players[p] EXCEPT !.color = c]
            r == [s.players EXCEPT ![p] = w]
            t == [s EXCEPT !.players = r]
<1>1. w \in Player /\ w.color = c /\ w.faction = s.players[p].faction
      /\ w.character = s.players[p].character
  BY ModeHasPlayers DEF Player
<1>2. [s EXCEPT !.players[p].color = c] = t
  OBVIOUS
<1>. HIDE DEF w
<1>3. r \in [Seated(s) -> Player] /\ r[p] = w /\ \A q \in Seated(s) \ {p} : r[q] = s.players[q]
  BY <1>1, ModeHasPlayers
<1>. HIDE DEF r
<1>4. t \in Mode /\ t.players = r /\ Seated(t) = Seated(s)
  BY <1>3, Manned, ModeHasPlayers DEF Seated
<1>5. ColorsOf(t) = [ColorsOf(s) EXCEPT ![p] = c]
  <2>1. \A q \in Seated(s) : r[q].color = IF q = p THEN c ELSE s.players[q].color
    BY <1>1, <1>3
  <2>2. ColorsOf(t) = [q \in Seated(s) |-> IF q = p THEN c ELSE s.players[q].color]
    BY <1>4, <2>1 DEF ColorsOf
  <2>. HIDE DEF t
  <2>. QED  BY <2>2 DEF ColorsOf
<1>. QED  BY <1>1, <1>2, <1>3, <1>4, <1>5 DEF Dressed

(* assign_free_color_to_best_uncolored(): nobody gets the colour, or one   *)
(* of the team does who had none of his own, or there is nobody to ask.    *)
LEMMA FreeColorIsAssigned ==
  ASSUME NEW s \in Mode, NEW previous, NEW free \in Worn,
         NEW t \in AssignFreeColorToBestUncolored(s, previous, free)
  PROVE  \/ /\ t = s
            /\ free \in {NoColor, Excess} \/ \A q \in PlayersIn(s, previous) : ColorsOf(s)[q] # Excess
         \/ \E heir \in PlayersIn(s, previous) :
              /\ free \in PlayerColors /\ ColorsOf(s)[heir] = Excess
              /\ Dressed(s, t, [ColorsOf(s) EXCEPT ![heir] = free])
         \/ Seated(s) = {} /\ t = [s EXCEPT !.undefined = TRUE]
<1>. DEFINE uncolored == {p \in PlayersIn(s, previous) : s.players[p].color = Excess}
<1>1. \A q \in PlayersIn(s, previous) : q \in Seated(s) /\ ColorsOf(s)[q] = s.players[q].color
  BY DEF PlayersIn, ColorsOf
<1>2. CASE free \in {NoColor, Excess}
  <2>1. t = s
    BY <1>2 DEF AssignFreeColorToBestUncolored
  <2>. QED  BY <1>2, <2>1
<1>3. CASE free \notin {NoColor, Excess}
  <2>1. CASE Seated(s) = {}
    <3>1. t \in {s, [s EXCEPT !.undefined = TRUE]}
      BY <1>3, <2>1 DEF AssignFreeColorToBestUncolored
    <3>. QED  BY <1>1, <2>1, <3>1
  <2>2. CASE Seated(s) # {}
    <3>1. CASE uncolored = {}
      <4>1. t = s
        BY <1>3, <2>2, <3>1 DEF AssignFreeColorToBestUncolored
      <4>. QED  BY <1>1, <3>1, <4>1
    <3>2. CASE uncolored # {}
      <4>1. free \in PlayerColors
        BY <1>3 DEF Worn
      <4>2. PICK heir \in uncolored : t = [s EXCEPT !.players[heir].color = free]
        BY <1>3, <2>2, <3>2 DEF AssignFreeColorToBestUncolored
      <4>. QED  BY <1>1, <4>1, <4>2, OneIsDressed
    <3>. QED  BY <3>1, <3>2
  <2>. QED  BY <2>1, <2>2
<1>. QED  BY <1>2, <1>3

(* The first free colour is one that nobody in the team wears, or there is *)
(* none.                                                                   *)
LEMMA FirstColorIsFree ==
  ASSUME NEW s \in Mode, NEW p \in Seated(s), s.players[p].color = NoColor,
         NEW team, team = PlayersIn(s, s.players[p].faction) \ {p}
  PROVE  LET c == FirstFreeColor(s, p)
         IN  /\ c \in Worn
             /\ \/ c = Excess /\ PlayerColors \subseteq {ColorsOf(s)[q] : q \in team}
                \/ c \in PlayerColors \ {ColorsOf(s)[q] : q \in team}
<1>. DEFINE taken == {s.players[q].color : q \in PlayersIn(s, s.players[p].faction)}
            free == {i \in DOMAIN Colors : Colors[i] \notin taken}
            here == {ColorsOf(s)[q] : q \in team}
<1>1. here \subseteq taken /\ taken \subseteq here \cup {NoColor}
  BY DEF PlayersIn, ColorsOf
<1>2. FirstFreeColor(s, p) = IF free = {} THEN Excess ELSE Colors[Min(free)]
  BY DEF FirstFreeColor
<1>3. NoColor \notin PlayerColors
  BY BombAssumption
<1>. HIDE DEF taken, here
<1>4. CASE free = {}
  <2>1. PlayerColors \subseteq taken
    BY <1>4 DEF PlayerColors
  <2>. QED  BY <1>1, <1>2, <1>3, <1>4, <2>1 DEF Worn, here
<1>5. CASE free # {}
  <2>1. free \subseteq Nat
    <3>1. DOMAIN Colors = 1..Len(Colors) /\ Len(Colors) \in Nat
      BY BombAssumption
    <3>. QED  BY <3>1
  <2>2. Min(free) \in free
    BY <1>5, <2>1, MinIsThere
  <2>3. Colors[Min(free)] \in PlayerColors \ taken
    BY <2>2 DEF PlayerColors
  <2>. QED  BY <1>1, <1>2, <1>5, <2>3 DEF Worn, here
<1>. QED  BY <1>4, <1>5

(* Players change seats; nobody comes or leaves. *)
Reseated(s, t) ==
  /\ t \in Mode
  /\ t = [s EXCEPT !.players = t.players, !.history = t.history]
  /\ t.history = [s.history EXCEPT !.team = t.history.team]
  /\ Seated(t) = Seated(s)
  /\ \A q \in Seated(s) : t.players[q].character = s.players[q].character

(* There is a place for a player on a side. *)
HasRoom(s, p, f) ==
  \/ Scrambling \/ rules.max_players_per_team = 0 \/ f = "SPECTATOR" \/ s.players[p].faction = f
  \/ Cardinality(PlayersIn(s, f)) < rules.max_players_per_team

(* There are finitely many players. *)
LEMMA TeamsAreFinite ==
  ASSUME NEW s \in Mode
  PROVE  /\ IsFiniteSet(Seated(s)) /\ Cardinality(Seated(s)) \in Nat
         /\ \A f : IsFiniteSet(PlayersIn(s, f)) /\ Cardinality(PlayersIn(s, f)) \in Nat
<1>1. IsFiniteSet(Ids)
  BY RulesFit, FS_Interval DEF Ids
<1>2. Seated(s) \subseteq Ids
  BY ModeHasPlayers
<1>3. IsFiniteSet(Seated(s))
  BY <1>1, <1>2, FS_Subset
<1>4. ASSUME NEW f PROVE IsFiniteSet(PlayersIn(s, f))
  <2>1. PlayersIn(s, f) \subseteq Seated(s)
    BY DEF PlayersIn
  <2>. QED  BY <1>3, <2>1, FS_Subset
<1>. QED  BY <1>3, <1>4, FS_CardinalityType

(* A player is moved to a side, and to its team. *)
OnSide(s, p, f) == [s EXCEPT !.players[p].faction = f, !.history.team[p] = TeamOn(s.history, f)]

(* Nobody else is moved, and the colours are not yet changed.              *)
LEMMA PlayerIsMoved ==
  ASSUME NEW s \in Mode, TeamsKept(s), NEW p \in Seated(s), NEW f \in Sides
  PROVE  LET m == OnSide(s, p, f)
         IN  /\ Reseated(s, m) /\ TeamsKept(m)
             /\ m.players[p].faction = f
             /\ \A q \in Seated(s) \ {p} : m.players[q].faction = s.players[q].faction
             /\ ColorsOf(m) = ColorsOf(s)
             /\ m.players[p].color = s.players[p].color
<1>. DEFINE w == [s.players[p] EXCEPT !.faction = f]
            r == [s.players EXCEPT ![p] = w]
            team == [s.history.team EXCEPT ![p] = TeamOn(s.history, f)]
            h == [s.history EXCEPT !.team = team]
            t == [s EXCEPT !.players = r]
            m == [t EXCEPT !.history = h]
<1>1. /\ w \in Player /\ w.faction = f
      /\ w.color = s.players[p].color /\ w.character = s.players[p].character
  BY ModeHasPlayers DEF Player
<1>2. p \in Ids
  BY ModeHasPlayers
<1>3. /\ team \in [Ids -> 0..2] /\ team[p] = TeamOn(s.history, f)
      /\ \A q \in Ids \ {p} : team[q] = s.history.team[q]
  <2>1. TeamOn(s.history, f) \in 0..2
    BY DEF TeamOn, Mode, History
  <2>2. PICK old \in [Ids -> 0..2] : old = s.history.team
    BY DEF Mode, History
  <2>3. [old EXCEPT ![p] = TeamOn(s.history, f)] \in [Ids -> 0..2]
    BY <1>2, <2>1
  <2>. QED  BY <1>2, <2>1, <2>2, <2>3
<1>4. OnSide(s, p, f) = m
  <2>1. [s EXCEPT !.players[p].faction = f] = t
    OBVIOUS
  <2>2. [s EXCEPT !.players[p].faction = f, !.history.team[p] = TeamOn(s.history, f)]
          = [s EXCEPT !.players = r, !.history = h]
    OBVIOUS
  <2>. QED  BY <2>2 DEF OnSide
<1>. HIDE DEF w, team
<1>5. h \in History /\ h.team = team /\ h.bombing = s.history.bombing
  BY <1>3 DEF Mode, History
<1>6. r \in [Seated(s) -> Player] /\ r[p] = w /\ \A q \in Seated(s) \ {p} : r[q] = s.players[q]
  BY <1>1, ModeHasPlayers
<1>. HIDE DEF r, h
<1>7. t \in Mode /\ t.players = r
  BY <1>6, Manned, ModeHasPlayers
<1>8. m \in Mode /\ m.players = r /\ m.history = h /\ m = [s EXCEPT !.players = r, !.history = h]
  BY <1>5, <1>7 DEF Mode
<1>. HIDE DEF m, t
<1>9. Seated(m) = Seated(s)
  BY <1>6, <1>8 DEF Seated
<1>10. Reseated(s, m)
  <2>1. h = [s.history EXCEPT !.team = h.team]
    BY <1>5 DEF h
  <2>. QED  BY <1>1, <1>6, <1>8, <1>9, <2>1 DEF Reseated
<1>11. TeamsKept(m)
  <2>1. \A g : TeamOn(h, g) = TeamOn(s.history, g)
    BY <1>5 DEF TeamOn
  <2>2. \A q \in Seated(s) : h.team[q] = TeamOn(h, r[q].faction)
    BY <1>1, <1>3, <1>5, <1>6, <2>1, ModeHasPlayers DEF TeamsKept
  <2>3. \A q \in Ids \ Seated(s) : h.team[q] = 0
    BY <1>3, <1>5 DEF TeamsKept
  <2>. QED  BY <1>8, <1>9, <2>2, <2>3 DEF TeamsKept
<1>12. ColorsOf(m) = ColorsOf(s)
  BY <1>1, <1>6, <1>8, <1>9 DEF ColorsOf
<1>. QED  BY <1>1, <1>4, <1>6, <1>8, <1>10, <1>11, <1>12

(* choose_faction(): there is room, so nobody is one too many; the colours *)
(* of the team that is left and of the one that is joined stay apart.      *)
LEMMA FactionIsChosen ==
  ASSUME NEW s \in Mode, SeatsKept(s), NEW p \in Seated(s), NEW f \in Sides, HasRoom(s, p, f),
         NEW t \in ChooseFaction(s, p, f)
  PROVE  Reseated(s, t) /\ SeatsKept(t) /\ t.players[p].faction = f
<1>. DEFINE previous == s.players[p].faction
            m == [s EXCEPT !.players[p].faction = f, !.history.team[p] = TeamOn(s.history, f)]
<1>1. CASE previous = f
  <2>1. t = s
    BY <1>1 DEF ChooseFaction
  <2>2. s = [s EXCEPT !.players = s.players, !.history = s.history]
        /\ s.history = [s.history EXCEPT !.team = s.history.team]
    BY DEF Mode, History
  <2>. QED  BY <1>1, <2>1, <2>2 DEF Reseated
<1>2. CASE previous # f
  <2>1. /\ Reseated(s, m) /\ TeamsKept(m)
        /\ m.players[p].faction = f
        /\ \A q \in Seated(s) \ {p} : m.players[q].faction = s.players[q].faction
        /\ ColorsOf(m) = ColorsOf(s)
        /\ m.players[p].color = s.players[p].color
    <3>1. TeamsKept(s)
      BY DEF SeatsKept
    <3>2. m = OnSide(s, p, f)
      BY DEF OnSide
    <3>. HIDE DEF m, previous
    <3>. QED  BY <3>1, <3>2, PlayerIsMoved
  <2>2. t \in OnFactionChangedFor(m, previous, p)
    BY <1>2 DEF ChooseFaction
  <2>. HIDE DEF m
  <2>3. m \in Mode /\ Seated(m) = Seated(s)
    BY <2>1 DEF Reseated
  <2>. DEFINE worn == ColorsOf(s)
  <2>4. PICK a \in AssignFreeColorToBestUncolored(m, previous, m.players[p].color) :
          t = LET u == [a EXCEPT !.players[p].color = NoColor]
              IN IF u.players[p].faction = "SPECTATOR" THEN u
                 ELSE [u EXCEPT !.players[p].color = FirstFreeColor(u, p)]
    BY <2>2 DEF OnFactionChangedFor
  <2>5. worn[p] = s.players[p].color /\ worn[p] \in Worn
    BY ModeHasPlayers DEF ColorsOf, Player
  <2>6. /\ \A g : g # f => PlayersIn(m, g) = PlayersIn(s, g) \ {p}
        /\ PlayersIn(m, f) = PlayersIn(s, f) \cup {p} /\ p \notin PlayersIn(s, f) /\ p \in PlayersIn(s, previous)
    BY <1>2, <2>1, <2>3 DEF PlayersIn
  <2>. DEFINE Passed(wa) ==
         \/ /\ wa = worn
            /\ worn[p] \in {NoColor, Excess} \/ \A q \in PlayersIn(s, previous) \ {p} : worn[q] # Excess
         \/ \E heir \in PlayersIn(s, previous) \ {p} :
              worn[p] \in PlayerColors /\ worn[heir] = Excess /\ wa = [worn EXCEPT ![heir] = worn[p]]
  <2>7. Dressed(m, a, ColorsOf(a)) /\ Passed(ColorsOf(a))
    <3>1. \/ /\ a = m
             /\ worn[p] \in {NoColor, Excess} \/ \A q \in PlayersIn(m, previous) : ColorsOf(m)[q] # Excess
          \/ \E heir \in PlayersIn(m, previous) :
               /\ worn[p] \in PlayerColors /\ ColorsOf(m)[heir] = Excess
               /\ Dressed(m, a, [ColorsOf(m) EXCEPT ![heir] = worn[p]])
      <4>1. m.players[p].color = worn[p]
        BY <2>1, <2>5
      <4>2. Seated(m) # {}
        BY <2>3
      <4>. HIDE DEF worn
      <4>. QED  BY <2>3, <2>4, <2>5, <4>1, <4>2, FreeColorIsAssigned
    <3>2. PlayersIn(m, previous) = PlayersIn(s, previous) \ {p}
      BY <1>2, <2>6
    <3>3. a = m => Dressed(m, a, ColorsOf(a))
      BY <2>3 DEF Dressed, Mode
    <3>4. Dressed(m, a, ColorsOf(a))
      BY <3>1, <3>3 DEF Dressed
    <3>5. Passed(ColorsOf(a))
      BY <2>1, <3>1, <3>2 DEF Dressed
    <3>. QED  BY <3>4, <3>5
  <2>. DEFINE u == [a EXCEPT !.players[p].color = NoColor]
              c == FirstFreeColor(u, p)
  <2>8. a \in Mode /\ p \in Seated(a)
    BY <2>3, <2>7 DEF Dressed
  <2>9. Dressed(a, u, [ColorsOf(a) EXCEPT ![p] = NoColor])
    BY <2>8, OneIsDressed DEF Worn
  <2>10. t = IF u.players[p].faction = "SPECTATOR" THEN u ELSE [u EXCEPT !.players[p].color = c]
    BY <2>4
  <2>. HIDE DEF u
  <2>11. /\ u \in Mode /\ p \in Seated(u) /\ Seated(u) = Seated(s)
         /\ u.players[p].faction = f
         /\ \A g : PlayersIn(u, g) = PlayersIn(m, g)
    BY <2>1, <2>3, <2>7, <2>9 DEF Dressed, PlayersIn
  <2>12. /\ ColorsOf(u) = [ColorsOf(a) EXCEPT ![p] = NoColor]
         /\ DOMAIN ColorsOf(a) = Seated(s) /\ DOMAIN worn = Seated(s)
    BY <2>3, <2>7, <2>9 DEF Dressed, ColorsOf
  <2>13. u.players[p].color = NoColor /\ ColorsOf(u)[p] = NoColor
    BY <2>11, <2>12 DEF ColorsOf
  <2>14. /\ c \in Worn
         /\ \/ c = Excess /\ PlayerColors \subseteq {ColorsOf(u)[q] : q \in PlayersIn(s, f)}
            \/ c \in PlayerColors \ {ColorsOf(u)[q] : q \in PlayersIn(s, f)}
    <3>1. PlayersIn(s, f) = PlayersIn(u, f) \ {p}
      BY <2>6, <2>11
    <3>. QED  BY <2>11, <2>13, <3>1, FirstColorIsFree
  <2>. HIDE DEF c
  <2>15. /\ Dressed(u, t, ColorsOf(t))
         /\ ColorsOf(t) = [ColorsOf(u) EXCEPT ![p] = IF f = "SPECTATOR" THEN NoColor ELSE c]
    <3>1. CASE f = "SPECTATOR"
      <4>1. t = u
        BY <2>10, <2>11, <3>1
      <4>2. ColorsOf(u) = [ColorsOf(u) EXCEPT ![p] = NoColor]
        BY <2>12
      <4>. QED  BY <2>11, <3>1, <4>1, <4>2 DEF Dressed, Mode
    <3>2. CASE f # "SPECTATOR"
      <4>1. t = [u EXCEPT !.players[p].color = c]
        BY <2>10, <2>11, <3>2
      <4>. HIDE DEF u
      <4>2. Dressed(u, t, [ColorsOf(u) EXCEPT ![p] = c])
        BY <2>11, <2>14, <4>1, OneIsDressed
      <4>. QED  BY <3>2, <4>2 DEF Dressed
    <3>. QED  BY <3>1, <3>2
  <2>16. /\ t \in Mode /\ t = [m EXCEPT !.players = t.players] /\ Seated(t) = Seated(s)
         /\ \A q \in Seated(s) : /\ t.players[q].faction = m.players[q].faction
                                 /\ t.players[q].character = m.players[q].character
    <3>1. a = [m EXCEPT !.players = a.players] /\ u = [a EXCEPT !.players = u.players]
          /\ t = [u EXCEPT !.players = t.players]
      BY <2>7, <2>9, <2>15 DEF Dressed
    <3>2. t = [m EXCEPT !.players = t.players]
      BY <3>1
    <3>. QED  BY <2>3, <2>7, <2>9, <2>15, <3>2 DEF Dressed
  <2>17. t.history = m.history
    BY <2>3, <2>16 DEF Mode
  <2>18. Reseated(s, t)
    <3>1. t = [s EXCEPT !.players = t.players, !.history = t.history]
      <4>1. m = [s EXCEPT !.players = m.players, !.history = m.history]
        BY <2>1 DEF Reseated
      <4>. QED  BY <2>16, <2>17, <4>1
    <3>. QED  BY <2>1, <2>16, <2>17, <3>1 DEF Reseated
  <2>19. \A g : PlayersIn(t, g) = PlayersIn(m, g)
    BY <2>3, <2>16 DEF PlayersIn
  <2>20. TeamsKept(t)
    BY <2>1, <2>3, <2>16, <2>17 DEF TeamsKept
  <2>21. ColorsKept(t)
    <3>1. SUFFICES ASSUME ~Scrambling PROVE ColorsKept(t)
      BY DEF ColorsKept
    <3>2. /\ \A g \in Factions : Coloured(PlayersIn(s, g), worn)
          /\ \A q \in PlayersIn(s, "SPECTATOR") : worn[q] = NoColor
      BY <3>1 DEF SeatsKept, ColorsKept, ColorsOf, PlayersIn
    <3>. DEFINE wa == ColorsOf(a)
                wt == ColorsOf(t)
    <3>3. /\ \A q \in Seated(s) \ {p} : wt[q] = wa[q] /\ ColorsOf(u)[q] = wa[q]
          /\ wt[p] = IF f = "SPECTATOR" THEN NoColor ELSE c
      BY <2>11, <2>12, <2>15 DEF ColorsOf
    <3>4. \A g : PlayersIn(s, g) \subseteq Seated(s)
      BY DEF PlayersIn
    <3>5. NoColor \notin PlayerColors /\ NoColor # Excess
      BY BombAssumption DEF NoColor, Excess
    <3>6. previous = "SPECTATOR" => wa = worn
      BY <2>6, <2>7, <3>2, <3>5
    <3>7. \A g : g # previous => \A q \in PlayersIn(s, g) : wa[q] = worn[q]
      <4>1. \A g : g # previous => PlayersIn(s, g) \cap PlayersIn(s, previous) = {}
        BY DEF PlayersIn
      <4>. HIDE DEF worn, wa
      <4>2. CASE wa = worn
        BY <4>2
      <4>3. CASE wa # worn
        <5>1. PICK heir \in PlayersIn(s, previous) \ {p} : wa = [worn EXCEPT ![heir] = worn[p]]
          BY <2>7, <4>3 DEF wa
        <5>. QED  BY <2>12, <3>4, <4>1, <5>1
      <4>. QED  BY <4>2, <4>3
    <3>8. ASSUME previous # "SPECTATOR" PROVE Coloured(PlayersIn(s, previous) \ {p}, wa)
      <4>1. previous \in Factions
        BY <3>8, ModeHasPlayers DEF Player, Sides
      <4>2. Coloured(PlayersIn(s, previous), worn)
        BY <3>2, <4>1
      <4>3. CASE /\ wa = worn
                 /\ worn[p] \in {NoColor, Excess} \/ \A q \in PlayersIn(s, previous) \ {p} : worn[q] # Excess
        <5>. HIDE DEF worn, wa, previous
        <5>. QED  BY <4>2, <4>3, TeamIsLeft
      <4>4. CASE \E heir \in PlayersIn(s, previous) \ {p} :
                   worn[p] \in PlayerColors /\ worn[heir] = Excess /\ wa = [worn EXCEPT ![heir] = worn[p]]
        <5>1. PICK heir \in PlayersIn(s, previous) \ {p} :
                   worn[p] \in PlayerColors /\ worn[heir] = Excess /\ wa = [worn EXCEPT ![heir] = worn[p]]
          BY <4>4
        <5>2. wa[heir] = worn[p] /\ \A q \in PlayersIn(s, previous) \ {p, heir} : wa[q] = worn[q]
          BY <2>12, <3>4, <5>1
        <5>3. PICK team : team = PlayersIn(s, previous) /\ p \in team /\ heir \in team \ {p}
          BY <2>6, <5>1
        <5>4. /\ Coloured(team, worn) /\ worn[p] \in PlayerColors /\ worn[heir] = Excess
              /\ wa[heir] = worn[p] /\ \A q \in team \ {p, heir} : wa[q] = worn[q]
          BY <4>2, <5>1, <5>2, <5>3
        <5>. HIDE DEF worn, wa, previous
        <5>5. Coloured(team \ {p}, wa)
          BY <5>3, <5>4, ColorIsInherited
        <5>. QED  BY <5>3, <5>5
      <4>. QED  BY <2>7, <4>3, <4>4
    <3>9. ASSUME NEW g \in Factions, g # f PROVE Coloured(PlayersIn(t, g), wt)
      <4>1. PlayersIn(t, g) = PlayersIn(s, g) \ {p}
        BY <2>6, <2>19, <3>9
      <4>2. \A q \in PlayersIn(s, g) \ {p} : wt[q] = wa[q]
        BY <3>3, <3>4
      <4>3. Coloured(PlayersIn(s, g) \ {p}, wa)
        <5>1. CASE g = previous
          BY <3>8, <5>1 DEF Factions
        <5>2. CASE g # previous
          <6>1. p \notin PlayersIn(s, g)
            BY <5>2 DEF PlayersIn
          <6>2. PlayersIn(s, g) \ {p} = PlayersIn(s, g)
            BY <6>1
          <6>. HIDE DEF wa, worn
          <6>. QED  BY <3>2, <3>7, <5>2, <6>2, ColouredAlone
        <5>. QED  BY <5>1, <5>2
      <4>. HIDE DEF wt, wa
      <4>. QED  BY <4>1, <4>2, <4>3, ColouredAlone
    <3>10. ASSUME f \in Factions PROVE Coloured(PlayersIn(t, f), wt)
      <4>1. PlayersIn(t, f) = PlayersIn(s, f) \cup {p} /\ p \notin PlayersIn(s, f) /\ wt[p] = c
        BY <2>6, <2>19, <3>3, <3>10 DEF Factions
      <4>2. \A q \in PlayersIn(s, f) : wt[q] = worn[q] /\ ColorsOf(u)[q] = worn[q]
        BY <1>2, <2>6, <3>3, <3>4, <3>7
      <4>3. {ColorsOf(u)[q] : q \in PlayersIn(s, f)} = {worn[q] : q \in PlayersIn(s, f)}
        BY <4>2
      <4>4. Coloured(PlayersIn(s, f), worn)
        BY <3>2, <3>10
      <4>. HIDE DEF wt, worn
      <4>. QED  BY <2>14, <4>1, <4>2, <4>3, <4>4, TeamIsJoined
    <3>11. ASSUME NEW q \in PlayersIn(t, "SPECTATOR") PROVE wt[q] = NoColor
      <4>1. CASE q = p
        <5>1. f = "SPECTATOR"
          BY <2>1, <2>16, <3>11, <4>1 DEF PlayersIn
        <5>. QED  BY <3>3, <4>1, <5>1
      <4>2. CASE q # p
        <5>1. q \in PlayersIn(s, "SPECTATOR")
          BY <2>6, <2>19, <3>11, <4>2
        <5>2. wa[q] = worn[q]
          BY <3>6, <3>7, <5>1
        <5>. QED  BY <3>2, <3>3, <3>4, <4>2, <5>1, <5>2
      <4>. QED  BY <4>1, <4>2
    <3>12. \A q \in PlayersIn(t, "SPECTATOR") : t.players[q].color = wt[q]
      BY DEF PlayersIn, ColorsOf
    <3>. QED  BY <3>9, <3>10, <3>11, <3>12 DEF ColorsKept
  <2>22. LimitKept(t)
    <3>1. SUFFICES ASSUME ~Scrambling, rules.max_players_per_team # 0, NEW g \in Factions
                   PROVE  Cardinality(PlayersIn(t, g)) <= rules.max_players_per_team
      BY DEF LimitKept
    <3>2. Cardinality(PlayersIn(s, g)) <= rules.max_players_per_team
      BY <3>1 DEF SeatsKept, LimitKept
    <3>3. IsFiniteSet(PlayersIn(s, g)) /\ Cardinality(PlayersIn(s, g)) \in Nat
          /\ rules.max_players_per_team \in Nat
      BY TeamsAreFinite, RulesFit
    <3>4. CASE g = f
      <4>1. PlayersIn(t, g) = PlayersIn(s, g) \cup {p} /\ p \notin PlayersIn(s, g)
        BY <2>6, <2>19, <3>4
      <4>2. Cardinality(PlayersIn(t, g)) = Cardinality(PlayersIn(s, g)) + 1
        BY <3>3, <4>1, FS_AddElement
      <4>3. Cardinality(PlayersIn(s, g)) < rules.max_players_per_team
        BY <1>2, <3>1, <3>4 DEF HasRoom, Factions
      <4>. QED  BY <3>3, <4>2, <4>3
    <3>5. CASE g # f
      <4>1. PlayersIn(t, g) = PlayersIn(s, g) \ {p}
        BY <2>6, <2>19, <3>5
      <4>2. Cardinality(PlayersIn(t, g)) <= Cardinality(PlayersIn(s, g)) /\ Cardinality(PlayersIn(t, g)) \in Nat
        BY <3>3, <4>1, FS_Subset, FS_CardinalityType
      <4>. QED  BY <3>2, <3>3, <4>2
    <3>. QED  BY <3>4, <3>5
  <2>. QED  BY <2>1, <2>16, <2>18, <2>20, <2>21, <2>22 DEF SeatsKept
<1>. QED  BY <1>1, <1>2

-----------------------------------------------------------------------------
(* The commands of players. *)

(* Whoever is awake stays so when players are neither moved nor thawed.    *)
LEMMA AwakeRecast ==
  ASSUME NEW s, NEW t, Awake(s), Recast({}, s, t)
  PROVE  Awake(t) /\ t.bomb = s.bomb /\ t.state = s.state /\ t.last_win = s.last_win
<1>1. s \in Mode
  BY DEF Awake, Whole
<1>2. /\ t.state = s.state /\ t.now = s.now /\ t.last_win = s.last_win /\ t.frozen = s.frozen
      /\ t.bomb = s.bomb
  BY <1>1, RecastFields
<1>3. Whole(t)
  BY RecastWhole DEF Awake
<1>4. \A p \in Seated(t) : Stands(t, p, s.frozen)
  BY RecastStands DEF Awake, PostureKept
<1>5. PostureKept(t)
  BY <1>2, <1>4 DEF Awake, PostureKept, FlagAt
<1>6. Ready(t)
  BY <1>2 DEF Awake, Ready, Due, BombPlanted, SinceWin
<1>. QED  BY <1>2, <1>3, <1>5, <1>6 DEF Awake

(* What a change of sides leaves alone, and with it the score.             *)
LEMMA ReseatedFields ==
  ASSUME NEW s \in Mode, NEW t, Reseated(s, t)
  PROVE  /\ t.state = s.state /\ t.now = s.now /\ t.last_win = s.last_win /\ t.frozen = s.frozen
         /\ t.bomb = s.bomb /\ t.score = s.score
         /\ t.history.won = s.history.won /\ t.history.bombing = s.history.bombing
         /\ t.history.started = s.history.started
         /\ ScoreKept(s) => ScoreKept(t)
<1>1. /\ t.state = s.state /\ t.now = s.now /\ t.last_win = s.last_win /\ t.frozen = s.frozen
      /\ t.bomb = s.bomb /\ t.score = s.score
  BY DEF Reseated, Mode
<1>2. /\ t.history.won = s.history.won /\ t.history.bombing = s.history.bombing
      /\ t.history.started = s.history.started
  BY DEF Reseated, Mode, History
<1>3. RoundNum(t) = RoundNum(s) /\ IsFinalRound(t) = IsFinalRound(s) /\ IsHalfwayRound(t) = IsHalfwayRound(s)
  BY <1>1 DEF RoundNum, IsFinalRound, IsHalfwayRound
<1>4. \A f : TeamOn(t.history, f) = TeamOn(s.history, f)
  BY <1>2 DEF TeamOn
<1>5. ScoreKept(s) => ScoreKept(t)
  BY <1>1, <1>2, <1>3, <1>4 DEF ScoreKept
<1>. QED  BY <1>1, <1>2, <1>5

(* Nor does it matter who sits where. *)
LEMMA AwakeReseated ==
  ASSUME NEW s, NEW t, Awake(s), Reseated(s, t), SeatsKept(t)
  PROVE  Awake(t) /\ t.bomb = s.bomb /\ t.state = s.state /\ t.last_win = s.last_win
<1>1. s \in Mode /\ ScoreKept(s)
  BY DEF Awake, Whole
<1>2. /\ t.state = s.state /\ t.now = s.now /\ t.last_win = s.last_win /\ t.frozen = s.frozen
      /\ t.bomb = s.bomb /\ ScoreKept(t)
  BY <1>1, ReseatedFields
<1>3. Whole(t)
  BY <1>2 DEF Whole, Reseated
<1>4. PostureKept(t)
  BY <1>2 DEF Awake, Reseated, PostureKept, FlagAt, Stands
<1>5. Ready(t)
  BY <1>2 DEF Awake, Ready, Due, BombPlanted, SinceWin
<1>. QED  BY <1>2, <1>3, <1>4, <1>5 DEF Awake

(* Everybody is on one of the three sides. *)
LEMMA PlayersAreCounted ==
  ASSUME NEW s \in Mode
  PROVE  Cardinality(Seated(s)) = Cardinality(PlayersIn(s, "BOMBING"))
                                  + Cardinality(PlayersIn(s, "DEFUSING"))
                                  + Cardinality(PlayersIn(s, "SPECTATOR"))
<1>. DEFINE B == PlayersIn(s, "BOMBING")
            D == PlayersIn(s, "DEFUSING")
            S == PlayersIn(s, "SPECTATOR")
<1>1. /\ IsFiniteSet(B) /\ IsFiniteSet(D) /\ IsFiniteSet(S)
      /\ Cardinality(B) \in Nat /\ Cardinality(D) \in Nat /\ Cardinality(S) \in Nat
  BY TeamsAreFinite
<1>2. B \cap D = {} /\ (B \cup D) \cap S = {}
  BY DEF PlayersIn
<1>3. Seated(s) = (B \cup D) \cup S
  <2>1. \A p \in Seated(s) : s.players[p].faction \in {"BOMBING", "DEFUSING", "SPECTATOR"}
    BY ModeHasPlayers DEF Player, Sides, Factions
  <2>. QED  BY <2>1 DEF PlayersIn
<1>. HIDE DEF B, D, S
<1>4. Cardinality(B \cap D) = 0 /\ Cardinality((B \cup D) \cap S) = 0
  BY <1>2, FS_EmptySet
<1>5. IsFiniteSet(B \cup D) /\ Cardinality(B \cup D) = Cardinality(B) + Cardinality(D)
  <2>1. /\ IsFiniteSet(B \cup D)
        /\ Cardinality(B \cup D) = Cardinality(B) + Cardinality(D) - Cardinality(B \cap D)
    BY <1>1, FS_Union
  <2>. QED  BY <1>1, <1>4, <2>1
<1>6. Cardinality((B \cup D) \cup S) = Cardinality(B \cup D) + Cardinality(S)
  <2>1. Cardinality((B \cup D) \cup S)
          = Cardinality(B \cup D) + Cardinality(S) - Cardinality((B \cup D) \cap S)
    BY <1>1, <1>5, FS_Union
  <2>. QED  BY <1>1, <1>4, <1>5, <2>1
<1>. QED  BY <1>1, <1>3, <1>5, <1>6 DEF B, D, S

(* auto_assign_faction() never asks for the limit: the weakest faction has *)
(* room whenever somebody already plays, or not all places are taken.      *)
LEMMA WeakestHasRoom ==
  ASSUME NEW s \in Mode, LimitKept(s), NEW p \in Seated(s),
         \/ s.players[p].faction # "SPECTATOR"
         \/ rules.max_players_per_team = 0
         \/ Cardinality(Seated(s)) - Cardinality(PlayersIn(s, "SPECTATOR"))
              < 2 * rules.max_players_per_team
  PROVE  LET f == CalcWeakestFaction([s EXCEPT !.players[p].faction = "SPECTATOR"])
         IN  f \in Factions /\ HasRoom(s, p, f)
<1>. DEFINE x == [s EXCEPT !.players[p].faction = "SPECTATOR"]
            f == CalcWeakestFaction(x)
            mine == s.players[p].faction
<1>1. f \in Factions
  BY DEF CalcWeakestFaction, Factions
<1>2. SUFFICES ASSUME ~Scrambling, rules.max_players_per_team # 0, mine # f
               PROVE  Cardinality(PlayersIn(s, f)) < rules.max_players_per_team
  BY <1>1 DEF HasRoom
<1>3. \A g \in Factions : PlayersIn(x, g) = PlayersIn(s, g) \ {p}
  <2>1. Seated(x) = Seated(s) /\ \A q \in Seated(s) :
          x.players[q].faction = IF q = p THEN "SPECTATOR" ELSE s.players[q].faction
    BY DEF Mode, Rosters, Player, Seated
  <2>. HIDE DEF x
  <2>. QED  BY <2>1 DEF PlayersIn, Factions
<1>. HIDE DEF x
<1>4. PICK max \in Nat : max = rules.max_players_per_team
  BY RulesFit
<1>5. PICK B \in Nat, D \in Nat :
        /\ B = Cardinality(PlayersIn(s, "BOMBING")) /\ D = Cardinality(PlayersIn(s, "DEFUSING"))
        /\ B <= max /\ D <= max
  BY <1>2, <1>4, TeamsAreFinite DEF LimitKept, Factions
<1>6. /\ Cardinality(PlayersIn(x, "BOMBING")) = IF mine = "BOMBING" THEN B - 1 ELSE B
      /\ Cardinality(PlayersIn(x, "DEFUSING")) = IF mine = "DEFUSING" THEN D - 1 ELSE D
  <2>1. \A g : p \in PlayersIn(s, g) <=> mine = g
    BY DEF PlayersIn
  <2>2. \A g \in Factions : Cardinality(PlayersIn(x, g)) =
          IF mine = g THEN Cardinality(PlayersIn(s, g)) - 1 ELSE Cardinality(PlayersIn(s, g))
    BY <1>3, <2>1, TeamsAreFinite, FS_RemoveElement
  <2>. QED  BY <1>5, <2>2 DEF Factions
<1>7. mine = "SPECTATOR" => B + D < 2 * max
  <2>1. Cardinality(PlayersIn(s, "SPECTATOR")) \in Nat
    BY TeamsAreFinite
  <2>. QED  BY <1>2, <1>4, <1>5, <2>1, PlayersAreCounted
<1>8. mine \in Sides
  BY ModeHasPlayers DEF Player
<1>9. CASE f = "BOMBING"
  <2>1. ~(Cardinality(PlayersIn(x, "DEFUSING")) < Cardinality(PlayersIn(x, "BOMBING")))
    BY <1>9 DEF CalcWeakestFaction
  <2>. HIDE DEF f, mine
  <2>. QED  BY <1>2, <1>4, <1>5, <1>6, <1>7, <1>8, <1>9, <2>1 DEF Sides, Factions
<1>10. CASE f = "DEFUSING"
  <2>1. Cardinality(PlayersIn(x, "DEFUSING")) < Cardinality(PlayersIn(x, "BOMBING"))
    BY <1>10 DEF CalcWeakestFaction
  <2>. HIDE DEF f, mine
  <2>. QED  BY <1>2, <1>4, <1>5, <1>6, <1>7, <1>8, <1>10, <2>1 DEF Sides, Factions
<1>. QED  BY <1>1, <1>9, <1>10 DEF Factions

(* A team is asked for: whoever gets into one finds room in it, and falls  *)
(* if he was alive.                                                        *)
LEMMA TeamIsChosen ==
  ASSUME NEW s, Awake(s), NEW p \in Seated(s), NEW requested \in Sides \cup {"DEFAULT"},
         NEW t \in TeamChoice(s, p, requested)
  PROVE  Awake(t) /\ t.bomb = s.bomb /\ t.state = s.state /\ t.last_win = s.last_win
<1>. DEFINE me == s.players[p]
            alive == me.character.state = "conscious"
            active == Cardinality(Seated(s)) - Cardinality(PlayersIn(s, "SPECTATOR"))
            full(f) == rules.max_players_per_team # 0
                         /\ Cardinality(PlayersIn(s, f)) >= rules.max_players_per_team
            refused ==
              \/ me.faction = requested
              \/ /\ rules.forbid_going_to_spectator_unless_character_alive
                 /\ ~alive /\ requested = "SPECTATOR"
              \/ /\ me.faction = "SPECTATOR" /\ rules.max_players_per_team # 0
                 /\ active >= 2 * rules.max_players_per_team
              \/ requested # "SPECTATOR" /\ full(requested)
              \/ requested # "SPECTATOR" /\ ~alive /\ me.round_when_chosen_faction = RoundNum(s)
            stamped == IF requested = "SPECTATOR" THEN s
                       ELSE [s EXCEPT !.players[p].round_when_chosen_faction = RoundNum(s)]
            chosen == IF requested = "DEFAULT" THEN AutoAssignFaction(stamped, p)
                      ELSE ChooseFaction(stamped, p, requested)
<1>1. s \in Mode /\ Whole(s)
  BY DEF Awake, Whole
<1>2. TeamChoice(s, p, requested) =
        IF refused THEN {s}
        ELSE {IF alive /\ x.players[p].faction # me.faction THEN KnockOut(x, p) ELSE x : x \in chosen}
  BY DEF TeamChoice
<1>3. CASE refused
  BY <1>2, <1>3
<1>4. CASE ~refused
  <2>1. PICK x \in chosen : t = IF alive /\ x.players[p].faction # me.faction THEN KnockOut(x, p) ELSE x
    <3>. HIDE DEF refused, chosen, alive, me
    <3>. QED  BY <1>2, <1>4
  <2>2. /\ \/ me.faction # "SPECTATOR" \/ rules.max_players_per_team = 0
           \/ active < 2 * rules.max_players_per_team
        /\ requested # "SPECTATOR" =>
             \/ rules.max_players_per_team = 0
             \/ Cardinality(PlayersIn(s, requested)) < rules.max_players_per_team
    <3>1. active \in Int /\ rules.max_players_per_team \in Nat
          /\ Cardinality(PlayersIn(s, requested)) \in Nat
      BY <1>1, TeamsAreFinite, RulesFit
    <3>. HIDE DEF active, me, alive
    <3>. QED  BY <1>4, <3>1
  <2>3. /\ Recast({}, s, stamped)
        /\ stamped.players[p].faction = me.faction
    <3>1. CASE requested = "SPECTATOR"
      BY <1>1, <3>1, RecastNone
    <3>2. CASE requested # "SPECTATOR"
      <4>. DEFINE n == RoundNum(s)
                  w == [me EXCEPT !.round_when_chosen_faction = n]
      <4>1. n \in Int
        BY <1>1 DEF RoundNum, Mode, Points, Factions
      <4>. HIDE DEF n
      <4>2. me \in Player
        BY <1>1, ModeHasPlayers
      <4>3. w \in Player /\ Becomes({}, me, w)
        <5>. HIDE DEF me
        <5>. QED  BY <4>1, <4>2 DEF Player, Becomes
      <4>4. stamped = [s EXCEPT !.players[p] = w]
        BY <3>2 DEF n
      <4>. HIDE DEF w, stamped
      <4>5. Recast({}, s, stamped)
        BY <1>1, <4>3, <4>4, RecastOne
      <4>. QED  BY <4>5 DEF Recast, Becomes
    <3>. QED  BY <3>1, <3>2
  <2>. HIDE DEF stamped
  <2>4. Awake(stamped) /\ stamped.bomb = s.bomb /\ stamped.state = s.state /\ stamped.last_win = s.last_win
    BY <2>3, AwakeRecast
  <2>5. stamped \in Mode /\ SeatsKept(stamped) /\ p \in Seated(stamped)
    BY <2>3, <2>4 DEF Awake, Whole, Recast
  <2>6. \A f : PlayersIn(stamped, f) = PlayersIn(s, f) /\ Seated(stamped) = Seated(s)
    BY <2>3 DEF Recast, Becomes, PlayersIn
  <2>7. PICK f \in Sides : HasRoom(stamped, p, f) /\ x \in ChooseFaction(stamped, p, f)
    <3>1. CASE requested = "DEFAULT"
      <4>. DEFINE f == CalcWeakestFaction([stamped EXCEPT !.players[p].faction = "SPECTATOR"])
      <4>1. x \in ChooseFaction(stamped, p, f)
        BY <2>1, <3>1 DEF AutoAssignFaction
      <4>2. \/ stamped.players[p].faction # "SPECTATOR"
            \/ rules.max_players_per_team = 0
            \/ Cardinality(Seated(stamped)) - Cardinality(PlayersIn(stamped, "SPECTATOR"))
                 < 2 * rules.max_players_per_team
        BY <2>2, <2>3, <2>6
      <4>3. f \in Factions /\ HasRoom(stamped, p, f)
        BY <2>5, <4>2, WeakestHasRoom DEF SeatsKept
      <4>. QED  BY <4>1, <4>3 DEF Sides
    <3>2. CASE requested # "DEFAULT"
      <4>1. requested \in Sides /\ x \in ChooseFaction(stamped, p, requested)
        BY <2>1, <3>2
      <4>2. HasRoom(stamped, p, requested)
        BY <2>2, <2>6 DEF HasRoom
      <4>. QED  BY <4>1, <4>2
    <3>. QED  BY <3>1, <3>2
  <2>8. Reseated(stamped, x) /\ SeatsKept(x)
    BY <2>5, <2>7, FactionIsChosen
  <2>9. Awake(x) /\ x.bomb = s.bomb /\ x.state = s.state /\ x.last_win = s.last_win
    BY <2>4, <2>8, AwakeReseated
  <2>10. x \in Mode /\ p \in Seated(x)
    BY <2>5, <2>8 DEF Reseated
  <2>11. Recast({}, x, t)
    <3>. HIDE DEF alive, me
    <3>. QED  BY <2>1, <2>10, KnockOutRecasts, RecastNone
  <2>. QED  BY <2>9, <2>11, AwakeRecast
<1>. QED  BY <1>3, <1>4

(* execute_player_commands(). *)
LEMMA CommandsAreExecuted ==
  ASSUME NEW s, Awake(s), NEW in \in Inputs, NEW t \in ExecutePlayerCommands(s, in)
  PROVE  Awake(t) /\ t.bomb = s.bomb /\ t.state = s.state /\ t.last_win = s.last_win
<1>1. CASE in.kind = "team_choice" /\ in.id \in Seated(s)
  <2>1. t \in TeamChoice(s, in.id, in.faction)
    BY <1>1 DEF ExecutePlayerCommands
  <2>2. in.faction \in Sides \cup {"DEFAULT"}
    BY <1>1, BombAssumption DEF Inputs, Sides
  <2>. QED  BY <1>1, <2>1, <2>2, TeamIsChosen
<1>2. CASE in.kind = "item_purchase" /\ in.id \in Seated(s)
  <2>1. t = Purchase(s, in.id, rules.price)
    BY <1>2 DEF ExecutePlayerCommands
  <2>. QED  BY <1>2, <2>1, PurchaseRecasts, AwakeRecast DEF Awake, Whole
<1>3. CASE ~(in.kind = "team_choice" /\ in.id \in Seated(s)) /\ ~(in.kind = "item_purchase" /\ in.id \in Seated(s))
  BY <1>3 DEF ExecutePlayerCommands
<1>. QED  BY <1>1, <1>2, <1>3

-----------------------------------------------------------------------------
(* What comes before a phase's own doing: players come and go, a match is  *)
(* restarted.                                                              *)

(* All but players is the same, and who is conscious was so, and as frozen.*)
Kin(s, t) ==
  /\ t \in Mode
  /\ t.state = s.state /\ t.now = s.now /\ t.frozen = s.frozen /\ t.score = s.score
  /\ t.bomb.state = s.bomb.state /\ t.bomb.when_armed = s.bomb.when_armed
  /\ s.bomb.defuser = NoId => t.bomb.defuser = NoId
  /\ t.history.won = s.history.won /\ t.history.bombing = s.history.bombing
  /\ t.history.started = s.history.started
  /\ \A q \in Seated(t) :
       \/ t.players[q].character = NoCharacter
       \/ q \in Seated(s) /\ t.players[q].character = s.players[q].character

(* What the bomb and the phase have become: a restart has cleared away the *)
(* bomb, or both are as before.                                            *)
Leads(s, t) ==
  NoBombYet(t) \/ /\ t.state = s.state /\ t.bomb.state = s.bomb.state
                  /\ s.bomb.defuser = NoId => t.bomb.defuser = NoId

(* One thing after the other. *)
LEMMA LeadsOn ==
  ASSUME NEW s, NEW t, NEW u, Leads(s, t), Leads(t, u)
  PROVE  Leads(s, u)
BY DEF Leads, NoBombYet

(* A mode stays early when players come and go in good order, and a bomb   *)
(* that was defused remains so as long as its defuser stays.               *)
LEMMA EarlyKin ==
  ASSUME NEW s, NEW t, Early(s), Kin(s, t), SeatsKept(t)
  PROVE  Early(t) /\ Leads(s, t)
<1>1. RoundNum(t) = RoundNum(s) /\ IsFinalRound(t) = IsFinalRound(s) /\ IsHalfwayRound(t) = IsHalfwayRound(s)
  BY DEF Kin, RoundNum, IsFinalRound, IsHalfwayRound
<1>2. \A f : TeamOn(t.history, f) = TeamOn(s.history, f)
  BY DEF Kin, TeamOn
<1>3. ScoreKept(t)
  BY <1>1, <1>2 DEF Early, Whole, Kin, ScoreKept
<1>4. Due(t)
  BY DEF Early, Kin, Due, BombPlanted
<1>5. Drowsy(t)
  <2>1. BornFrozen(t) = BornFrozen(s)
    BY DEF Kin, BornFrozen, FreezeLeft, WarmupLeft
  <2>2. \E n \in {t.now - 1, t.now} : FlagAt(t, n)
    BY DEF Early, Drowsy, Kin, FlagAt
  <2>3. ASSUME NEW q \in Seated(t)
        PROVE  Stands(t, q, t.frozen) \/ (t.state \in {"LIVE", "WARMUP"} /\ Stands(t, q, BornFrozen(t)))
    <3>1. CASE t.players[q].character = NoCharacter
      BY <3>1 DEF Stands, NoCharacter
    <3>2. CASE q \in Seated(s) /\ t.players[q].character = s.players[q].character
      BY <2>1, <3>2 DEF Early, Drowsy, Kin, Stands
    <3>. QED  BY <3>1, <3>2 DEF Kin
  <2>. QED  BY <2>2, <2>3 DEF Drowsy
<1>. QED  BY <1>3, <1>4, <1>5 DEF Early, Whole, Kin, Leads

(* add_player_custom(): a newcomer watches, without a colour. *)
LEMMA PlayerIsAdded ==
  ASSUME NEW s, Early(s), NEW p \in Ids \ Seated(s)
  PROVE  Kin(s, AddPlayer(s, p)) /\ SeatsKept(AddPlayer(s, p))
<1>. DEFINE money == IF s.state = "WARMUP" THEN rules.warmup_initial_money
                     ELSE IF RoundNum(s) # 0 THEN rules.initial_money \div 2 ELSE rules.initial_money
            w == [NewPlayer EXCEPT !.money = money]
            S == Seated(s) \cup {p}
            r == [q \in S |-> IF q = p THEN w ELSE s.players[q]]
            t == [s EXCEPT !.players = r]
<1>1. s \in Mode /\ SeatsKept(s)
  BY DEF Early, Whole
<1>2. money \in 0..rules.maximum_money
  <2>1. PICK i \in Nat, j \in Nat, m \in Nat :
          /\ i = rules.initial_money /\ j = rules.warmup_initial_money /\ m = rules.maximum_money
          /\ i <= m /\ j <= m
    BY RulesFit
  <2>2. i \div 2 \in 0..m
    BY <2>1
  <2>. QED  BY <2>1, <2>2
<1>. HIDE DEF money
<1>3. /\ w \in Player /\ w.faction = "SPECTATOR" /\ w.color = NoColor /\ w.character = NoCharacter
  <2>1. NoCharacter \in Character
    BY DEF NoCharacter, Character, Sides
  <2>2. w = [faction |-> "SPECTATOR", character |-> NoCharacter, color |-> NoColor,
             round_when_chosen_faction |-> -1, money |-> money]
    BY DEF NewPlayer
  <2>3. NoColor \in Worn /\ "SPECTATOR" \in Sides
    BY DEF Worn, Sides
  <2>. HIDE DEF w
  <2>. QED  BY <1>2, <2>1, <2>2, <2>3 DEF Player
<1>. HIDE DEF w
<1>4. S \in SUBSET Ids /\ r \in [S -> Player] /\ r[p] = w /\ \A q \in Seated(s) : r[q] = s.players[q]
  BY <1>1, <1>3, ModeHasPlayers
<1>5. AddPlayer(s, p) = t
  BY DEF AddPlayer, money, w
<1>. HIDE DEF r
<1>6. t \in Mode /\ t.players = r /\ Seated(t) = S
  BY <1>1, <1>4, Manned DEF Seated
<1>7. /\ t.state = s.state /\ t.now = s.now /\ t.frozen = s.frozen /\ t.score = s.score /\ t.bomb = s.bomb
      /\ t.history = s.history
  BY <1>1 DEF Mode
<1>. HIDE DEF t
<1>8. Kin(s, t)
  BY <1>3, <1>4, <1>6, <1>7 DEF Kin
<1>9. TeamsKept(t)
  <2>1. TeamOn(t.history, "SPECTATOR") = 0
    BY DEF TeamOn
  <2>2. TeamsKept(s)
    BY <1>1 DEF SeatsKept
  <2>. QED  BY <1>3, <1>4, <1>6, <1>7, <2>1, <2>2 DEF TeamsKept
<1>10. /\ \A f \in Factions : PlayersIn(t, f) = PlayersIn(s, f)
       /\ PlayersIn(t, "SPECTATOR") = PlayersIn(s, "SPECTATOR") \cup {p}
  BY <1>3, <1>4, <1>6 DEF PlayersIn, Factions
<1>11. ColorsKept(t)
  <2>1. SUFFICES ASSUME ~Scrambling PROVE ColorsKept(t)
    BY DEF ColorsKept
  <2>2. ASSUME NEW f \in Factions PROVE Coloured(PlayersIn(t, f), ColorsOf(t))
    <3>1. Coloured(PlayersIn(s, f), ColorsOf(s))
      BY <1>1, <2>1 DEF SeatsKept, ColorsKept
    <3>2. \A q \in PlayersIn(s, f) : ColorsOf(t)[q] = ColorsOf(s)[q]
      BY <1>4, <1>6 DEF PlayersIn, ColorsOf
    <3>. QED  BY <1>10, <3>1, <3>2, ColouredAlone
  <2>3. ASSUME NEW q \in PlayersIn(t, "SPECTATOR") PROVE t.players[q].color = NoColor
    <3>1. CASE q = p
      BY <1>3, <1>4, <1>6, <3>1
    <3>2. CASE q # p
      <4>1. q \in PlayersIn(s, "SPECTATOR") /\ q \in Seated(s)
        BY <1>10, <2>3, <3>2 DEF PlayersIn
      <4>. QED  BY <1>1, <1>4, <1>6, <2>1, <4>1 DEF SeatsKept, ColorsKept
    <3>. QED  BY <3>1, <3>2
  <2>. QED  BY <2>2, <2>3 DEF ColorsKept
<1>12. LimitKept(t)
  BY <1>1, <1>10 DEF SeatsKept, LimitKept
<1>. QED  BY <1>5, <1>8, <1>9, <1>11, <1>12 DEF SeatsKept

(* remove_player(): the colour of who leaves is passed on in his team.     *)
LEMMA PlayerIsRemoved ==
  ASSUME NEW s, Early(s), NEW p \in Seated(s), NEW t \in RemovePlayer(s, p)
  PROVE  Kin(s, t) /\ SeatsKept(t)
<1>. DEFINE S == Seated(s) \ {p}
            r == [q \in S |-> s.players[q]]
            forget(q) == IF q = p THEN NoId ELSE q
            b == [s.bomb EXCEPT !.defuser = forget(@), !.sender = forget(@)]
            team == [s.history.team EXCEPT ![p] = 0]
            h == [s.history EXCEPT !.team = team]
            left == [s EXCEPT !.players = r, !.bomb = b, !.history = h]
            previous == s.players[p].faction
            free == s.players[p].color
            worn == ColorsOf(s)
<1>1. s \in Mode /\ SeatsKept(s)
  BY DEF Early, Whole
<1>2. S \in SUBSET Ids /\ r \in [S -> Player] /\ \A q \in S : r[q] = s.players[q]
  BY <1>1, ModeHasPlayers
<1>3. p \in Ids /\ s.players[p] \in Player
  BY <1>1, ModeHasPlayers
<1>4. /\ b \in Bomb /\ b.state = s.bomb.state /\ b.when_armed = s.bomb.when_armed
      /\ s.bomb.defuser = NoId => b.defuser = NoId
  BY <1>1 DEF Mode, Bomb, AnyId
<1>5. /\ team \in [Ids -> 0..2] /\ team[p] = 0 /\ \A q \in Ids \ {p} : team[q] = s.history.team[q]
  <2>1. PICK old \in [Ids -> 0..2] : old = s.history.team
    BY <1>1 DEF Mode, History
  <2>2. [old EXCEPT ![p] = 0] \in [Ids -> 0..2]
    BY 0 \in 0..2
  <2>. QED  BY <1>3, <2>1, <2>2
<1>6. left = [s EXCEPT !.players = [q \in Seated(s) \ {p} |-> s.players[q]],
                       !.bomb.defuser = forget(@), !.bomb.sender = forget(@),
                       !.history.team[p] = 0]
  OBVIOUS
<1>7. t \in AssignFreeColorToBestUncolored(left, previous, free)
  BY <1>6 DEF RemovePlayer
<1>. HIDE DEF team, b
<1>8. h \in History /\ h.team = team /\ h.bombing = s.history.bombing /\ h.won = s.history.won
      /\ h.started = s.history.started
  BY <1>1, <1>5 DEF Mode, History
<1>. HIDE DEF r, h
<1>9. /\ left \in Mode /\ left.players = r /\ left.bomb = b /\ left.history = h
      /\ left.state = s.state /\ left.now = s.now /\ left.frozen = s.frozen /\ left.score = s.score
  <2>1. r \in Rosters
    BY <1>2 DEF Rosters
  <2>. QED  BY <1>1, <1>4, <1>8, <2>1 DEF Mode
<1>. HIDE DEF left
<1>10. Seated(left) = S
  BY <1>2, <1>9 DEF Seated
<1>11. free \in Worn /\ worn[p] = free
  BY <1>3 DEF Player, ColorsOf
<1>12. \A q \in S : ColorsOf(left)[q] = worn[q]
  BY <1>2, <1>9, <1>10 DEF ColorsOf
<1>13. /\ \A g : g # previous => PlayersIn(left, g) = PlayersIn(s, g)
       /\ PlayersIn(left, previous) = PlayersIn(s, previous) \ {p} /\ p \in PlayersIn(s, previous)
  BY <1>2, <1>9, <1>10 DEF PlayersIn
<1>. DEFINE wt == ColorsOf(t)
<1>14. /\ Touched(left, t)
       /\ \/ /\ \A q \in S : wt[q] = worn[q]
             /\ free \in {NoColor, Excess} \/ \A q \in PlayersIn(s, previous) \ {p} : worn[q] # Excess
          \/ \E heir \in PlayersIn(s, previous) \ {p} :
               /\ free \in PlayerColors /\ worn[heir] = Excess
               /\ wt[heir] = free /\ \A q \in S \ {heir} : wt[q] = worn[q]
  <2>1. PlayersIn(left, previous) \subseteq S
    BY <1>10 DEF PlayersIn
  <2>. HIDE DEF previous, free, worn
  <2>2. \/ /\ t = left
           /\ free \in {NoColor, Excess} \/ \A q \in PlayersIn(left, previous) : ColorsOf(left)[q] # Excess
        \/ \E heir \in PlayersIn(left, previous) :
             /\ free \in PlayerColors /\ ColorsOf(left)[heir] = Excess
             /\ Dressed(left, t, [ColorsOf(left) EXCEPT ![heir] = free])
        \/ Seated(left) = {} /\ t = [left EXCEPT !.undefined = TRUE]
    <3>. HIDE DEF S, wt
    <3>. QED  BY <1>7, <1>9, <1>11, FreeColorIsAssigned
  <2>3. CASE /\ t = left
             /\ free \in {NoColor, Excess} \/ \A q \in PlayersIn(left, previous) : ColorsOf(left)[q] # Excess
    <3>1. Touched(left, t)
      BY <1>9, <2>3 DEF Touched, Mode
    <3>. QED  BY <1>12, <1>13, <2>1, <2>3, <3>1
  <2>4. CASE \E heir \in PlayersIn(left, previous) :
             /\ free \in PlayerColors /\ ColorsOf(left)[heir] = Excess
             /\ Dressed(left, t, [ColorsOf(left) EXCEPT ![heir] = free])
    <3>1. PICK heir \in PlayersIn(left, previous) :
             /\ free \in PlayerColors /\ ColorsOf(left)[heir] = Excess
             /\ Dressed(left, t, [ColorsOf(left) EXCEPT ![heir] = free])
      BY <2>4
    <3>2. wt = [ColorsOf(left) EXCEPT ![heir] = free] /\ Dressed(left, t, wt)
      BY <3>1 DEF Dressed
    <3>3. DOMAIN ColorsOf(left) = S
      BY <1>10 DEF ColorsOf
    <3>4. Touched(left, t)
      BY <1>9, <3>2, DressedIsTouched
    <3>. HIDE DEF wt, S
    <3>. QED  BY <1>12, <1>13, <2>1, <3>1, <3>2, <3>3, <3>4
  <2>5. CASE Seated(left) = {} /\ t = [left EXCEPT !.undefined = TRUE]
    <3>1. Touched(left, t)
      <4>1. t \in Mode /\ t.players = left.players
        BY <1>9, <2>5 DEF Mode
      <4>2. t = [left EXCEPT !.players = t.players, !.undefined = t.undefined]
        BY <1>9, <2>5 DEF Mode
      <4>. QED  BY <2>5, <4>1, <4>2 DEF Touched, Seated
    <3>2. S = {}
      BY <1>10, <2>5
    <3>. HIDE DEF wt, S
    <3>. QED  BY <1>13, <2>1, <3>1, <3>2
  <2>. QED  BY <2>2, <2>3, <2>4, <2>5
<1>15. /\ t \in Mode /\ t = [left EXCEPT !.players = t.players, !.undefined = t.undefined]
       /\ Seated(t) = S
       /\ \A q \in S : /\ t.players[q].faction = s.players[q].faction
                       /\ t.players[q].character = s.players[q].character
  BY <1>2, <1>9, <1>10, <1>14 DEF Touched
<1>16. /\ t.bomb = b /\ t.history = h
       /\ t.state = s.state /\ t.now = s.now /\ t.frozen = s.frozen /\ t.score = s.score
  BY <1>9, <1>15 DEF Mode
<1>17. Kin(s, t)
  BY <1>4, <1>8, <1>15, <1>16 DEF Kin
<1>18. TeamsKept(t)
  <2>1. TeamsKept(s)
    BY <1>1 DEF SeatsKept
  <2>2. \A f : TeamOn(h, f) = TeamOn(s.history, f)
    BY <1>8 DEF TeamOn
  <2>3. \A q \in S : q \in Ids \ {p} /\ q \in Seated(s)
    BY <1>1, ModeHasPlayers
  <2>. HIDE DEF S
  <2>4. \A q \in S : h.team[q] = TeamOn(h, t.players[q].faction)
    BY <1>5, <1>8, <1>15, <2>1, <2>2, <2>3 DEF TeamsKept
  <2>5. \A q \in Ids \ S : q = p \/ q \in Ids \ Seated(s)
    BY DEF S
  <2>6. \A q \in Ids \ S : h.team[q] = 0
    BY <1>5, <1>8, <2>1, <2>5 DEF TeamsKept
  <2>. QED  BY <1>15, <1>16, <2>4, <2>6 DEF TeamsKept
<1>19. \A g : PlayersIn(t, g) = PlayersIn(left, g)
  BY <1>2, <1>9, <1>10, <1>15 DEF PlayersIn
<1>20. ColorsKept(t)
  <2>1. SUFFICES ASSUME ~Scrambling PROVE ColorsKept(t)
    BY DEF ColorsKept
  <2>2. /\ \A g \in Factions : Coloured(PlayersIn(s, g), worn)
        /\ \A q \in PlayersIn(s, "SPECTATOR") : worn[q] = NoColor
    BY <1>1, <2>1 DEF SeatsKept, ColorsKept, ColorsOf, PlayersIn
  <2>3. \A g : g # previous => PlayersIn(s, g) \subseteq S
    BY DEF PlayersIn
  <2>4. \A g : g # previous => PlayersIn(s, g) \cap PlayersIn(s, previous) = {}
    BY DEF PlayersIn
  <2>5. \A q \in PlayersIn(t, "SPECTATOR") : t.players[q].color = wt[q]
    BY DEF PlayersIn, ColorsOf
  <2>6. PlayersIn(s, previous) \ {p} \subseteq S
    BY DEF PlayersIn
  <2>. HIDE DEF previous, free, worn, wt, S
  <2>7. ASSUME NEW g, g # previous, NEW q \in PlayersIn(s, g) PROVE wt[q] = worn[q]
    BY <1>14, <2>3, <2>4, <2>7
  <2>8. ASSUME NEW g \in Factions, g # previous PROVE Coloured(PlayersIn(t, g), wt)
    <3>1. PlayersIn(t, g) = PlayersIn(s, g)
      BY <1>13, <1>19, <2>8
    <3>. QED  BY <2>2, <2>7, <2>8, <3>1, ColouredAlone
  <2>9. ASSUME previous \in Factions PROVE Coloured(PlayersIn(t, previous), wt)
    <3>1. PlayersIn(t, previous) = PlayersIn(s, previous) \ {p} /\ Coloured(PlayersIn(s, previous), worn)
      BY <1>13, <1>19, <2>2, <2>9
    <3>2. CASE /\ \A q \in S : wt[q] = worn[q]
               /\ free \in {NoColor, Excess} \/ \A q \in PlayersIn(s, previous) \ {p} : worn[q] # Excess
      <4>1. Coloured(PlayersIn(s, previous) \ {p}, worn)
        BY <1>11, <3>1, <3>2, TeamIsLeft
      <4>2. \A q \in PlayersIn(s, previous) \ {p} : wt[q] = worn[q]
        BY <2>6, <3>2
      <4>. QED  BY <3>1, <4>1, <4>2, ColouredAlone
    <3>3. CASE \E heir \in PlayersIn(s, previous) \ {p} :
                 /\ free \in PlayerColors /\ worn[heir] = Excess
                 /\ wt[heir] = free /\ \A q \in S \ {heir} : wt[q] = worn[q]
      <4>1. PICK heir \in PlayersIn(s, previous) \ {p} :
                 /\ free \in PlayerColors /\ worn[heir] = Excess
                 /\ wt[heir] = free /\ \A q \in S \ {heir} : wt[q] = worn[q]
        BY <3>3
      <4>2. \A q \in PlayersIn(s, previous) \ {p, heir} : wt[q] = worn[q]
        BY <2>6, <4>1
      <4>. QED  BY <1>11, <1>13, <3>1, <4>1, <4>2, ColorIsInherited
    <3>. QED  BY <1>14, <3>2, <3>3
  <2>10. ASSUME NEW q \in PlayersIn(t, "SPECTATOR") PROVE wt[q] = NoColor
    <3>1. CASE previous = "SPECTATOR"
      <4>1. free = NoColor /\ NoColor \notin PlayerColors /\ q \in S
        BY <1>11, <1>13, <1>15, <2>2, <3>1, <2>10, BombAssumption DEF PlayersIn
      <4>2. q \in PlayersIn(s, "SPECTATOR")
        BY <1>13, <1>19, <2>10, <3>1
      <4>. QED  BY <1>14, <2>2, <4>1, <4>2
    <3>2. CASE previous # "SPECTATOR"
      <4>1. q \in PlayersIn(s, "SPECTATOR")
        BY <1>13, <1>19, <2>10, <3>2
      <4>. QED  BY <2>2, <2>7, <3>2, <4>1
    <3>. QED  BY <3>1, <3>2
  <2>11. \A g \in Factions : Coloured(PlayersIn(t, g), wt)
    BY <2>8, <2>9
  <2>12. \A q \in PlayersIn(t, "SPECTATOR") : t.players[q].color = NoColor
    BY <2>5, <2>10
  <2>. QED  BY <2>11, <2>12 DEF ColorsKept, wt
<1>21. LimitKept(t)
  <2>1. SUFFICES ASSUME ~Scrambling, rules.max_players_per_team # 0, NEW g \in Factions
                 PROVE  Cardinality(PlayersIn(t, g)) <= rules.max_players_per_team
    BY DEF LimitKept
  <2>2. Cardinality(PlayersIn(s, g)) <= rules.max_players_per_team
    BY <1>1, <2>1 DEF SeatsKept, LimitKept
  <2>3. IsFiniteSet(PlayersIn(s, g)) /\ Cardinality(PlayersIn(s, g)) \in Nat
        /\ rules.max_players_per_team \in Nat
    BY <1>1, TeamsAreFinite, RulesFit
  <2>4. PlayersIn(t, g) \subseteq PlayersIn(s, g)
    BY <1>13, <1>19
  <2>5. Cardinality(PlayersIn(t, g)) <= Cardinality(PlayersIn(s, g)) /\ Cardinality(PlayersIn(t, g)) \in Nat
    BY <2>3, <2>4, FS_Subset, FS_CardinalityType
  <2>. QED  BY <2>2, <2>3, <2>5
<1>. QED  BY <1>17, <1>18, <1>20, <1>21 DEF SeatsKept

(* add_or_remove_players(). *)
LEMMA PlayersComeAndGo ==
  ASSUME NEW s, Early(s), NEW in \in Inputs, NEW t \in AddOrRemovePlayers(s, in)
  PROVE  Early(t) /\ Leads(s, t)
<1>1. CASE in.kind = "added"
  <2>1. in.id \in Ids
    BY <1>1, BombAssumption DEF Inputs
  <2>2. CASE in.id \in Seated(s)
    BY <1>1, <2>2 DEF AddOrRemovePlayers, Leads
  <2>3. CASE in.id \notin Seated(s)
    <3>1. t = AddPlayer(s, in.id)
      BY <1>1, <2>3 DEF AddOrRemovePlayers
    <3>2. Kin(s, t) /\ SeatsKept(t)
      BY <2>1, <2>3, <3>1, PlayerIsAdded
    <3>. QED  BY <3>2, EarlyKin
  <2>. QED  BY <2>2, <2>3
<1>2. CASE in.kind = "removed" /\ in.id \in Seated(s)
  <2>1. t \in RemovePlayer(s, in.id)
    BY <1>2 DEF AddOrRemovePlayers
  <2>2. Kin(s, t) /\ SeatsKept(t)
    BY <1>2, <2>1, PlayerIsRemoved
  <2>. QED  BY <2>2, EarlyKin
<1>3. CASE in.kind # "added" /\ ~(in.kind = "removed" /\ in.id \in Seated(s))
  BY <1>3 DEF AddOrRemovePlayers, Leads
<1>. QED  BY <1>1, <1>2, <1>3

(* Teams that are scrambled are teams. *)
LEMMA TeamsAreScrambled ==
  ASSUME NEW s \in Mode, NEW a \in [Seated(s) -> Factions]
  PROVE  ForEachPlayer(s, LAMBDA p, player : [player EXCEPT !.faction = a[p]]) \in Mode
<1>. DEFINE r == [p \in Seated(s) |-> [s.players[p] EXCEPT !.faction = a[p]]]
<1>1. ASSUME NEW v \in Player, NEW f \in Factions PROVE [v EXCEPT !.faction = f] \in Player
  BY DEF Player, Sides
<1>2. r \in [Seated(s) -> Player]
  BY <1>1, ModeHasPlayers
<1>. HIDE DEF r
<1>3. [s EXCEPT !.players = r] \in Mode
  BY <1>2, Manned, ModeHasPlayers
<1>. QED  BY <1>3 DEF ForEachPlayer, r

(* handle_special_commands(): each of them sets up a round anew. *)
LEMMA SpecialCommandsAreHandled ==
  ASSUME NEW s, Early(s), NEW in \in Inputs, NEW t \in HandleSpecialCommands(s, in)
  PROVE  Early(t) /\ Leads(s, t)
<1>0. s \in Mode /\ ColorsKept(s) /\ LimitKept(s)
  BY DEF Early, Whole, SeatsKept
<1>1. CASE in.kind = "RESTART_MATCH"
  <2>1. t = Restart(s)
    BY <1>1 DEF HandleSpecialCommands
  <2>. QED  BY <1>0, <2>1, RestartOpens, OpenedIsAwake DEF Opened, Leads
<1>2. CASE in.kind = "RESTART_MATCH_NO_WARMUP"
  <2>1. t = EndWarmupAndGoLive(Restart(s))
    BY <1>2 DEF HandleSpecialCommands
  <2>2. Opened(Restart(s))
    BY <1>0, RestartOpens
  <2>3. Opened(t)
    BY <2>1, <2>2, WarmupEnds DEF Opened, EndWarmupAndGoLive
  <2>. QED  BY <2>3, OpenedIsAwake DEF Opened, Leads
<1>3. CASE in.kind = "SWAP_TEAMS"
  <2>1. t = Restart(SwapAssignedFactions(s))
    BY <1>3 DEF HandleSpecialCommands
  <2>2. Opened(t)
    BY <1>0, <2>1, SidesAreSwapped, RestartOpens
  <2>. QED  BY <2>2, OpenedIsAwake DEF Opened, Leads
<1>4. CASE in.kind = "SCRAMBLE_TEAMS"
  <2>1. Scrambling
    BY <1>4 DEF Inputs, Scrambling
  <2>2. PICK a \in Balanced(s) :
          t = Restart(ForEachPlayer(s, LAMBDA p, player : [player EXCEPT !.faction = a[p]]))
    BY <1>4 DEF HandleSpecialCommands
  <2>. DEFINE x == ForEachPlayer(s, LAMBDA p, player : [player EXCEPT !.faction = a[p]])
  <2>3. x \in Mode
    BY <1>0, TeamsAreScrambled DEF Balanced
  <2>4. ColorsKept(x) /\ LimitKept(x)
    BY <2>1 DEF ColorsKept, LimitKept
  <2>5. t = Restart(x)
    BY <2>2
  <2>. HIDE DEF x
  <2>6. Opened(t)
    BY <2>3, <2>4, <2>5, RestartOpens
  <2>. QED  BY <2>6, OpenedIsAwake DEF Opened, Leads
<1>5. CASE in.kind \notin {"RESTART_MATCH", "RESTART_MATCH_NO_WARMUP", "SWAP_TEAMS", "SCRAMBLE_TEAMS"}
  BY <1>5 DEF HandleSpecialCommands, Leads
<1>. QED  BY <1>1, <1>2, <1>3, <1>4, <1>5

(* spawn_characters_for_recently_assigned(): latecomers get characters as  *)
(* frozen as the phase wants them, at this second.                         *)
LEMMA LatecomersAreDrowsy ==
  ASSUME NEW s, Early(s)
  PROVE  LET t == SpawnCharactersForRecentlyAssigned(s)
         IN  Early(t) /\ Leads(s, t)
<1>. DEFINE t == SpawnCharactersForRecentlyAssigned(s)
<1>1. s \in Mode /\ Whole(s)
  BY DEF Early, Whole
<1>2. CASE s.state \notin {"WARMUP", "LIVE"}
  <2>1. t = s
    BY <1>2 DEF SpawnCharactersForRecentlyAssigned
  <2>. QED  BY <2>1 DEF Leads
<1>3. CASE s.state \in {"WARMUP", "LIVE"}
  <2>1. Recast({BornFrozen(s)}, s, t)
    BY <1>1, LatecomersRecast
  <2>. HIDE DEF t
  <2>2. /\ t.state = s.state /\ t.now = s.now /\ t.frozen = s.frozen /\ t.bomb = s.bomb
    BY <1>1, <2>1, RecastFields
  <2>3. Whole(t)
    BY <1>1, <2>1, RecastWhole
  <2>4. BornFrozen(t) = BornFrozen(s)
    BY <2>2 DEF BornFrozen, FreezeLeft, WarmupLeft
  <2>5. ASSUME NEW p \in Seated(t)
        PROVE  Stands(t, p, t.frozen) \/ (t.state \in {"LIVE", "WARMUP"} /\ Stands(t, p, BornFrozen(t)))
    <3>1. p \in Seated(s) /\ Becomes({BornFrozen(s)}, s.players[p], t.players[p])
      BY <2>1 DEF Recast
    <3>2. Stands(s, p, s.frozen) \/ Stands(s, p, BornFrozen(s))
      BY <3>1 DEF Early, Drowsy
    <3>. HIDE DEF t
    <3>. QED  BY <1>3, <2>2, <2>4, <3>1, <3>2 DEF Becomes, Stands
  <2>6. \E n \in {t.now - 1, t.now} : FlagAt(t, n)
    BY <2>2 DEF Early, Drowsy, FlagAt
  <2>7. Due(t)
    BY <2>2 DEF Early, Due, BombPlanted
  <2>. QED  BY <2>2, <2>3, <2>5, <2>6, <2>7 DEF Early, Drowsy, Leads, t
<1>. QED  BY <1>2, <1>3

(* handle_game_commencing(): only a restart at its end touches the match.  *)
LEMMA GameCommences ==
  ASSUME NEW s, Early(s)
  PROVE  LET t == HandleGameCommencing(s)
         IN  Early(t) /\ Leads(s, t)
<1>1. s \in Mode /\ SeatsKept(s) /\ s.commencing \in Int /\ rules.game_commencing_seconds \in Int
  BY RulesFit DEF Early, Whole, Mode
<1>2. ASSUME NEW c \in Int, NEW b \in BOOLEAN, NEW t, t = [s EXCEPT !.commencing = c, !.should_commence = b]
      PROVE  t \in Mode /\ SeatsKept(t) /\ Early(t) /\ Leads(s, t)
  <2>1. /\ t \in Mode /\ t.players = s.players /\ t.history = s.history
        /\ t.state = s.state /\ t.now = s.now /\ t.frozen = s.frozen /\ t.score = s.score /\ t.bomb = s.bomb
    BY <1>1, <1>2 DEF Mode
  <2>2. SameSeats(s, t) /\ Kin(s, t)
    BY <2>1 DEF SameSeats, SameSides, Seated, Kin
  <2>3. SeatsKept(t)
    BY <1>1, <2>2, SeatsAlone
  <2>. QED  BY <2>1, <2>2, <2>3, EarlyKin
<1>3. s.should_commence \in BOOLEAN
  BY <1>1 DEF Mode
<1>4. \A c \in Int : [s EXCEPT !.commencing = c] = [s EXCEPT !.commencing = c, !.should_commence = s.should_commence]
  BY <1>1 DEF Mode
<1>5. \A b \in BOOLEAN : [s EXCEPT !.should_commence = b] = [s EXCEPT !.commencing = s.commencing, !.should_commence = b]
  BY <1>1 DEF Mode
<1>6. \A c \in Int : LET t == [s EXCEPT !.commencing = c] IN Early(t) /\ Leads(s, t)
  BY <1>2, <1>3, <1>4
<1>7. LET t == [s EXCEPT !.should_commence = TRUE] IN Early(t) /\ Leads(s, t)
  BY <1>1, <1>2, <1>5
<1>8. LET t == [s EXCEPT !.commencing = rules.game_commencing_seconds, !.should_commence = FALSE]
      IN Early(t) /\ Leads(s, t)
  BY <1>1, <1>2
<1>9. LET t == Restart([s EXCEPT !.commencing = -1]) IN Early(t) /\ Leads(s, t)
  <2>1. LET t == [s EXCEPT !.commencing = -1] IN t \in Mode /\ SeatsKept(t)
    <3>. DEFINE t == [s EXCEPT !.commencing = -1]
    <3>. DEFINE none == -1
    <3>0. none \in Int
      OBVIOUS
    <3>. HIDE DEF none
    <3>1. t = [s EXCEPT !.commencing = none, !.should_commence = s.should_commence]
      BY <1>4, <3>0 DEF none
    <3>. HIDE DEF t
    <3>2. t \in Mode /\ SeatsKept(t)
      BY <1>2, <1>3, <3>0, <3>1
    <3>. QED  BY <3>2 DEF t
  <2>2. Opened(Restart([s EXCEPT !.commencing = -1]))
    BY <2>1, RestartOpens DEF SeatsKept
  <2>. QED  BY <2>2, OpenedIsAwake DEF Opened, Leads
<1>10. Leads(s, s)
  BY DEF Leads
<1>11. /\ [s EXCEPT !.commencing = -1] = [s EXCEPT !.commencing = -1]
       /\ s.commencing - 1 \in Int /\ -1 \in Int
  BY <1>1
<1>12. \/ HandleGameCommencing(s) = [s EXCEPT !.commencing = -1]
       \/ HandleGameCommencing(s) = [s EXCEPT !.commencing = s.commencing - 1]
       \/ HandleGameCommencing(s) = Restart([s EXCEPT !.commencing = -1])
       \/ HandleGameCommencing(s) = [s EXCEPT !.should_commence = TRUE]
       \/ HandleGameCommencing(s) = [s EXCEPT !.commencing = rules.game_commencing_seconds,
                                              !.should_commence = FALSE]
       \/ HandleGameCommencing(s) = s
  BY DEF HandleGameCommencing
<1>. QED  BY <1>6, <1>7, <1>8, <1>9, <1>10, <1>11, <1>12

(* What holds of the mode between steps. *)
Kept(s) == Whole(s) /\ PostureKept(s) /\ ClockKept(s)

(* Between two steps the clock is a second behind. *)
LEMMA ClockTicks ==
  ASSUME NEW s, Kept(s)
  PROVE  LET t == [s EXCEPT !.now = @ + 1]
         IN  /\ Whole(t) /\ t.state = s.state /\ t.bomb = s.bomb
             /\ s.state # "INIT" => Early(t)
<1>. DEFINE t == [s EXCEPT !.now = @ + 1]
<1>1. s \in Mode /\ Whole(s) /\ s.now \in Nat
  BY DEF Kept, Whole, Mode
<1>2. /\ t \in Mode /\ t.now = s.now + 1 /\ t.players = s.players /\ t.history = s.history
      /\ t.state = s.state /\ t.frozen = s.frozen /\ t.score = s.score /\ t.bomb = s.bomb
  BY <1>1 DEF Mode
<1>. HIDE DEF t
<1>3. Whole(t)
  <2>1. SameSeats(s, t) /\ SameScore(s, t)
    BY <1>2 DEF SameSeats, SameSides, Seated, SameScore
  <2>. QED  BY <1>1, <1>2, <2>1, SeatsAlone, ScoreAlone DEF Whole
<1>4. Drowsy(t)
  <2>1. t.now - 1 = s.now
    BY <1>1, <1>2
  <2>2. FlagAt(t, t.now - 1)
    BY <1>2, <2>1 DEF Kept, PostureKept, FlagAt
  <2>3. \A p \in Seated(t) : Stands(t, p, t.frozen)
    BY <1>2 DEF Kept, PostureKept, Seated, Stands
  <2>. QED  BY <2>2, <2>3 DEF Drowsy
<1>5. Due(t)
  <2>1. ASSUME t.state = "LIVE", BombPlanted(t)
        PROVE  /\ t.bomb.when_armed < rules.freeze_secs + rules.round_secs
               /\ t.now <= t.bomb.when_armed + rules.fuse_delay
    <3>1. s.bomb.when_armed < rules.freeze_secs + rules.round_secs
            /\ s.now < s.bomb.when_armed + rules.fuse_delay
      BY <1>2, <2>1 DEF Kept, ClockKept, BombPlanted
    <3>2. s.bomb.when_armed \in Nat /\ rules.fuse_delay \in Nat
      BY <1>1, RulesFit DEF Mode, Bomb
    <3>. QED  BY <1>1, <1>2, <3>1, <3>2
  <2>. QED  BY <2>1 DEF Due
<1>. QED  BY <1>2, <1>3, <1>4, <1>5 DEF Early, t

(* mode_pre_solve(): the mode that the solver is given is awake; a bomb    *)
(* that was defused in a round that went on has cost it its end, unless    *)
(* who defused it has left.                                                *)
LEMMA ModeIsPreSolved ==
  ASSUME NEW s, Kept(s), NEW in \in Inputs, NEW t \in ModePreSolve([s EXCEPT !.now = @ + 1], in)
  PROVE  /\ Awake(t)
         /\ s.state = "LIVE" /\ s.bomb.state = "defused" =>
              \/ NoBombYet(t)
              \/ t.bomb.state = "defused" /\ (t.bomb.defuser # NoId => t.last_win.winner = "DEFUSING")
<1>. DEFINE x == [s EXCEPT !.now = @ + 1]
            begun == IF x.state = "INIT" THEN Restart(x) ELSE x
<1>1. Whole(x) /\ x.state = s.state /\ x.bomb = s.bomb /\ (s.state # "INIT" => Early(x))
  BY ClockTicks
<1>. HIDE DEF x
<1>2. Early(begun) /\ Leads(x, begun)
  <2>1. CASE x.state = "INIT"
    <3>1. Opened(Restart(x))
      BY <1>1, RestartOpens DEF Whole, SeatsKept
    <3>. QED  BY <2>1, <3>1, OpenedIsAwake DEF Opened, Leads
  <2>2. CASE x.state # "INIT"
    BY <1>1, <2>2 DEF Leads
  <2>. QED  BY <2>1, <2>2
<1>3. PICK u \in UNION {HandleSpecialCommands(y, in) : y \in AddOrRemovePlayers(begun, in)} :
        t = AdvanceState(HandleGameCommencing(SpawnCharactersForRecentlyAssigned(u)))
  BY DEF ModePreSolve, x
<1>4. PICK y \in AddOrRemovePlayers(begun, in) : u \in HandleSpecialCommands(y, in)
  OBVIOUS
<1>. HIDE DEF begun
<1>5. Early(y) /\ Leads(begun, y)
  BY <1>2, PlayersComeAndGo
<1>6. Early(u) /\ Leads(y, u)
  BY <1>4, <1>5, SpecialCommandsAreHandled
<1>. DEFINE v == SpawnCharactersForRecentlyAssigned(u)
            w == HandleGameCommencing(v)
<1>7. Early(v) /\ Leads(u, v)
  BY <1>6, LatecomersAreDrowsy
<1>. HIDE DEF v
<1>8. Early(w) /\ Leads(v, w)
  BY <1>7, GameCommences
<1>9. t = AdvanceState(w)
  BY <1>3 DEF v
<1>. HIDE DEF w
<1>10. /\ Awake(t) /\ (t.bomb = w.bomb \/ NoBombYet(t))
       /\ w.state = "LIVE" /\ w.bomb.state = "defused" /\ w.bomb.defuser # NoId =>
            t.last_win.winner = "DEFUSING"
  BY <1>8, <1>9, StateAdvances
<1>11. Leads(x, w)
  BY <1>2, <1>5, <1>6, <1>7, <1>8, LeadsOn
<1>12. ASSUME s.state = "LIVE", s.bomb.state = "defused"
       PROVE  \/ NoBombYet(t)
              \/ t.bomb.state = "defused" /\ (t.bomb.defuser # NoId => t.last_win.winner = "DEFUSING")
  <2>1. NoBombYet(w) \/ (w.state = "LIVE" /\ w.bomb.state = "defused")
    BY <1>1, <1>11, <1>12 DEF Leads
  <2>. QED  BY <1>10, <2>1 DEF NoBombYet
<1>. QED  BY <1>10, <1>12

-----------------------------------------------------------------------------
(* The solver. *)

(* The bomb changes hands or state, somebody falls or is paid: what holds  *)
(* between steps does so again, if a bomb that is armed has time left.     *)
LEMMA SolverKeeps ==
  ASSUME NEW s, Awake(s), NEW u \in Mode, u = [s EXCEPT !.bomb = u.bomb, !.planter = u.planter],
         NEW t, Recast({}, u, t),
         s.state = "LIVE" /\ BombPlanted(u) =>
           /\ u.bomb.when_armed < rules.freeze_secs + rules.round_secs
           /\ s.now < u.bomb.when_armed + rules.fuse_delay
  PROVE  Kept(t) /\ t.bomb = u.bomb /\ t.state = s.state /\ t.last_win = s.last_win
<1>1. s \in Mode /\ Whole(s) /\ Ready(s) /\ PostureKept(s) /\ s.now \in Nat
  BY DEF Awake, Whole, Mode
<1>2. /\ u.players = s.players /\ u.history = s.history /\ u.now = s.now
      /\ u.state = s.state /\ u.frozen = s.frozen /\ u.score = s.score /\ u.last_win = s.last_win
  BY <1>1 DEF Mode
<1>3. Whole(u)
  <2>1. SameSeats(s, u) /\ SameScore(s, u)
    BY <1>2 DEF SameSeats, SameSides, Seated, SameScore
  <2>. QED  BY <1>1, <1>2, <2>1, SeatsAlone, ScoreAlone DEF Whole
<1>4. Whole(t) /\ t.state = s.state /\ t.now = s.now /\ t.frozen = s.frozen /\ t.bomb = u.bomb
      /\ t.last_win = s.last_win
  BY <1>2, <1>3, RecastWhole, RecastFields
<1>5. PostureKept(t)
  <2>1. \A p \in Seated(u) : Stands(u, p, s.frozen)
    BY <1>1, <1>2 DEF PostureKept, Seated, Stands
  <2>2. \A p \in Seated(t) : Stands(t, p, s.frozen)
    BY <2>1, RecastStands
  <2>. QED  BY <1>1, <1>4, <2>2 DEF PostureKept, FlagAt
<1>6. s.state = "LIVE" => s.now < rules.freeze_secs + rules.round_secs + rules.fuse_delay
  <2>1. s.bomb.when_armed \in Nat
    BY <1>1 DEF Mode, Bomb
  <2>. QED  BY <1>1, <2>1, RulesFit DEF Ready, Due
<1>7. ClockKept(t)
  BY <1>1, <1>4, <1>6 DEF ClockKept, Ready, BombPlanted, SinceWin
<1>. QED  BY <1>4, <1>5, <1>7 DEF Kept

(* The solver: the bomb goes off when it is due, or is armed in time; the  *)
(* phase, and what was decided, stay as they were.                         *)
LEMMA StepIsSolved ==
  ASSUME NEW s, Awake(s), NEW idle \in BOOLEAN, NEW t \in Solve(s, idle)
  PROVE  /\ Kept(t) /\ t.state = s.state /\ t.last_win = s.last_win
         /\ s.bomb.state # "armed" => t.bomb.defuser \in {s.bomb.defuser, NoId}
<1>1. s \in Mode /\ Ready(s) /\ s.now \in Nat /\ s.bomb \in Bomb /\ s.planter \in AnyId
      /\ s.bomb.when_armed \in Nat
  BY DEF Awake, Whole, Mode, Bomb
<1>2. s = [s EXCEPT !.bomb = s.bomb, !.planter = s.planter]
  BY <1>1 DEF Mode
<1>3. Conscious(s) \subseteq Seated(s) /\ Seated(s) \subseteq Ids
  BY <1>1, ModeHasPlayers DEF Conscious
<1>4. ASSUME ~FuseIsUp(s), NEW x, Recast({}, s, x)
      PROVE  Kept(x) /\ x.state = s.state /\ x.last_win = s.last_win /\ x.bomb = s.bomb
  <2>1. s.state = "LIVE" /\ BombPlanted(s) =>
          s.bomb.when_armed < rules.freeze_secs + rules.round_secs
            /\ s.now < s.bomb.when_armed + rules.fuse_delay
    BY <1>1, <1>4, RulesFit DEF FuseIsUp, Ready, Due, BombPlanted
  <2>. QED  BY <1>1, <1>2, <1>4, <2>1, SolverKeeps
<1>5. ASSUME NEW x \in Defusals(s)
      PROVE  Kept(x) /\ x.state = s.state /\ x.last_win = s.last_win /\ s.bomb.state = "armed"
  <2>1. PICK p \in Conscious(s) :
          /\ BombPlanted(s)
          /\ \/ x = Defuse(s, p)
             \/ \E v \in Conscious(s), k \in Conscious(s) : x = Die(Defuse(s, p), v, k)
    BY <1>5 DEF Defusals
  <2>. DEFINE b == [s.bomb EXCEPT !.state = "defused", !.defuser = p]
              u == [s EXCEPT !.bomb = b]
  <2>2. b \in Bomb /\ b.state = "defused"
    BY <1>1, <1>3, <2>1 DEF Bomb, AnyId
  <2>3. Defuse(s, p) = u
    BY DEF Defuse
  <2>. HIDE DEF b
  <2>4. /\ u = [s EXCEPT !.bomb = u.bomb, !.planter = u.planter]
        /\ u \in Mode /\ Seated(u) = Seated(s) /\ ~BombPlanted(u)
    BY <1>1, <2>2 DEF Mode, Seated, BombPlanted
  <2>. HIDE DEF u
  <2>5. Recast({}, u, x)
    BY <1>3, <2>1, <2>3, <2>4, RecastNone, DieRecasts
  <2>6. Kept(x) /\ x.state = s.state /\ x.last_win = s.last_win
    BY <2>4, <2>5, SolverKeeps
  <2>. QED  BY <2>1, <2>6 DEF BombPlanted
<1>6. ASSUME FuseIsUp(s), NEW victims \in Victims(s)
      PROVE  LET x == Explode(s, victims)
             IN  Kept(x) /\ x.state = s.state /\ x.last_win = s.last_win /\ s.bomb.state = "armed"
  <2>. DEFINE b == [s.bomb EXCEPT !.state = "gone"]
              u == [s EXCEPT !.bomb = b]
  <2>1. victims \in Seq(Seated(s))
    <3>1. PICK m \in Nat : victims \in [1..m -> Conscious(s)]
      BY <1>6 DEF Victims, BoundedSeq, SeqOf
    <3>. QED  BY <1>3, <3>1
  <2>2. Recast({}, u, Explode(s, victims)) /\ u \in Mode
    BY <1>1, <2>1, ExplosionRecasts
  <2>3. b \in Bomb /\ b.state = "gone"
    BY <1>1 DEF Bomb
  <2>. HIDE DEF b
  <2>4. u = [s EXCEPT !.bomb = u.bomb, !.planter = u.planter] /\ ~BombPlanted(u)
    BY <1>1, <2>3 DEF Mode, BombPlanted
  <2>. HIDE DEF u
  <2>5. LET x == Explode(s, victims) IN Kept(x) /\ x.state = s.state /\ x.last_win = s.last_win
    BY <2>2, <2>4, SolverKeeps
  <2>. QED  BY <1>6, <2>5 DEF FuseIsUp, BombPlanted
<1>7. ASSUME NEW p \in Conscious(s), s.bomb.state = "idle"
      PROVE  LET x == Arm(s, p)
             IN  Kept(x) /\ x.state = s.state /\ x.last_win = s.last_win /\ x.bomb.defuser = NoId
  <2>. DEFINE b == [state |-> "armed", when_armed |-> s.now, defuser |-> NoId, sender |-> p]
              u == [s EXCEPT !.bomb = b, !.planter = p]
              x == PostAward(u, p, rules.bomb_plant_award)
  <2>1. b \in Bomb /\ b.when_armed = s.now /\ b.defuser = NoId /\ p \in AnyId
    BY <1>1, <1>3 DEF Bomb, AnyId
  <2>2. Arm(s, p) = x
    BY DEF Arm
  <2>. HIDE DEF b
  <2>3. u \in Mode /\ u.bomb = b /\ u = [s EXCEPT !.bomb = u.bomb, !.planter = u.planter]
    BY <1>1, <2>1 DEF Mode
  <2>. HIDE DEF u
  <2>4. Recast({}, u, x)
    BY <2>3, AwardRecasts, BombAssumption
  <2>5. s.state = "LIVE" => b.when_armed < rules.freeze_secs + rules.round_secs
                              /\ s.now < b.when_armed + rules.fuse_delay
    BY <1>1, <1>7, <2>1, RulesFit DEF Ready, BombPlanted
  <2>. HIDE DEF x
  <2>6. Kept(x) /\ x.bomb = u.bomb /\ x.state = s.state /\ x.last_win = s.last_win
    BY <2>3, <2>4, <2>5, SolverKeeps
  <2>. QED  BY <2>1, <2>2, <2>3, <2>6
<1>8. CASE FuseIsUp(s)
  <2>1. t \in Defusals(s) \/ \E v \in Victims(s) : t = Explode(s, v)
    BY <1>8 DEF Solve
  <2>. QED  BY <1>5, <1>6, <1>8, <2>1
<1>9. CASE ~FuseIsUp(s)
  <2>1. \/ t = s
        \/ \E p \in Conscious(s), k \in Conscious(s) : t = Die(s, p, k)
        \/ s.bomb.state = "idle" /\ \E p \in Conscious(s) : t = Arm(s, p)
        \/ t \in Defusals(s)
    BY <1>9 DEF Solve
  <2>2. CASE t = s
    BY <1>1, <1>4, <1>9, <2>2, RecastNone
  <2>3. CASE \E p \in Conscious(s), k \in Conscious(s) : t = Die(s, p, k)
    BY <1>1, <1>3, <1>4, <1>9, <2>3, DieRecasts
  <2>4. CASE s.bomb.state = "idle" /\ \E p \in Conscious(s) : t = Arm(s, p)
    BY <1>7, <2>4
  <2>5. CASE t \in Defusals(s)
    BY <1>5, <2>5
  <2>. QED  BY <2>1, <2>2, <2>3, <2>4, <2>5
<1>. QED  BY <1>8, <1>9

(* A step of the mode. *)
LEMMA StepKeeps ==
  ASSUME NEW s, Kept(s), NEW in \in Inputs,
         NEW ready \in ModePreSolve([s EXCEPT !.now = @ + 1], in),
         NEW commanded \in ExecutePlayerCommands(ready, in),
         NEW t \in Solve(commanded, in.kind = "nothing")
  PROVE  /\ Kept(t)
         /\ s.bomb.state = "defused" /\ s.state = "LIVE" /\ t.bomb.defuser # NoId =>
              t.last_win.winner = "DEFUSING"
<1>1. /\ Awake(ready)
      /\ s.state = "LIVE" /\ s.bomb.state = "defused" =>
           \/ NoBombYet(ready)
           \/ ready.bomb.state = "defused" /\ (ready.bomb.defuser # NoId => ready.last_win.winner = "DEFUSING")
  BY ModeIsPreSolved
<1>2. Awake(commanded) /\ commanded.bomb = ready.bomb /\ commanded.last_win = ready.last_win
  BY <1>1, CommandsAreExecuted
<1>3. /\ Kept(t) /\ t.last_win = commanded.last_win
      /\ commanded.bomb.state # "armed" => t.bomb.defuser \in {commanded.bomb.defuser, NoId}
  BY <1>2, StepIsSolved
<1>. QED  BY <1>1, <1>2, <1>3 DEF NoBombYet

-----------------------------------------------------------------------------
(* Another arena. *)

Migrations == INSTANCE SeqFolds WITH Op <- MigratePlayer

(* The side of a player in the new arena. *)
SideOf(s, mapping, q) == Entry(s, mapping, q).faction

(* A match that has not begun. *)
Blank(x) ==
  /\ x \in Mode /\ x.state = "INIT"
  /\ \A f \in Factions : x.score[f] = 0
  /\ x.history.won = [team \in 1..2 |-> 0] /\ x.history.bombing = 1 /\ x.history.started = 0

(* When the first k ids have been looked at: those of them who were there  *)
(* are seated where the mapping wants them.                                *)
Moved(s, mapping, x, k) ==
  /\ Blank(x)
  /\ \A q \in Seated(x) : /\ q \in Seated(s) /\ q < k
                          /\ x.players[q].faction = SideOf(s, mapping, q)
                          /\ x.players[q].character = NoCharacter
  /\ TeamsKept(x)
  /\ \A f \in Factions : Coloured(PlayersIn(x, f), ColorsOf(x))
  /\ \A q \in PlayersIn(x, "SPECTATOR") : ColorsOf(x)[q] = NoColor

(* The mode begins without players. *)
LEMMA FreshIsBlank ==
  ASSUME NEW maps \in Nat
  PROVE  LET x == Fresh(NewHistory(maps))
         IN  /\ Blank(x) /\ Seated(x) = {} /\ TeamsKept(x)
<1>. DEFINE history == NewHistory(maps)
            none == [p \in {} |-> NewPlayer]
            x == Fresh(history)
<1>1. /\ history \in History /\ history.won = [team \in 1..2 |-> 0] /\ history.bombing = 1
      /\ history.started = 0 /\ \A p \in Ids : history.team[p] = 0
  <2>1. [p \in Ids |-> 0] \in [Ids -> 0..2] /\ [team \in 1..2 |-> 0] \in [1..2 -> Nat]
    OBVIOUS
  <2>. QED  BY <2>1 DEF NewHistory, History
<1>2. none \in Rosters /\ DOMAIN none = {}
  <2>1. none \in [{} -> Player]
    OBVIOUS
  <2>. QED  BY <2>1 DEF Rosters
<1>3. [f \in Factions |-> 0] \in Points /\ NoWin \in Win /\ NoBomb \in Bomb /\ NoId \in AnyId
  BY DEF Points, NoWin, Win, NoBomb, Bomb, AnyId, Sides, NoId
<1>. HIDE DEF history, none
<1>4. x = [state |-> "INIT", now |-> 0, players |-> none,
           score |-> [f \in Factions |-> 0], losses |-> [f \in Factions |-> 0],
           last_win |-> NoWin, planter |-> NoId, frozen |-> FALSE, bomb |-> NoBomb,
           should_commence |-> FALSE, commencing |-> -1, undefined |-> FALSE, history |-> history]
  BY DEF Fresh, none
<1>. HIDE DEF x
<1>5. x \in Mode
  BY <1>1, <1>2, <1>3, <1>4 DEF Mode, Phases
<1>6. x.state = "INIT" /\ x.players = none /\ x.history = history /\ \A f \in Factions : x.score[f] = 0
  BY <1>4
<1>7. Seated(x) = {}
  BY <1>2, <1>6 DEF Seated
<1>8. TeamsKept(x)
  BY <1>1, <1>6, <1>7 DEF TeamsKept
<1>. QED  BY <1>1, <1>5, <1>6, <1>7, <1>8 DEF Blank, x, history

(* One of them takes a seat. *)
LEMMA PlayerMigrates ==
  ASSUME NEW s \in Mode, NEW mapping, NEW k \in Ids, SideOf(s, mapping, k) \in Sides,
         NEW x, Moved(s, mapping, x, k)
  PROVE  Moved(s, mapping, MigratePlayer(x, Entry(s, mapping, k)), k + 1)
<1>. DEFINE e == Entry(s, mapping, k)
            f == SideOf(s, mapping, k)
            t == MigratePlayer(x, e)
<1>1. e.id = k /\ e.moves = (k \in Seated(s)) /\ e.faction = f
  BY DEF Entry, SideOf
<1>2. k \in Int
  BY RulesFit DEF Ids
<1>. HIDE DEF e, f
<1>3. CASE ~e.moves
  <2>1. t = x
    BY <1>3 DEF MigratePlayer
  <2>2. \A q \in Seated(x) : q \in Int
    BY RulesFit, ModeHasPlayers DEF Moved, Blank, Ids
  <2>. QED  BY <1>2, <2>1, <2>2 DEF Moved, e
<1>4. CASE e.moves
  <2>. DEFINE w == [NewPlayer EXCEPT !.faction = f]
              S == Seated(x) \cup {k}
              r == [q \in S |-> IF q = k THEN w ELSE x.players[q]]
              team == [x.history.team EXCEPT ![k] = TeamOn(x.history, f)]
              h == [x.history EXCEPT !.team = team]
              u == [x EXCEPT !.history = h, !.players = r]
              c == FirstFreeColor(u, k)
  <2>1. /\ x \in Mode /\ TeamsKept(x) /\ k \notin Seated(x)
        /\ \A q \in Seated(x) : /\ q \in Seated(s) /\ q \in Int /\ q < k
                                /\ x.players[q].faction = SideOf(s, mapping, q)
                                /\ x.players[q].character = NoCharacter
    BY <1>2, RulesFit, ModeHasPlayers DEF Moved, Blank, Ids
  <2>2. /\ w \in Player /\ w.faction = f /\ w.color = NoColor /\ w.character = NoCharacter
    <3>1. NoCharacter \in Character /\ NoColor \in Worn /\ 0 \in 0..rules.maximum_money
      BY RulesFit DEF NoCharacter, Character, Sides, Worn
    <3>2. w = [faction |-> f, character |-> NoCharacter, color |-> NoColor,
               round_when_chosen_faction |-> -1, money |-> 0]
      BY DEF NewPlayer
    <3>3. f \in Sides
      BY DEF f
    <3>. HIDE DEF w
    <3>. QED  BY <3>1, <3>2, <3>3 DEF Player
  <2>3. t = IF f = "SPECTATOR" THEN u ELSE [u EXCEPT !.players[k].color = c]
    <3>1. [x EXCEPT !.history.team[k] = TeamOn(x.history, f),
                    !.players = [q \in S |-> IF q = k THEN w ELSE x.players[q]]] = u
      OBVIOUS
    <3>. HIDE DEF u
    <3>. QED  BY <1>1, <1>4, <3>1 DEF MigratePlayer
  <2>. HIDE DEF w
  <2>4. S \in SUBSET Ids /\ r \in [S -> Player] /\ r[k] = w /\ \A q \in Seated(x) : r[q] = x.players[q]
    BY <2>1, <2>2, ModeHasPlayers
  <2>5. /\ team \in [Ids -> 0..2] /\ team[k] = TeamOn(x.history, f)
        /\ \A q \in Ids \ {k} : team[q] = x.history.team[q]
    <3>1. TeamOn(x.history, f) \in 0..2
      BY <2>1 DEF TeamOn, Mode, History
    <3>2. PICK old \in [Ids -> 0..2] : old = x.history.team
      BY <2>1 DEF Mode, History
    <3>3. [old EXCEPT ![k] = TeamOn(x.history, f)] \in [Ids -> 0..2]
      BY <3>1
    <3>. QED  BY <3>1, <3>2, <3>3
  <2>. HIDE DEF team
  <2>6. h \in History /\ h.team = team /\ h.bombing = x.history.bombing /\ h.won = x.history.won
        /\ h.started = x.history.started
    BY <2>1, <2>5 DEF Mode, History
  <2>. HIDE DEF r, h
  <2>7. /\ u \in Mode /\ u.players = r /\ u.history = h /\ u.state = x.state /\ u.score = x.score
    <3>1. r \in Rosters
      BY <2>4 DEF Rosters
    <3>. QED  BY <2>1, <2>6, <3>1 DEF Mode
  <2>. HIDE DEF u
  <2>8. Seated(u) = S
    BY <2>4, <2>7 DEF Seated
  <2>9. Blank(u)
    BY <2>6, <2>7 DEF Moved, Blank
  <2>10. TeamsKept(u)
    <3>1. \A g : TeamOn(h, g) = TeamOn(x.history, g)
      BY <2>6 DEF TeamOn
    <3>. QED  BY <2>1, <2>2, <2>4, <2>5, <2>6, <2>7, <2>8, <3>1 DEF TeamsKept
  <2>11. /\ \A g : g # f => PlayersIn(u, g) = PlayersIn(x, g)
         /\ PlayersIn(u, f) = PlayersIn(x, f) \cup {k} /\ k \notin PlayersIn(x, f)
    BY <2>1, <2>2, <2>4, <2>7, <2>8 DEF PlayersIn
  <2>12. /\ \A q \in Seated(x) : ColorsOf(u)[q] = ColorsOf(x)[q]
         /\ ColorsOf(u)[k] = NoColor /\ u.players[k].color = NoColor
    BY <2>2, <2>4, <2>7, <2>8 DEF ColorsOf
  <2>13. \A q \in Seated(u) : /\ q \in Seated(s) /\ q < k + 1
                              /\ u.players[q].faction = SideOf(s, mapping, q)
                              /\ u.players[q].character = NoCharacter
    <3>1. k \in Seated(s) /\ f = SideOf(s, mapping, k)
      BY <1>1, <1>4 DEF f
    <3>. QED  BY <1>2, <2>1, <2>2, <2>4, <2>7, <2>8, <3>1
  <2>14. \A g : PlayersIn(x, g) \subseteq Seated(x)
    BY DEF PlayersIn
  <2>15. CASE f = "SPECTATOR"
    <3>1. t = u
      BY <2>3, <2>15
    <3>2. \A g \in Factions : Coloured(PlayersIn(u, g), ColorsOf(u))
      <4>1. SUFFICES ASSUME NEW g \in Factions PROVE Coloured(PlayersIn(u, g), ColorsOf(u))
        OBVIOUS
      <4>2. PlayersIn(u, g) = PlayersIn(x, g)
        BY <2>11, <2>15 DEF Factions
      <4>3. Coloured(PlayersIn(x, g), ColorsOf(x))
        BY DEF Moved
      <4>. QED  BY <2>12, <2>14, <4>2, <4>3, ColouredAlone
    <3>3. \A q \in PlayersIn(u, "SPECTATOR") : ColorsOf(u)[q] = NoColor
      BY <2>11, <2>12, <2>14, <2>15 DEF Moved
    <3>. QED  BY <2>9, <2>10, <2>13, <3>1, <3>2, <3>3 DEF Moved, e
  <2>16. CASE f # "SPECTATOR"
    <3>1. f \in Factions
      BY <2>16 DEF f, Sides
    <3>2. k \in Seated(u) /\ u.players[k].faction = f
      BY <2>2, <2>4, <2>7, <2>8
    <3>3. /\ c \in Worn
          /\ \/ c = Excess /\ PlayerColors \subseteq {ColorsOf(u)[q] : q \in PlayersIn(x, f)}
             \/ c \in PlayerColors \ {ColorsOf(u)[q] : q \in PlayersIn(x, f)}
      <4>1. PlayersIn(x, f) = PlayersIn(u, u.players[k].faction) \ {k}
        BY <2>11, <3>2
      <4>. QED  BY <2>7, <2>12, <3>2, <4>1, FirstColorIsFree
    <3>. HIDE DEF c
    <3>4. t = [u EXCEPT !.players[k].color = c]
      BY <2>3, <2>16
    <3>5. Dressed(u, t, ColorsOf(t)) /\ ColorsOf(t) = [ColorsOf(u) EXCEPT ![k] = c]
      BY <2>7, <3>2, <3>3, <3>4, OneIsDressed DEF Dressed
    <3>. HIDE DEF t
    <3>6. /\ t \in Mode /\ Seated(t) = Seated(u) /\ t.history = u.history /\ t.state = u.state
          /\ t.score = u.score
          /\ \A q \in Seated(u) : /\ t.players[q].faction = u.players[q].faction
                                  /\ t.players[q].character = u.players[q].character
      BY <2>7, <3>5 DEF Dressed, Mode
    <3>7. Blank(t)
      BY <2>9, <3>6 DEF Blank
    <3>8. TeamsKept(t)
      BY <2>10, <3>6 DEF TeamsKept
    <3>9. \A g : PlayersIn(t, g) = PlayersIn(u, g)
      BY <3>6 DEF PlayersIn
    <3>10. DOMAIN ColorsOf(u) = S
      BY <2>8 DEF ColorsOf
    <3>11. \A q \in Seated(x) : ColorsOf(t)[q] = ColorsOf(x)[q]
      BY <2>1, <2>12, <3>5, <3>10
    <3>12. ColorsOf(t)[k] = c
      BY <3>5, <3>10
    <3>13. {ColorsOf(u)[q] : q \in PlayersIn(x, f)} = {ColorsOf(x)[q] : q \in PlayersIn(x, f)}
      BY <2>12, <2>14
    <3>14. ASSUME NEW g \in Factions PROVE Coloured(PlayersIn(t, g), ColorsOf(t))
      <4>1. Coloured(PlayersIn(x, g), ColorsOf(x))
        BY DEF Moved
      <4>2. \A q \in PlayersIn(x, g) : ColorsOf(t)[q] = ColorsOf(x)[q]
        BY <2>14, <3>11
      <4>3. CASE g = f
        <5>1. Coloured(PlayersIn(x, f) \cup {k}, ColorsOf(t))
          <6>. DEFINE wx == ColorsOf(x)
                      wt == ColorsOf(t)
          <6>1. /\ Coloured(PlayersIn(x, f), wx) /\ k \notin PlayersIn(x, f)
                /\ \A q \in PlayersIn(x, f) : wt[q] = wx[q]
            BY <2>11, <4>1, <4>2, <4>3
          <6>2. \/ wt[k] = Excess /\ PlayerColors \subseteq {wx[q] : q \in PlayersIn(x, f)}
                \/ wt[k] \in PlayerColors \ {wx[q] : q \in PlayersIn(x, f)}
            BY <3>3, <3>12, <3>13
          <6>. HIDE DEF wx, wt
          <6>3. Coloured(PlayersIn(x, f) \cup {k}, wt)
            BY <6>1, <6>2, TeamIsJoined
          <6>. QED  BY <6>3 DEF wt
        <5>. QED  BY <2>11, <3>9, <4>3, <5>1
      <4>4. CASE g # f
        <5>1. PlayersIn(t, g) = PlayersIn(x, g)
          BY <2>11, <3>9, <4>4
        <5>. QED  BY <4>1, <4>2, <5>1, ColouredAlone
      <4>. QED  BY <4>3, <4>4
    <3>15. \A q \in PlayersIn(t, "SPECTATOR") : ColorsOf(t)[q] = NoColor
      BY <2>11, <2>14, <2>16, <3>9, <3>11 DEF Moved
    <3>. QED  BY <2>13, <3>6, <3>7, <3>8, <3>14, <3>15 DEF Moved, t, e
  <2>. QED  BY <2>15, <2>16
<1>. QED  BY <1>3, <1>4

(* Two sides are two. *)
LEMMA TwoSides == Cardinality(Factions) = 2
<1>1. Factions = {"BOMBING"} \cup {"DEFUSING"}
  BY DEF Factions
<1>2. IsFiniteSet({"BOMBING"}) /\ Cardinality({"BOMBING"}) = 1
  BY FS_Singleton
<1>3. Cardinality({"BOMBING"} \cup {"DEFUSING"}) = 1 + 1
  BY <1>2, FS_AddElement
<1>. QED  BY <1>1, <1>3

(* Players of two sides do not end up on one. *)
LEMMA SidesAreMapped ==
  ASSUME NEW s \in Mode, NEW mapping \in FactionMappings(s)
  PROVE  /\ \A q \in Ids : SideOf(s, mapping, q) \in Sides
         /\ \A f \in Factions : \E g \in Factions : \A q \in Seated(s) :
              SideOf(s, mapping, q) = f => s.players[q].faction = g
<1>. DEFINE occupied == {f \in Factions : PlayersIn(s, f) # {}}
<1>1. \A q \in Seated(s) : s.players[q].faction = "SPECTATOR" \/ s.players[q].faction \in occupied
  <2>1. \A q \in Seated(s) : s.players[q].faction \in Sides
    BY ModeHasPlayers DEF Player
  <2>. QED  BY <2>1 DEF Sides, PlayersIn
<1>2. \A q : SideOf(s, mapping, q) =
        IF q \notin Seated(s) \/ s.players[q].faction = "SPECTATOR" THEN "SPECTATOR"
        ELSE mapping[s.players[q].faction]
  BY DEF SideOf, Entry
<1>3. CASE Cardinality(occupied) < 2
  <2>1. mapping = [f \in occupied |-> "BOMBING"]
    BY <1>3 DEF FactionMappings
  <2>2. occupied # Factions
    BY <1>3, TwoSides
  <2>3. PICK g \in Factions : occupied \subseteq {g}
    BY <2>2 DEF Factions
  <2>. HIDE DEF occupied
  <2>4. \A q \in Seated(s) : SideOf(s, mapping, q) =
          IF s.players[q].faction = "SPECTATOR" THEN "SPECTATOR" ELSE "BOMBING"
    BY <1>1, <1>2, <2>1
  <2>. QED  BY <1>1, <1>2, <2>3, <2>4 DEF Sides, Factions
<1>4. CASE ~(Cardinality(occupied) < 2)
  <2>1. mapping = [f \in Factions |-> f] \/ mapping = [f \in Factions |-> Other(f)]
    BY <1>4 DEF FactionMappings
  <2>2. occupied \subseteq Factions
    OBVIOUS
  <2>. HIDE DEF occupied
  <2>3. CASE mapping = [f \in Factions |-> f]
    <3>1. \A q \in Seated(s) : SideOf(s, mapping, q) = s.players[q].faction
      BY <1>1, <1>2, <2>2, <2>3
    <3>. QED  BY <1>1, <1>2, <2>2, <3>1 DEF Sides
  <2>4. CASE mapping = [f \in Factions |-> Other(f)]
    <3>1. \A q \in Seated(s) : SideOf(s, mapping, q) =
            IF s.players[q].faction = "SPECTATOR" THEN "SPECTATOR" ELSE Other(s.players[q].faction)
      BY <1>1, <1>2, <2>2, <2>4
    <3>2. \A f \in Factions : Other(f) \in Factions /\ Other(Other(f)) = f
      BY DEF Factions, Other
    <3>3. "SPECTATOR" \notin Factions
      BY DEF Factions
    <3>. QED  BY <1>1, <1>2, <2>2, <3>1, <3>2, <3>3 DEF Sides
  <2>. QED  BY <2>1, <2>3, <2>4
<1>. QED  BY <1>3, <1>4

(* choose_arena() between matches: what holds between steps holds of the   *)
(* mode that players have migrated to.                                     *)
LEMMA PlayersMigrate ==
  ASSUME NEW s, Kept(s), NEW mapping \in FactionMappings(s)
  PROVE  Kept(Migrate(s, mapping)) /\ Migrate(s, mapping).state = "INIT"
<1>. DEFINE base == Fresh(NewHistory(s.history.maps + 1))
            entries == [i \in 1..MaxIds |-> Entry(s, mapping, i - 1)]
            t == Migrate(s, mapping)
<1>1. s \in Mode /\ MaxIds \in Nat /\ s.history.maps + 1 \in Nat
  BY RulesFit DEF Kept, Whole, Mode, History
<1>2. t = Migrations!Fold(base, entries)
  BY DEF Migrate, Migrations!Fold, Migrations!FoldLeft, Migrations!MapThenFoldSet, Migrations!Max,
         FoldLeft, MapThenFoldSet, Max
<1>3. Moved(s, mapping, base, 0)
  <2>1. Blank(base) /\ Seated(base) = {} /\ TeamsKept(base)
    BY <1>1, FreshIsBlank
  <2>. HIDE DEF base
  <2>2. \A f : PlayersIn(base, f) = {}
    BY <2>1 DEF PlayersIn
  <2>. QED  BY <2>1, <2>2 DEF Moved, Coloured
<1>4. \A i \in 1..MaxIds : entries[i] = Entry(s, mapping, i - 1)
  OBVIOUS
<1>5. DOMAIN entries = 1..MaxIds
  OBVIOUS
<1>. HIDE DEF base, entries, t
<1>6. PICK h : Migrations!Unfolds(h, base, entries, MaxIds) /\ t = h[MaxIds]
  BY <1>1, <1>2, <1>5, Migrations!FoldUnfold
<1>. DEFINE P == {k \in Nat : k <= MaxIds => Moved(s, mapping, h[k], k)}
<1>7. 0 \in P
  BY <1>3, <1>6 DEF Migrations!Unfolds
<1>8. ASSUME NEW k \in Nat, k \in P PROVE k + 1 \in P
  <2>. SUFFICES ASSUME k + 1 <= MaxIds PROVE Moved(s, mapping, h[k + 1], k + 1)
    OBVIOUS
  <2>1. k \in 0..MaxIds - 1 /\ k + 1 \in 1..MaxIds /\ (k + 1) - 1 = k /\ k <= MaxIds
    BY <1>1
  <2>2. h[k + 1] = MigratePlayer(h[k], Entry(s, mapping, k))
    BY <1>4, <1>6, <2>1 DEF Migrations!Unfolds
  <2>3. k \in Ids /\ Moved(s, mapping, h[k], k)
    BY <1>8, <2>1 DEF Ids
  <2>4. SideOf(s, mapping, k) \in Sides
    BY <1>1, <2>3, SidesAreMapped
  <2>. HIDE DEF P
  <2>. QED  BY <1>1, <2>2, <2>3, <2>4, PlayerMigrates
<1>9. MaxIds \in P
  <2>. HIDE DEF P
  <2>. QED  BY <1>1, <1>7, <1>8, Migrations!NatInduct
<1>10. Moved(s, mapping, t, MaxIds)
  BY <1>1, <1>6, <1>9
<1>. HIDE DEF P
<1>11. t \in Mode /\ t.state = "INIT" /\ TeamsKept(t)
  BY <1>10 DEF Moved, Blank
<1>12. ColorsKept(t)
  <2>1. \A q \in PlayersIn(t, "SPECTATOR") : t.players[q].color = ColorsOf(t)[q]
    BY DEF PlayersIn, ColorsOf
  <2>. QED  BY <1>10, <2>1 DEF Moved, ColorsKept
<1>13. LimitKept(t)
  <2>1. SUFFICES ASSUME ~Scrambling, rules.max_players_per_team # 0, NEW f \in Factions
                 PROVE  Cardinality(PlayersIn(t, f)) <= rules.max_players_per_team
    BY DEF LimitKept
  <2>2. PICK g \in Factions : \A q \in Seated(s) : SideOf(s, mapping, q) = f => s.players[q].faction = g
    BY <1>1, SidesAreMapped
  <2>3. PlayersIn(t, f) \subseteq PlayersIn(s, g)
    BY <1>10, <2>2 DEF Moved, PlayersIn
  <2>4. Cardinality(PlayersIn(s, g)) <= rules.max_players_per_team
    BY <2>1 DEF Kept, Whole, SeatsKept, LimitKept
  <2>5. IsFiniteSet(PlayersIn(s, g)) /\ Cardinality(PlayersIn(s, g)) \in Nat
        /\ rules.max_players_per_team \in Nat
    BY <1>1, TeamsAreFinite, RulesFit
  <2>6. Cardinality(PlayersIn(t, f)) <= Cardinality(PlayersIn(s, g)) /\ Cardinality(PlayersIn(t, f)) \in Nat
    BY <2>3, <2>5, FS_Subset, FS_CardinalityType
  <2>. QED  BY <2>4, <2>5, <2>6
<1>14. ScoreKept(t)
  <2>1. \A f \in Factions : t.score[f] = 0 /\ t.history.won[TeamOn(t.history, f)] = 0
    BY <1>10 DEF Moved, Blank, TeamOn, Factions
  <2>2. RoundNum(t) = 0 /\ t.history.started = 0 /\ t.history.bombing = 1
    BY <1>10, <2>1 DEF Moved, Blank, RoundNum, Factions
  <2>. QED  BY <1>11, <2>1, <2>2 DEF ScoreKept
<1>15. PostureKept(t)
  <2>1. \A p \in Seated(t) : Stands(t, p, t.frozen)
    BY <1>10 DEF Moved, Stands, NoCharacter
  <2>. QED  BY <1>11, <2>1 DEF PostureKept, FlagAt
<1>16. ClockKept(t)
  BY <1>11 DEF ClockKept
<1>. QED  BY <1>11, <1>12, <1>13, <1>14, <1>15, <1>16 DEF Kept, Whole, SeatsKept, t

-----------------------------------------------------------------------------
(* The theorems. *)

(* The invariant is what holds between steps, and the type of the tick.    *)
LEMMA InvariantIsKept == IInv <=> Kept(mode) /\ tick \in BOOLEAN
BY DEF IInv, Kept, Whole, SeatsKept, TypeOK

(* A mode without players, and without a match. *)
LEMMA InitKeeps == Init => IInv
<1>. SUFFICES ASSUME Init PROVE IInv
  OBVIOUS
<1>1. Blank(mode) /\ Seated(mode) = {} /\ TeamsKept(mode) /\ tick \in BOOLEAN
  <2>1. 0 \in Nat
    OBVIOUS
  <2>. QED  BY <2>1, FreshIsBlank DEF Init
<1>2. mode \in Mode /\ mode.state = "INIT"
  BY <1>1 DEF Blank
<1>3. \A f : PlayersIn(mode, f) = {}
  BY <1>1 DEF PlayersIn
<1>4. ColorsKept(mode)
  BY <1>3 DEF ColorsKept, Coloured
<1>5. LimitKept(mode)
  <2>1. \A f : Cardinality(PlayersIn(mode, f)) = 0
    BY <1>3, FS_EmptySet
  <2>. QED  BY <2>1, RulesFit DEF LimitKept
<1>6. ScoreKept(mode)
  <2>1. \A f \in Factions : mode.score[f] = 0 /\ mode.history.won[TeamOn(mode.history, f)] = 0
    BY <1>1 DEF Blank, TeamOn, Factions
  <2>2. RoundNum(mode) = 0 /\ mode.history.started = 0 /\ mode.history.bombing = 1
    BY <1>1, <2>1 DEF Blank, RoundNum, Factions
  <2>. QED  BY <1>2, <2>1, <2>2 DEF ScoreKept
<1>7. PostureKept(mode) /\ ClockKept(mode)
  BY <1>1, <1>2 DEF PostureKept, FlagAt, ClockKept
<1>. QED  BY <1>1, <1>2, <1>4, <1>5, <1>6, <1>7 DEF IInv, TypeOK

(* Every step keeps the invariant, and takes no round from who defused the *)
(* bomb.                                                                   *)
LEMMA NextKeeps ==
  ASSUME IInv, [Next]_vars
  PROVE  /\ IInv'
         /\ mode.bomb.state = "defused" /\ mode.state = "LIVE"
              /\ mode'.state \in {"ROUND_END_DELAY", "MATCH_SUMMARY"} /\ mode'.bomb.defuser # NoId
            => mode'.last_win.winner = "DEFUSING" \/ mode' = mode
<1>0. Kept(mode) /\ tick \in BOOLEAN
  BY InvariantIsKept
<1>. DEFINE Unfair == mode.bomb.state = "defused" /\ mode.state = "LIVE"
              /\ mode'.state \in {"ROUND_END_DELAY", "MATCH_SUMMARY"} /\ mode'.bomb.defuser # NoId
              /\ mode'.last_win.winner # "DEFUSING"
<1>1. CASE Step
  <2>1. PICK in \in Inputs : Advance(in)
    BY <1>1 DEF Step
  <2>2. PICK ready \in ModePreSolve([mode EXCEPT !.now = @ + 1], in) :
          \E commanded \in ExecutePlayerCommands(ready, in) :
            mode' \in Solve(commanded, in.kind = "nothing")
    BY <2>1 DEF Advance
  <2>3. PICK commanded \in ExecutePlayerCommands(ready, in) : mode' \in Solve(commanded, in.kind = "nothing")
    BY <2>2
  <2>4. Kept(mode') /\ ~Unfair
    BY <1>0, <2>3, StepKeeps
  <2>5. tick' \in BOOLEAN
    BY <1>1 DEF Step
  <2>6. IInv'
    BY <2>4, <2>5 DEF IInv, Kept, Whole, SeatsKept, TypeOK
  <2>. QED  BY <2>4, <2>6
<1>2. CASE ChooseArena
  <2>1. PICK mapping \in FactionMappings(mode) : mode' = Migrate(mode, mapping)
    BY <1>2 DEF ChooseArena
  <2>2. Kept(mode') /\ mode'.state = "INIT"
    BY <1>0, <2>1, PlayersMigrate
  <2>3. tick' \in BOOLEAN
    BY <1>0, <1>2 DEF ChooseArena
  <2>4. IInv'
    BY <2>2, <2>3 DEF IInv, Kept, Whole, SeatsKept, TypeOK
  <2>. QED  BY <2>2, <2>4
<1>3. CASE UNCHANGED vars
  <2>1. mode' = mode /\ tick' = tick
    BY <1>3 DEF vars
  <2>2. IInv'
    BY <1>0, <2>1 DEF IInv, Kept, Whole, SeatsKept, TypeOK
  <2>. QED  BY <2>1, <2>2
<1>. QED  BY <1>1, <1>2, <1>3 DEF Next

(* The invariant of the mode. *)
THEOREM Invariant == Spec => []IInv
<1>1. IInv /\ [Next]_vars => IInv'
  BY NextKeeps
<1>. QED  BY InitKeeps, <1>1, PTL DEF Spec

(* Whatever players do and whenever they come and go, the mode is one.     *)
THEOREM TypeCorrect == Spec => []TypeOK
<1>1. IInv => TypeOK
  BY DEF IInv
<1>. QED  BY <1>1, Invariant, PTL

(* A team keeps its points and its players when the sides change.          *)
THEOREM TeamsKeepTheirScore == Spec => []OwnScoreKept
<1>1. IInv => OwnScoreKept
  BY DEF IInv, TeamsKept, ScoreKept, OwnScoreKept
<1>. QED  BY <1>1, Invariant, PTL

(* Every round that was started ends with exactly one point for one side,  *)
(* and the sides change when half of the rounds were played.               *)
THEOREM EveryRoundIsAccounted == Spec => []RoundsAccounted
<1>1. IInv => RoundsAccounted
  <2>. SUFFICES ASSUME IInv PROVE RoundsAccounted
    OBVIOUS
  <2>1. ScoreKept(mode) /\ mode.state \in Phases
    BY DEF IInv, TypeOK, Mode
  <2>2. RoundNum(mode) = CASE mode.state \in {"INIT", "WARMUP"} -> 0
                           [] mode.state = "LIVE" -> mode.history.started - 1
                           [] OTHER -> mode.history.started
    BY <2>1 DEF ScoreKept, Phases
  <2>. QED  BY <2>1, <2>2 DEF ScoreKept, RoundsAccounted
<1>. QED  BY <1>1, Invariant, PTL

(* The flag that says whether players are frozen is true of all of them.   *)
THEOREM FlagIsTrueOfAll == Spec => []FrozenAsCached
<1>1. IInv => FrozenAsCached
  BY DEF IInv, PostureKept, Stands, FrozenAsCached
<1>. QED  BY <1>1, Invariant, PTL

(* No two teammates wear one colour, and nobody goes without one while one *)
(* is free in his team.                                                    *)
THEOREM ColorsStayApart == Spec => []ColorsShared
<1>1. IInv => ColorsShared
  <2>. SUFFICES ASSUME IInv, ~Scrambling PROVE ColorsShared
    BY DEF ColorsShared
  <2>1. SUFFICES ASSUME NEW f \in Factions, NEW p \in PlayersIn(mode, f)
                 PROVE  /\ mode.players[p].color # NoColor
                        /\ IF mode.players[p].color = Excess
                           THEN PlayerColors \subseteq {mode.players[q].color : q \in PlayersIn(mode, f)}
                           ELSE \A q \in PlayersIn(mode, f) \ {p} :
                                  mode.players[q].color # mode.players[p].color
    BY DEF ColorsShared
  <2>2. Coloured(PlayersIn(mode, f), ColorsOf(mode))
    BY DEF IInv, ColorsKept
  <2>3. \A q \in PlayersIn(mode, f) : ColorsOf(mode)[q] = mode.players[q].color
    BY DEF PlayersIn, ColorsOf
  <2>4. {ColorsOf(mode)[q] : q \in PlayersIn(mode, f)} = {mode.players[q].color : q \in PlayersIn(mode, f)}
    BY <2>3
  <2>. QED  BY <2>2, <2>3, <2>4 DEF Coloured
<1>. QED  BY <1>1, Invariant, PTL

(* No team outgrows its limit, also by auto-assignment. *)
THEOREM TeamsStayWithinLimit == Spec => []TeamsWithinLimit
<1>1. IInv => TeamsWithinLimit
  BY DEF IInv, LimitKept, TeamsWithinLimit
<1>. QED  BY <1>1, Invariant, PTL

(* No phase outlasts its time: a round ends by its clock, or by the fuse   *)
(* of a bomb planted in its last second.                                   *)
THEOREM EveryPhaseEndsInTime == Spec => []PhasesEndInTime
<1>1. IInv => PhasesEndInTime
  BY DEF IInv, ClockKept, PhasesEndInTime
<1>. QED  BY <1>1, Invariant, PTL

(* Nothing that happens between a defusal and the next step takes the      *)
(* round from the defusing side, except that the one who defused leaves.   *)
THEOREM DefusersWin == Spec => DefusedBombLoses
<1>1. IInv /\ [Next]_vars =>
        [mode.bomb.state = "defused" /\ mode.state = "LIVE" /\ mode'.state \in {"ROUND_END_DELAY", "MATCH_SUMMARY"}
           /\ mode'.bomb.defuser # NoId
           => mode'.last_win.winner = "DEFUSING"]_mode
  BY NextKeeps
<1>. QED  BY <1>1, Invariant, PTL DEF Spec, DefusedBombLoses
====
