---------------------------- MODULE BombDefusal ----------------------------
(***************************************************************************)
(* A match of the bomb defusal mode (game/modes/bomb_defusal.cpp): who     *)
(* plays for whom, the phases of a match and of its rounds, the bomb, the  *)
(* score, the money and the colours. One step of the mode is               *)
(* mode_pre_solve(), execute_player_commands(), the solver, of which the   *)
(* model keeps deaths and what becomes of the bomb, and mode_post_solve(). *)
(*                                                                         *)
(* Each method is an operator from the mode (with its cosmos) to the mode  *)
(* as it leaves it. A second of the rules is one step. A character is a    *)
(* part of its player, equipment is left out, and there are no bots.       *)
(***************************************************************************)
EXTENDS Integers, FiniteSetsExt, SequencesExt

CONSTANTS
  MaxIds,       \* how many ids players may get
  Colors,       \* player_colors, in their order
  rules,        \* the other members of bomb_defusal_ruleset, a record
  Maps,         \* bound: changes of the arena during a session
  Specials      \* the special commands that may be given

VARIABLES
  mode,         \* the mode, and of its cosmos the clock, the characters and the bomb
  tick          \* turns with every step

vars == <<mode, tick>>

Ids == 0 .. MaxIds - 1
Factions == {"BOMBING", "DEFUSING"}
Other(f) == IF f = "BOMBING" THEN "DEFUSING" ELSE "BOMBING"
NoId == -1
NoColor == "zero"
Excess == "excess"
NoCharacter == [state |-> "none", side |-> "SPECTATOR", frozen |-> FALSE, knocked_out |-> 0]
NewPlayer == [faction |-> "SPECTATOR", character |-> NoCharacter, color |-> NoColor,
              round_when_chosen_faction |-> -1, money |-> 0]
NoWin == [when |-> 0, winner |-> "SPECTATOR"]
NoBomb == [state |-> "none", when_armed |-> 0, defuser |-> NoId, sender |-> NoId]

PlayerColors == {Colors[i] : i \in DOMAIN Colors}

(* What the rulesets say: times are seconds; fuses, rounds and what comes  *)
(* after them take some; no colour of a player stands for having none.     *)
ASSUME BombAssumption ==
  /\ {MaxIds, Maps, rules.max_rounds, rules.max_players_per_team, rules.price,
      rules.warmup_secs, rules.match_begins_secs, rules.freeze_secs} \subseteq Nat
  /\ {rules.round_secs, rules.fuse_delay, rules.round_end_secs, rules.match_summary_seconds} \subseteq Nat \ {0}
  /\ rules.maximum_money \in Nat
  /\ {rules.initial_money, rules.warmup_initial_money} \subseteq 0..rules.maximum_money
  /\ {rules.winning_faction_award, rules.losing_faction_award, rules.consecutive_loss_bonus,
      rules.max_consecutive_loss_bonuses, rules.defused_team_bonus,
      rules.lost_but_bomb_planted_team_bonus, rules.bomb_plant_award, rules.bomb_explosion_award,
      rules.bomb_defuse_award, rules.knockout_award, rules.team_kill_penalty,
      rules.game_commencing_seconds} \subseteq Int
  /\ {rules.allow_game_commencing, rules.bomb_flavour} \subseteq BOOLEAN
  /\ Colors \in Seq(PlayerColors) /\ {NoColor, Excess} \cap PlayerColors = {}
  /\ Specials \subseteq {"RESTART_MATCH", "RESTART_MATCH_NO_WARMUP", "SWAP_TEAMS", "SCRAMBLE_TEAMS"}

NumRounds == Max({(rules.max_rounds \div 2) * 2, 2})
Seated(s) == DOMAIN s.players
PlayersIn(s, f) == {p \in Seated(s) : s.players[p].faction = f}
ConsciousIn(s, f) == {p \in PlayersIn(s, f) : s.players[p].character.state = "conscious"}
RoundNum(s) == s.score["BOMBING"] + s.score["DEFUSING"]
IsHalfwayRound(s) == RoundNum(s) = NumRounds \div 2
IsFinalRound(s) == (\E f \in Factions : s.score[f] > NumRounds \div 2) \/ RoundNum(s) = NumRounds

(* for (auto& it : players): f(player, id, s) is the player afterwards. *)
ForEachPlayer(s, f(_, _)) == [s EXCEPT !.players = [p \in Seated(s) |-> f(p, s.players[p])]]

WarmupLeft(s) == IF s.state = "WARMUP" THEN rules.warmup_secs - s.now ELSE -1
MatchBeginsIn(s) == IF s.state = "WARMUP" /\ s.now >= rules.warmup_secs
                    THEN rules.warmup_secs + rules.match_begins_secs - s.now ELSE -1
FreezeLeft(s) == rules.freeze_secs - s.now
RoundLeftFromWin(s) == rules.round_secs + rules.freeze_secs - s.last_win.when
RoundLeft(s) == rules.round_secs + rules.freeze_secs - s.now
RoundPassed(s) == s.now - rules.freeze_secs
SinceWin(s) == s.now - s.last_win.when
BuyLeft(s) ==
  CASE s.state = "WARMUP" -> IF rules.warmup_enable_item_shop THEN WarmupLeft(s) ELSE 0
    [] OTHER -> rules.freeze_secs + rules.buy_secs_after_freeze - s.now

BombPlanted(s) == s.bomb.state = "armed"
BombExploded(s) == s.bomb.state = "gone"
WhoDefusedStanding(s) ==
  IF s.bomb.state = "defused" /\ s.bomb.defuser \in UNION {ConsciousIn(s, f) : f \in Factions}
  THEN s.bomb.defuser ELSE NoId
WhoDefused(s) == IF s.bomb.state = "defused" THEN s.bomb.defuser ELSE NoId

(* What the model remembers: the team, 1 or 2, each player belongs to, the *)
(* team that bombs now, the rounds each has won and the rounds started in  *)
(* this match, the arenas played.                                          *)
TeamOn(history, f) ==
  IF f = "SPECTATOR" THEN 0
  ELSE IF f = "BOMBING" THEN history.bombing ELSE 3 - history.bombing

-----------------------------------------------------------------------------
(* Money and colours. Who of those without a colour of their own has the   *)
(* best score is left open. When nobody is left, the code takes the best   *)
(* of no players for one: most likely what is there is nobody's who waits  *)
(* for this colour, and nothing is written; or memory that belongs to      *)
(* something else is, and nothing is known of the mode from there on.      *)
Awarded(money, amount) == Max({0, Min({rules.maximum_money, money + amount})})

PostAward(s, p, amount) ==
  IF s.state = "WARMUP" \/ p \notin Seated(s) THEN s
  ELSE [s EXCEPT !.players[p].money = Awarded(@, amount)]

AssignToNobody(s, previous, free) == {s}

AssignFreeColorToBestUncolored(s, previous, free) ==
  LET uncolored == {p \in PlayersIn(s, previous) : s.players[p].color = Excess}
  IN IF free \in {NoColor, Excess} THEN {s}
     ELSE IF Seated(s) = {} THEN {s, [s EXCEPT !.undefined = TRUE]}
     ELSE IF uncolored = {} THEN {s}
     ELSE {[s EXCEPT !.players[p].color = free] : p \in uncolored}

FirstFreeColor(s, p) ==
  LET taken == {s.players[q].color : q \in PlayersIn(s, s.players[p].faction)}
      free == {i \in DOMAIN Colors : Colors[i] \notin taken}
  IN IF free = {} THEN Excess ELSE Colors[Min(free)]

OnFactionChangedFor(s, previous, p) ==
  LET recolored(t) ==
        LET u == [t EXCEPT !.players[p].color = NoColor]
        IN IF u.players[p].faction = "SPECTATOR" THEN u
           ELSE [u EXCEPT !.players[p].color = FirstFreeColor(u, p)]
  IN {recolored(t) : t \in AssignFreeColorToBestUncolored(s, previous, s.players[p].color)}

CalcStrongestFaction(s) ==
  IF Cardinality(PlayersIn(s, "DEFUSING")) > Cardinality(PlayersIn(s, "BOMBING"))
  THEN "DEFUSING" ELSE "BOMBING"

CalcWeakestFaction(s) ==
  IF Cardinality(PlayersIn(s, "DEFUSING")) < Cardinality(PlayersIn(s, "BOMBING"))
  THEN "DEFUSING" ELSE "BOMBING"

ChooseFaction(s, p, f) ==
  IF s.players[p].faction = f THEN {s}
  ELSE OnFactionChangedFor([s EXCEPT !.players[p].faction = f,
                                     !.history.team[p] = TeamOn(s.history, f)],
                           s.players[p].faction, p)

AutoAssignFaction(s, p) ==
  ChooseFaction(s, p, CalcWeakestFaction([s EXCEPT !.players[p].faction = "SPECTATOR"]))

-----------------------------------------------------------------------------
(* Characters. A knocked out one stays where it is, its player's, until    *)
(* the next round.                                                         *)
BornFrozen(s) == \/ s.state = "LIVE" /\ FreezeLeft(s) > 0
                 \/ s.state = "WARMUP" /\ WarmupLeft(s) <= 0

CreateCharacterForPlayer(s, player) ==
  [player EXCEPT !.character =
     IF player.faction = "SPECTATOR" THEN NoCharacter
     ELSE [state |-> "conscious", side |-> player.faction, knocked_out |-> 0, frozen |-> BornFrozen(s)]]

SpawnThawed(s, who) ==
  ForEachPlayer(s, LAMBDA p, player :
    IF p \in who THEN [CreateCharacterForPlayer(s, player) EXCEPT !.character.frozen = FALSE] ELSE player)
SpawnVeterans(s, who) ==
  ForEachPlayer(s, LAMBDA p, player :
    IF p \in who /\ player.character # NoCharacter THEN CreateCharacterForPlayer(s, player) ELSE player)
SpawnEach(s, who) ==
  ForEachPlayer(s, LAMBDA p, player :
    IF p \in who THEN CreateCharacterForPlayer(s, player) ELSE player)

SpawnCharactersForRecentlyAssigned(s) ==
  LET due == \/ s.state = "WARMUP"
             \/ /\ s.state = "LIVE"
                /\ \/ Cardinality(Seated(s)) = 1
                   \/ RoundPassed(s) <= rules.allow_spawn_for_secs_after_starting
  IN IF due THEN SpawnEach(s, {p \in Seated(s) : s.players[p].character = NoCharacter}) ELSE s

SetPlayersFrozen(s, flag) ==
  IF s.frozen = flag THEN s
  ELSE [ForEachPlayer(s, LAMBDA p, player :
          IF player.character = NoCharacter THEN player
          ELSE [player EXCEPT !.character.frozen = flag])
        EXCEPT !.frozen = flag]

RespawnTheDead(s) ==
  SpawnEach(s, {p \in Seated(s) : /\ s.players[p].character.state = "knocked out"
                                  /\ s.now - s.players[p].character.knocked_out >= rules.warmup_respawn_after})

-----------------------------------------------------------------------------
(* Rounds and matches.                                                     *)
SetupRound(s) ==
  LET live == s.state # "WARMUP"
      clean == [s EXCEPT !.now = 0, !.last_win = NoWin, !.planter = NoId, !.frozen = FALSE,
                         !.bomb = [NoBomb EXCEPT !.state = IF live /\ rules.bomb_flavour THEN "idle" ELSE "none"],
                         !.history.started = IF live THEN @ + 1 ELSE @]
      peopled == SpawnEach(clean, Seated(s))
  IN IF live /\ rules.freeze_secs > 0 THEN SetPlayersFrozen(peopled, TRUE) ELSE peopled

ResetPlayersStats(s) ==
  ForEachPlayer(s, LAMBDA p, player :
    [player EXCEPT !.money = rules.initial_money, !.round_when_chosen_faction = -1])

Restart(s) ==
  LET reset == [ResetPlayersStats(s) EXCEPT
                  !.score = [f \in Factions |-> 0], !.losses = [f \in Factions |-> 0],
                  !.history.won = [team \in 1..2 |-> 0], !.history.started = 0, !.history.bombing = 1,
                  !.history.team = [p \in Ids |->
                     IF p \in Seated(s) THEN TeamOn([bombing |-> 1], s.players[p].faction) ELSE 0]]
  IN SetupRound(
       IF rules.warmup_secs > 4
       THEN [ForEachPlayer(reset, LAMBDA p, player :
               [player EXCEPT !.money = rules.warmup_initial_money]) EXCEPT !.state = "WARMUP"]
       ELSE [reset EXCEPT !.state = "LIVE"])

EndWarmupAndGoLive(s) ==
  IF s.state # "WARMUP" THEN s
  ELSE SetupRound(ResetPlayersStats([s EXCEPT !.state = "LIVE"]))

StartUnannounced(s) == SetupRound(s)
StartNextRound(s) == SetupRound([s EXCEPT !.state = "LIVE"])

SwapBombers(s) ==
  ForEachPlayer(s, LAMBDA p, player :
    IF player.faction = "BOMBING" THEN [player EXCEPT !.faction = "DEFUSING"] ELSE player)

SwapAssignedFactions(s) ==
  ForEachPlayer(s, LAMBDA p, player :
    IF player.faction \in Factions THEN [player EXCEPT !.faction = Other(@)] ELSE player)

StartNextHalf(s) ==
  StartNextRound(
    [ForEachPlayer(SwapAssignedFactions(s), LAMBDA p, player :
       [player EXCEPT !.money = rules.initial_money])
     EXCEPT !.score = [f \in Factions |-> s.score[Other(f)]],
            !.losses = [f \in Factions |-> 0],
            !.history.bombing = 3 - @])

MakeWin(s, winner) ==
  LET loser == Other(winner)
      losses == s.losses[loser] + 1
      planted == loser = "BOMBING" /\ s.planter # NoId
      winner_award == rules.winning_faction_award + IF planted THEN rules.defused_team_bonus ELSE 0
      loser_award == rules.losing_faction_award
                       + Min({losses - 1, rules.max_consecutive_loss_bonuses}) * rules.consecutive_loss_bonus
                       + IF planted THEN rules.lost_but_bomb_planted_team_bonus ELSE 0
      won == [s EXCEPT !.score[winner] = @ + 1, !.losses = [f \in Factions |-> IF f = winner THEN 0 ELSE losses],
                       !.state = "ROUND_END_DELAY",
                       !.last_win = [when |-> s.now, winner |-> winner],
                       !.history.won[TeamOn(s.history, winner)] = @ + 1]
      paid == ForEachPlayer(won, LAMBDA p, player :
                [player EXCEPT !.money = Awarded(@, IF player.faction = winner THEN winner_award ELSE loser_award)])
  IN IF IsHalfwayRound(paid) \/ IsFinalRound(paid)
     THEN SetPlayersFrozen([paid EXCEPT !.state = "MATCH_SUMMARY"], TRUE)
     ELSE paid

ProcessWinConditions(s) ==
  LET wiped(f) == PlayersIn(s, f) # {} /\ ConsciousIn(s, f) = {}
  IN IF BombExploded(s) THEN
       MakeWin(PostAward(s, s.planter, rules.bomb_explosion_award), "BOMBING")
     ELSE IF WhoDefused(s) # NoId THEN
       MakeWin(PostAward(s, WhoDefused(s), rules.bomb_defuse_award), "DEFUSING")
     ELSE IF ~BombPlanted(s) /\ (RoundLeft(s) <= 0 \/ wiped("BOMBING")) THEN MakeWin(s, "DEFUSING")
     ELSE IF wiped("DEFUSING") THEN MakeWin(s, "BOMBING") ELSE s

-----------------------------------------------------------------------------
(* The parts of mode_pre_solve(). A step is given at most one thing to do. *)
AddPlayer(s, p) ==
  LET money == IF s.state = "WARMUP" THEN rules.warmup_initial_money
               ELSE IF RoundNum(s) # 0 THEN rules.initial_money \div 2 ELSE rules.initial_money
  IN [s EXCEPT !.players = [q \in Seated(s) \cup {p} |->
        IF q = p THEN [NewPlayer EXCEPT !.money = money] ELSE s.players[q]]]

(* The bomb is dropped; what it knew of the character, it knows no more.   *)
RemovePlayer(s, p) ==
  LET forget(q) == IF q = p THEN NoId ELSE q
      left == [s EXCEPT !.players = [q \in Seated(s) \ {p} |-> s.players[q]],
                        !.bomb.defuser = forget(@), !.bomb.sender = forget(@),
                        !.history.team[p] = 0]
  IN AssignFreeColorToBestUncolored(left, s.players[p].faction, s.players[p].color)

AddOrRemovePlayers(s, in) ==
  CASE in.kind = "added" -> IF in.id \in Seated(s) THEN {s} ELSE {AddPlayer(s, in.id)}
    [] in.kind = "removed" /\ in.id \in Seated(s) -> RemovePlayer(s, in.id)
    [] OTHER -> {s}

Balanced(s) ==
  {a \in [Seated(s) -> Factions] :
     LET bombing == Cardinality({p \in Seated(s) : a[p] = "BOMBING"})
     IN 2 * bombing - Cardinality(Seated(s)) \in -1..1}

HandleSpecialCommands(s, in) ==
  CASE in.kind = "RESTART_MATCH" -> {Restart(s)}
    [] in.kind = "RESTART_MATCH_NO_WARMUP" -> {EndWarmupAndGoLive(Restart(s))}
    [] in.kind = "SWAP_TEAMS" -> {Restart(SwapAssignedFactions(s))}
    [] in.kind = "SCRAMBLE_TEAMS" ->
         {Restart(ForEachPlayer(s, LAMBDA p, player : [player EXCEPT !.faction = a[p]])) : a \in Balanced(s)}
    [] OTHER -> {s}

HandleGameCommencing(s) ==
  LET ready == \A f \in Factions : PlayersIn(s, f) # {}
  IN IF ~rules.allow_game_commencing THEN [s EXCEPT !.commencing = -1]
     ELSE IF s.commencing > 1 THEN [s EXCEPT !.commencing = @ - 1]
     ELSE IF s.commencing \in {0, 1} THEN Restart([s EXCEPT !.commencing = -1])
     ELSE IF ~s.should_commence /\ ~ready THEN [s EXCEPT !.should_commence = TRUE]
     ELSE IF s.should_commence /\ ready THEN
       [s EXCEPT !.commencing = rules.game_commencing_seconds, !.should_commence = FALSE]
     ELSE s

AdvanceWarmup(s) ==
  LET respawned == RespawnTheDead(s)
  IN IF WarmupLeft(s) > 0 THEN respawned
     ELSE IF MatchBeginsIn(s) > 0 THEN SetPlayersFrozen(respawned, TRUE)
     ELSE EndWarmupAndGoLive(SetPlayersFrozen(respawned, TRUE))

AdvanceLive(s) ==
  ProcessWinConditions(IF FreezeLeft(s) <= 0 THEN SetPlayersFrozen(s, FALSE) ELSE s)

AdvanceState(s) ==
  CASE s.state = "WARMUP" -> AdvanceWarmup(s)
    [] s.state = "LIVE" -> AdvanceLive(s)
    [] s.state = "ROUND_END_DELAY" ->
         IF SinceWin(s) >= rules.round_end_secs THEN StartNextRound(s) ELSE s
    [] s.state = "MATCH_SUMMARY" ->
         IF SinceWin(s) < rules.match_summary_seconds THEN s
         ELSE IF IsFinalRound(s) THEN Restart(s) ELSE StartNextHalf(s)

ModePreSolve(s, in) ==
  LET begun == IF s.state = "INIT" THEN Restart(s) ELSE s
      manned == UNION {HandleSpecialCommands(t, in) : t \in AddOrRemovePlayers(begun, in)}
  IN {AdvanceState(HandleGameCommencing(SpawnCharactersForRecentlyAssigned(t))) : t \in manned}

-----------------------------------------------------------------------------
(* The commands of players. The death of who changes sides alive comes in  *)
(* the solver of the same step.                                            *)
KnockOut(s, p) ==
  [s EXCEPT !.players[p].character = [@ EXCEPT !.state = "knocked out",
     !.knocked_out = IF s.state = "WARMUP" THEN s.now ELSE 0]]

TeamChoice(s, p, requested) ==
  LET me == s.players[p]
      alive == me.character.state = "conscious"
      active == Cardinality(Seated(s)) - Cardinality(PlayersIn(s, "SPECTATOR"))
      full(f) == rules.max_players_per_team # 0
                   /\ Cardinality(PlayersIn(s, f)) >= rules.max_players_per_team
      refused ==
        \/ me.faction = requested
        \/ /\ rules.forbid_going_to_spectator_unless_character_alive
           /\ ~alive /\ requested = "SPECTATOR"
        \/ /\ me.faction = "SPECTATOR" /\ rules.max_players_per_team # 0
           /\ active >= 2 * rules.max_players_per_team
        \/ requested # "SPECTATOR" /\ full(requested)
        \/ requested # "SPECTATOR" /\ ~alive /\ me.round_when_chosen_faction = RoundNum(s)
      stamped == IF requested = "SPECTATOR" THEN s
                 ELSE [s EXCEPT !.players[p].round_when_chosen_faction = RoundNum(s)]
      chosen == IF requested = "DEFAULT" THEN AutoAssignFaction(stamped, p)
                ELSE ChooseFaction(stamped, p, requested)
  IN IF refused THEN {s}
     ELSE {IF alive /\ t.players[p].faction # me.faction THEN KnockOut(t, p) ELSE t : t \in chosen}

Purchase(s, p, price) ==
  IF BuyLeft(s) > 0 /\ s.players[p].character.state = "conscious" /\ s.players[p].money >= price
  THEN [s EXCEPT !.players[p].money = @ - price] ELSE s

ExecutePlayerCommands(s, in) ==
  CASE in.kind = "team_choice" /\ in.id \in Seated(s) -> TeamChoice(s, in.id, in.faction)
    [] in.kind = "item_purchase" /\ in.id \in Seated(s) -> {Purchase(s, in.id, rules.price)}
    [] OTHER -> {s}

-----------------------------------------------------------------------------
(* The solver, with what mode_post_solve() makes of it.                    *)
CountKnockout(s, victim, knockouter) ==
  LET side(p) == s.players[p].faction
  IN IF knockouter \in {victim, NoId} THEN s
     ELSE PostAward(s, knockouter, IF side(knockouter) = side(victim)
                                   THEN -rules.team_kill_penalty ELSE rules.knockout_award)

Die(s, victim, knockouter) == CountKnockout(KnockOut(s, victim), victim, knockouter)

Conscious(s) == {p \in Seated(s) : s.players[p].character.state = "conscious"}

FuseIsUp(s) == BombPlanted(s) /\ s.now - s.bomb.when_armed >= rules.fuse_delay

(* The victims fall in any order.                                          *)
Detonation(s, victim) == Die(s, victim, s.bomb.sender)
Explode(s, victims) == FoldLeft(Detonation, [s EXCEPT !.bomb.state = "gone"], victims)
Victims(s) == {v \in BoundedSeq(Conscious(s), Cardinality(Conscious(s))) : IsInjective(v)}

Arm(s, p) ==
  PostAward([s EXCEPT !.bomb = [state |-> "armed", when_armed |-> s.now, defuser |-> NoId, sender |-> p],
                      !.planter = p],
            p, rules.bomb_plant_award)

Defuse(s, p) == [s EXCEPT !.bomb.state = "defused", !.bomb.defuser = p]

(* Fuses come before damage: who defuses the bomb may fall with it.        *)
Defusals(s) ==
  LET defused(p) == Defuse(s, p)
      men == Conscious(s)
  IN UNION {{defused(p)} \cup {Die(defused(p), v, k) : v \in men, k \in men} :
              p \in {q \in men : BombPlanted(s) /\ s.players[q].character.side = "DEFUSING"}}

(* The bomb goes off when it is due. Else, when the step was given nothing *)
(* to do, somebody may be knocked out, or do something to the bomb.        *)
Solve(s, idle) ==
  IF FuseIsUp(s) THEN {Explode(s, v) : v \in Victims(s)} \cup Defusals(s)
  ELSE {s} \cup
       IF ~idle THEN {}
       ELSE {Die(s, p, k) : p \in Conscious(s), k \in Conscious(s)}
            \cup {Arm(s, p) : p \in {q \in Conscious(s) : s.bomb.state = "idle"
                                                           /\ s.players[q].character.side = "BOMBING"}}
            \cup Defusals(s)

Inputs ==
  [kind : {"nothing"} \cup Specials]
    \cup [kind : {"added", "removed", "item_purchase"}, id : Ids]
    \cup [kind : {"team_choice"}, id : Ids, faction : Factions \cup {"SPECTATOR", "DEFAULT"}]

Advance(in) ==
  \E ready \in ModePreSolve([mode EXCEPT !.now = @ + 1], in) :
    \E commanded \in ExecutePlayerCommands(ready, in) :
      mode' \in Solve(commanded, in.kind = "nothing")

(* Another arena: the players move on with their session, the mode begins  *)
(* anew. Two teams may find themselves on either side, one alone bombs.    *)
Fresh(history) ==
  [state |-> "INIT", now |-> 0, players |-> [p \in {} |-> NewPlayer],
   score |-> [f \in Factions |-> 0], losses |-> [f \in Factions |-> 0],
   last_win |-> NoWin, planter |-> NoId, frozen |-> FALSE, bomb |-> NoBomb,
   should_commence |-> FALSE, commencing |-> -1, undefined |-> FALSE, history |-> history]

FactionMappings(s) ==
  LET occupied == {f \in Factions : PlayersIn(s, f) # {}}
  IN IF Cardinality(occupied) < 2 THEN {[f \in occupied |-> "BOMBING"]}
     ELSE {[f \in Factions |-> f], [f \in Factions |-> Other(f)]}

NewHistory(maps) ==
  [team |-> [p \in Ids |-> 0], bombing |-> 1, won |-> [team \in 1..2 |-> 0], started |-> 0, maps |-> maps]

MigratePlayer(s, entry) ==
  LET p == entry.id
      seated == [s EXCEPT !.history.team[p] = TeamOn(s.history, entry.faction),
                          !.players = [q \in Seated(s) \cup {p} |->
                             IF q = p THEN [NewPlayer EXCEPT !.faction = entry.faction] ELSE s.players[q]]]
  IN IF ~entry.moves THEN s
     ELSE IF entry.faction = "SPECTATOR" THEN seated
     ELSE [seated EXCEPT !.players[p].color = FirstFreeColor(seated, p)]

Entry(s, mapping, p) ==
  [id |-> p, moves |-> p \in Seated(s),
   faction |-> IF p \notin Seated(s) \/ s.players[p].faction = "SPECTATOR" THEN "SPECTATOR"
               ELSE mapping[s.players[p].faction]]

Migrate(s, mapping) ==
  FoldLeft(MigratePlayer, Fresh(NewHistory(s.history.maps + 1)),
           [i \in 1..MaxIds |-> Entry(s, mapping, i - 1)])

ChooseArena ==
  /\ ~mode.undefined
  /\ mode.history.maps < Maps
  /\ tick' = tick
  /\ \E mapping \in FactionMappings(mode) : mode' = Migrate(mode, mapping)

Init ==
  /\ tick = FALSE
  /\ mode = Fresh(NewHistory(0))

Step == ~mode.undefined /\ tick' = ~tick /\ \E in \in Inputs : Advance(in)

Next == Step \/ ChooseArena

(* The server advances the mode at every tick: only a Step turns tick.     *)
Spec == Init /\ [][Next]_vars /\ WF_tick(tick' = ~tick)

-----------------------------------------------------------------------------
(* Every round that was started ends with exactly one point for one side:  *)
(* whatever else happens in the seconds after it was decided, a bomb that  *)
(* goes off, the last man falling, it is not decided again.                *)
(* Nobody plays on in a match that is decided, and the sides have changed  *)
(* exactly when half of the rounds were played.                            *)
RoundsAccounted ==
  /\ RoundNum(mode) = CASE mode.state \in {"INIT", "WARMUP"} -> 0
                        [] mode.state = "LIVE" -> mode.history.started - 1
                        [] OTHER -> mode.history.started
  /\ mode.state \in {"LIVE", "ROUND_END_DELAY"} =>
       /\ ~IsFinalRound(mode)
       /\ (mode.history.bombing = 2) = (RoundNum(mode) >= NumRounds \div 2)

(* A team keeps its points and its players when the sides change.          *)
OwnScoreKept ==
  /\ \A f \in Factions : mode.score[f] = mode.history.won[TeamOn(mode.history, f)]
  /\ \A p \in Seated(mode) : mode.history.team[p] = TeamOn(mode.history, mode.players[p].faction)

(* The flag that says whether the players are frozen is true of every one  *)
(* of them, whoever joined, respawned or changed sides since it was set.   *)
FrozenAsCached ==
  \A p \in Seated(mode) :
    mode.players[p].character.state = "conscious" => mode.players[p].character.frozen = mode.frozen

Scrambling == "SCRAMBLE_TEAMS" \in Specials

(* As long as teams are not scrambled, no two teammates wear one colour,   *)
(* and nobody goes without a colour while one is free in his team.         *)
ColorsShared ==
  Scrambling \/ \A f \in Factions :
    LET worn(p) == mode.players[p].color
        team == PlayersIn(mode, f)
    IN \A p \in team :
         /\ worn(p) # NoColor
         /\ IF worn(p) = Excess THEN PlayerColors \subseteq {worn(q) : q \in team}
            ELSE \A q \in team \ {p} : worn(q) # worn(p)

(* As long as teams are not scrambled, none outgrows max_players_per_team, *)
(* also by auto-assignment, which does not ask for it.                     *)
TeamsWithinLimit ==
  Scrambling \/ rules.max_players_per_team = 0 \/
    \A f \in Factions : Cardinality(PlayersIn(mode, f)) <= rules.max_players_per_team

(* The bombing faction loses when its bomb is defused: nothing that        *)
(* happens between the defusal and the next step takes the round from the  *)
(* defusing side, except that the one who defused the bomb leaves.         *)
DefusedBombLoses ==
  [][mode.bomb.state = "defused" /\ mode.state = "LIVE" /\ mode'.state \in {"ROUND_END_DELAY", "MATCH_SUMMARY"}
       /\ mode'.bomb.defuser # NoId
       => mode'.last_win.winner = "DEFUSING"]_mode

(* No phase outlasts its time, whoever comes, leaves or falls: a round is  *)
(* ended by its clock, or by the fuse of a bomb planted in its last        *)
(* second.                                                                 *)
PhasesEndInTime ==
  CASE mode.state = "WARMUP" -> mode.now < rules.warmup_secs + rules.match_begins_secs
    [] mode.state = "LIVE" -> mode.now < rules.freeze_secs + rules.round_secs + rules.fuse_delay
    [] mode.state = "ROUND_END_DELAY" -> SinceWin(mode) < rules.round_end_secs
    [] mode.state = "MATCH_SUMMARY" -> SinceWin(mode) < rules.match_summary_seconds
    [] OTHER -> TRUE

(* Whoever has chosen a team does not wait forever for a character.        *)
EverybodyPlays ==
  \A p \in Ids : []<>~(p \in Seated(mode) /\ mode.players[p].faction \in Factions
                         /\ mode.players[p].character = NoCharacter)
=============================================================================
