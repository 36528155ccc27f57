--------------------------- MODULE MCBombDefusal ---------------------------
(* Small matches: durations of one or two steps, two rounds.               *)
EXTENDS BombDefusal

MCColors == <<"red">>

(* Two rounds, one in each half. *)
MCRules ==
  [max_rounds |-> 2, max_players_per_team |-> 2, warmup_secs |-> 5, match_begins_secs |-> 2,
   warmup_respawn_after |-> 2, freeze_secs |-> 1, round_secs |-> 2, round_end_secs |-> 1,
   match_summary_seconds |-> 1, buy_secs_after_freeze |-> 1, fuse_delay |-> 1,
   allow_spawn_for_secs_after_starting |-> 1, allow_game_commencing |-> TRUE, bomb_flavour |-> TRUE,
   game_commencing_seconds |-> 1, forbid_going_to_spectator_unless_character_alive |-> TRUE,
   warmup_enable_item_shop |-> FALSE,
   initial_money |-> 1, maximum_money |-> 2, warmup_initial_money |-> 2, price |-> 1,
   winning_faction_award |-> 2, losing_faction_award |-> 1, consecutive_loss_bonus |-> 1,
   max_consecutive_loss_bonuses |-> 1, team_kill_penalty |-> 1,
   lost_but_bomb_planted_team_bonus |-> 0, defused_team_bonus |-> 0, bomb_plant_award |-> 1,
   bomb_explosion_award |-> 1, bomb_defuse_award |-> 1, knockout_award |-> 1]

(* Three players, no money, no warmup and no bomb. *)
MCTeamRules ==
  [MCRules EXCEPT !.bomb_flavour = FALSE, !.warmup_secs = 0, !.initial_money = 0, !.maximum_money = 0, !.warmup_initial_money = 0,
                  !.freeze_secs = 0, !.round_secs = 1,
                  !.allow_spawn_for_secs_after_starting = 0, !.allow_game_commencing = FALSE,
                  !.round_end_secs = 1, !.match_summary_seconds = 1, !.buy_secs_after_freeze = 0,
                  !.fuse_delay = 1]

(* Nothing but fairness looks at tick. *)
WithoutTick == mode
=============================================================================
