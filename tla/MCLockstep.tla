---------------------------- MODULE MCLockstep ----------------------------
EXTENDS Lockstep

(* Arenas differ in nothing but their name. *)
ArenaSymmetry == Permutations(Arenas)
=============================================================================
