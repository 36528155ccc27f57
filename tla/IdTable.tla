------------------------------ MODULE IdTable ------------------------------
(***************************************************************************)
(* What a pool promises to the holders of its ids, without indirection:    *)
(* a table from ids to objects in which an id is issued at most once.      *)
(* docs/pages/docs/Topics/pool_id.md: "It uniquely identifies the          *)
(* allocated object among all other objects allocated by that pool."       *)
(* Pool.tla is shown to implement this table.                              *)
(***************************************************************************)
CONSTANTS Ids, Objects

VARIABLES
  live,      \* the objects that exist: a function from some ids to Objects
  retired    \* the ids issued earlier whose object is gone

vars == <<live, retired>>

Init ==
  /\ live = [id \in {} |-> CHOOSE o \in Objects : TRUE]
  /\ retired = {}

(* An object enters under an id nobody has held before. *)
Issue(id, o) ==
  /\ id \notin DOMAIN live \cup retired
  /\ live' = [i \in DOMAIN live \cup {id} |-> IF i = id THEN o ELSE live[i]]
  /\ UNCHANGED retired

(* One object leaves; its id is remembered as spent, no other id notices. *)
Retire(id) ==
  /\ id \in DOMAIN live
  /\ live' = [i \in DOMAIN live \ {id} |-> live[i]]
  /\ retired' = retired \cup {id}

(* The table is reloaded: the objects keep their ids, but the record of    *)
(* the spent ids may be lost in part.                                      *)
Reload ==
  /\ retired' \in SUBSET retired
  /\ UNCHANGED live

(* Everything is dropped, the record of the spent ids included. *)
Reset ==
  /\ live' = [id \in {} |-> CHOOSE o \in Objects : TRUE]
  /\ retired' = {}

Next ==
  \/ \E id \in Ids, o \in Objects : Issue(id, o)
  \/ \E id \in Ids : Retire(id)
  \/ Reload
  \/ Reset

Spec == Init /\ [][Next]_vars
=============================================================================
