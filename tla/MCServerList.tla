---------------------------- MODULE MCServerList ----------------------------
(* ServerList for TLC. *)
EXTENDS ServerList
=============================================================================
