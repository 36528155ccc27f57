---------------------------- MODULE MCSession ----------------------------
(* The constants are plain values, given in the .cfg files. *)
EXTENDS Session
=============================================================================
