--------------------------- MODULE MCNatTraversal ---------------------------
(* NatTraversal for TLC: two symmetric NATs, no second attempt of which is *)
(* bound to succeed, meet one event instead of two.                        *)
EXTENDS NatTraversal

OneEventIfBothSymmetric == Symmetric(types.client) /\ Symmetric(types.server) => events <= 1
=============================================================================
