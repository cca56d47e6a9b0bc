--------------------------- MODULE MCNodeRegistry ---------------------------
(***************************************************************************)
(* Instances of NodeRegistry: the host, one helper node with two grants,   *)
(* and a grant asked for under the host's id.                              *)
(***************************************************************************)
EXTENDS NodeRegistry

CONSTANTS host, vm, g1, g2, g3

Asked == [g \in Token |-> IF g = g3 THEN host ELSE vm]
=============================================================================
