---------------------------- MODULE MCResources ----------------------------
(* Instance of Resources for TLC.                                          *)
EXTENDS Resources, TLC

CONSTANTS manager, node, a1, a2, b1, p1, p2, s1, s2

(* The manager may hold two mappings, the node one.                        *)
MCAddrs == manager :> {a1, a2} @@ node :> {b1}

(* Names that a component treats alike, and that no part tells apart.      *)
Symmetry == Permutations({a1, a2}) \cup Permutations({p1, p2}) \cup Permutations({s1, s2})
=============================================================================
