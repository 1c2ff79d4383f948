---------------------------- MODULE MCController ----------------------------
(* Small instances of Controller. *)
EXTENDS ControllerInv, TLC

CONSTANTS c1, c2, c3, p1, p2, debug, info

\* c1 and c2 share a port and differ in level; c3 has a port of its own.
MCConfig  == {c1, c2, c3}
MCPortOf  == (c1 :> p1) @@ (c2 :> p1) @@ (c3 :> p2)
MCLevelOf == (c1 :> info) @@ (c2 :> debug) @@ (c3 :> info)

Symmetry == Permutations(Deployment)
=============================================================================
