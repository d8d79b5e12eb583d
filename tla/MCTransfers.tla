------------------------------ MODULE MCTransfers ------------------------------
(***************************************************************************)
(* Transfers for TLC: nothing tells two paths, two bodies or two clients   *)
(* apart.                                                                  *)
(***************************************************************************)
EXTENDS Transfers, TLC
CONSTANTS p1, p2, x, y, c1, c2
Names == Permutations(Path) \cup Permutations(Body) \cup Permutations(WsClient)
=============================================================================
