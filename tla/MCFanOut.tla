------------------------------- MODULE MCFanOut -------------------------------
(* Instances of FanOut for TLC.                                            *)
EXTENDS FanOut, TLC

CONSTANTS p1, p2, c1, c2, c3, e1, e2, e3, e4

Cells == {e1, e2, e3, e4}

(* p1 logs to a synchronous and an asynchronous child, p2 to the same      *)
(* synchronous child and to a handler of the application.                  *)
Shared == (p1 :> <<c1, c2>>) @@ (p2 :> <<c3, c1>>)

(* The asynchronous child comes first.                                     *)
AsyncFirst == (p1 :> <<c2, c1>>) @@ (p2 :> <<c2, c1>>)

Symmetry == Permutations(Cell)
===============================================================================
