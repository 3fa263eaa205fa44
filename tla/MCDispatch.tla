----------------------------- MODULE MCDispatch -----------------------------
(* An instance of Dispatch: two orders of two districts, two drivers of whom *)
(* each may have either or both, and two callers.                          *)
EXTENDS Dispatch, TLC

CONSTANTS d1, d2, n1, n2, c1, c2

OrderDistricts == (1 :> n1) @@ (2 :> n2)
DeskWork == (c1 :> {"auto", "bulk", "start"})
            @@ (c2 :> {"route", "leave", "complete", "cancel"})
Sym == Permutations(Drivers)
=============================================================================
