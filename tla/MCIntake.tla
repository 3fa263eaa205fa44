------------------------------ MODULE MCIntake ------------------------------
(* An instance of Supplies: new orders, a supply, a sheet and the edits of   *)
(* two orders, over two products whose lines come in either order.         *)
EXTENDS Supplies, TLC

CONSTANTS p1, p2, o1, o2, r1, r2, r3, r4

Ask(kind, lines) == [kind |-> kind, lines |-> lines]
DayPlans ==
    (r1 :> {Ask("order", <<p1, p2>>)}) @@
    (r2 :> {Ask("order", <<p2, p1>>), Ask("change", <<o2, p2, p1>>)}) @@
    (r3 :> {Ask("order", <<p1>>), Ask("supply", <<p2, p1>>),
            Ask("handover", <<o1, o2>>), Ask("change", <<o1, p1, p2>>)}) @@
    (r4 :> {Ask("order", <<p2>>)})
=============================================================================
