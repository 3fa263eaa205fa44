------------------------------- MODULE MCShop -------------------------------
(* Instances of Shop for TLC: the workloads of the configurations.         *)
EXTENDS ShopProps, TLC

MoneyRoutes == {"create", "update", "editProduct", "updateStatus", "cancel",
                "addPayment", "deletePayment", "return"}
GoodsRoutes == {"create", "update", "cancel", "adjust", "supply",
                "createBatch", "writeOff"}
DeskRoutes == {"create", "update", "updateStatus", "cancel", "return",
               "assign", "start", "complete", "handover", "payroll"}

Symmetry == Permutations(Callers) \cup Permutations(PaymentIds)
            \cup Permutations(OrderIds)
DeskSymmetry == Permutations(OrderIds) \cup Permutations(Drivers)
                \cup Permutations(PayoutIds) \cup Permutations(HandoverIds)
                \cup Permutations(Callers)
=============================================================================
