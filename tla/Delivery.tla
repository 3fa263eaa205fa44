------------------------------ MODULE Delivery ------------------------------
(***************************************************************************)
(* delivery.service.ts (assignDriver, start, complete), warehouse.service.ts*)
(* (createHandover) and the payroll of finance.service.ts (payrollClose,   *)
(* payrollPay).  None of them locks the order row when it reads it.        *)
(***************************************************************************)
EXTENDS ShopState

ASSIGNABLE == {"CONFIRMED", "PREPARING", "READY"}

AssignDriverRead(c, o, d) ==
    /\ order[o].orderStatus \in ASSIGNABLE
    /\ Begin(c, "assign", [op |-> "assign", order |-> o, driver |-> d])
    /\ UNCHANGED <<order, item, product, payment, ledger, moved, batch, payout,
                   sheet, lock>>

AssignDriver(c) ==
    LET o == call[c].order
    IN  /\ call[c].op = "assign"
        /\ lock[o] = None
        /\ order' = [order EXCEPT ![o].assignedDriver = call[c].driver,
                                  ![o].deliveryStatus = "ASSIGNED"]
        /\ FinishUnlocked(c, IF order[o].orderStatus \in ASSIGNABLE THEN {} ELSE {o})
        /\ UNCHANGED <<item, product, payment, ledger, moved, batch, payout,
                       sheet, lock, revived>>

-----------------------------------------------------------------------------
(* The driver d of the call is the one who sends it.                       *)

MayStart(o, d) ==
    order[o].assignedDriver = d /\ order[o].deliveryStatus = "ASSIGNED"

StartRead(c, o, d) ==
    /\ MayStart(o, d)
    /\ Begin(c, "start", [op |-> "start", order |-> o, driver |-> d])
    /\ UNCHANGED <<order, item, product, payment, ledger, moved, batch, payout,
                   sheet, lock>>

Start(c) ==
    LET o == call[c].order
    IN  /\ call[c].op = "start"
        /\ lock[o] = None
        /\ order' = [order EXCEPT ![o].deliveryStatus = "ON_THE_WAY"]
        /\ FinishUnlocked(c, IF MayStart(o, call[c].driver) THEN {} ELSE {o})
        /\ UNCHANGED <<item, product, payment, ledger, moved, batch, payout,
                       sheet, lock, revived>>

MayComplete(o, d) ==
    order[o].assignedDriver = d /\ order[o].deliveryStatus # "DELIVERED"

\* op: dto.success is true ("deliver") or false ("fail").
CompleteRead(c, o, d, op) ==
    /\ MayComplete(o, d)
    /\ Begin(c, "complete", [op |-> op, order |-> o, driver |-> d])
    /\ UNCHANGED <<order, item, product, payment, ledger, moved, batch, payout,
                   sheet, lock>>

CompleteDelivered(c) ==
    LET o == call[c].order
    IN  /\ call[c].op = "deliver"
        /\ lock[o] = None
        /\ order' = [order EXCEPT ![o].orderStatus = "COMPLETED",
                                  ![o].deliveryStatus = "DELIVERED"]
        /\ FinishUnlocked(c, IF MayComplete(o, call[c].driver) THEN {} ELSE {o})
        /\ UNCHANGED <<item, product, payment, ledger, moved, batch, payout,
                       sheet, lock, revived>>

CompleteFailed(c) ==
    LET o == call[c].order
    IN  /\ call[c].op = "fail"
        /\ lock[o] = None
        /\ order' = [order EXCEPT ![o].deliveryStatus = "FAILED"]
        /\ FinishUnlocked(c, IF MayComplete(o, call[c].driver) THEN {} ELSE {o})
        /\ UNCHANGED <<item, product, payment, ledger, moved, batch, payout,
                       sheet, lock, revived>>

-----------------------------------------------------------------------------
(* createHandover: the orders are checked outside the transaction, and the *)
(* updateMany of the transaction selects them by id alone.                 *)

MayHandOver(o, d) ==
    /\ Exists(o)
    /\ order[o].handover = None
    /\ order[o].assignedDriver \in {None, d}

CreateHandoverRead(c, d, orders) ==
    /\ orders # {}
    /\ \A o \in orders : MayHandOver(o, d)
    /\ Begin(c, "handover",
             [op |-> "handover", driver |-> d, orders |-> orders])
    /\ UNCHANGED <<order, item, product, payment, ledger, moved, batch, payout,
                   sheet, lock>>

CreateHandover(c, h) ==
    LET d == call[c].driver
    IN  /\ call[c].op = "handover"
        /\ sheet[h] = None
        /\ \A o \in call[c].orders : lock[o] = None
        /\ sheet' = [sheet EXCEPT ![h] = d]
        /\ order' = [o \in OrderIds |->
                       IF o \notin call[c].orders THEN order[o]
                       ELSE [order[o] EXCEPT !.handover = h,
                                             !.orderStatus = "READY",
                                             !.assignedDriver = d,
                                             !.deliveryStatus = "ASSIGNED"]]
        /\ FinishUnlocked(c, {o \in call[c].orders : ~MayHandOver(o, d)})
        /\ revived' = revived \cup {o \in call[c].orders :
                                     order[o].orderStatus = "CANCELLED"}
        /\ UNCHANGED <<item, product, payment, ledger, moved, batch, payout,
                       lock>>

-----------------------------------------------------------------------------
(* payrollClose collects the delivered orders that are in no payout, then  *)
(* creates the payout and marks those orders by id.                        *)

\* Mistake: orders that are paid out count again.
PayableAgain(o, d) ==
    /\ order[o].assignedDriver = d
    /\ order[o].deliveryStatus = "DELIVERED"
    /\ ~order[o].excludeFromPayroll

\* payoutId: null, DELIVERED, no return that is excluded from payroll.
Payable(o, d) ==
    /\ order[o].assignedDriver = d
    /\ order[o].deliveryStatus = "DELIVERED"
    /\ order[o].payout = None
    /\ ~order[o].excludeFromPayroll

PayrollCloseRead(c, d) ==
    LET orders == {o \in OrderIds : Payable(o, d)}
    IN  /\ orders # {}
        /\ Begin(c, "payroll",
                 [op |-> "payrollClose", driver |-> d, orders |-> orders])
        /\ UNCHANGED <<order, item, product, payment, ledger, moved, batch,
                       payout, sheet, lock>>

PayrollClose(c, y) ==
    LET orders == call[c].orders
    IN  /\ call[c].op = "payrollClose"
        /\ payout[y].status = "NONE"
        /\ \A o \in orders : lock[o] = None
        /\ payout' = [payout EXCEPT ![y] =
                        [driver |-> call[c].driver, status |-> "PENDING",
                         deliveredCount |-> Cardinality(orders)]]
        /\ order' = [o \in OrderIds |->
                       IF o \in orders THEN [order[o] EXCEPT !.payout = y]
                       ELSE order[o]]
        /\ FinishUnlocked(c, {o \in orders : ~Payable(o, call[c].driver)})
        /\ UNCHANGED <<item, product, payment, ledger, moved, batch, sheet,
                       lock, revived>>

\* payrollPay: a repeated or late mark writes the same status again.
PayrollPay(y) ==
    /\ payout[y].status = "PENDING"
    /\ payout' = [payout EXCEPT ![y].status = "PAID"]
    /\ UNCHANGED <<order, item, product, payment, ledger, moved, batch, sheet,
                   lock, call, history>>
=============================================================================
