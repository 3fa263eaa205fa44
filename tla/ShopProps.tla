------------------------------ MODULE ShopProps ------------------------------
(***************************************************************************)
(* What the shop promises.                                                 *)
(***************************************************************************)
EXTENDS Shop

-----------------------------------------------------------------------------
(* Money: true of any number of concurrent requests.                       *)

\* paidAmount is rewritten whole by four handlers; under any interleaving of
\* them it is what the finance entries of the order add up to (the lost
\* update that lock.util.ts exists to prevent).
LedgerAgrees ==
    \A o \in OrderIds :
        order[o].paidAmount = ledger[o].income - ledger[o].refund

\* However payments, edits, refunds and deletions interleave, an order never
\* holds more money than its total (addPayment and update check it against
\* the row they locked).
NeverOverpaid ==
    \A o \in OrderIds : order[o].paidAmount <= order[o].totalAmount

\* paymentStatus is stored, not computed: each of its writers derives it from
\* the amounts it writes.  Only a new order without value is UNPAID at 0 of 0.
PayStatusDerived ==
    \A o \in OrderIds :
        LET row == order[o]
        IN  \/ row.paymentStatus = StatusFor(row.paidAmount, row.totalAmount)
            \/ /\ row.totalAmount = 0 /\ row.paidAmount = 0
               /\ row.paymentStatus = "UNPAID"

\* Income is payment: the booked Payment rows of an order add up to its
\* PAYMENT entries, also when two requests delete the same payment.
PaymentsBooked ==
    \A o \in OrderIds :
        LET booked == {i \in PaymentIds : /\ payment[i].state = "booked"
                                          /\ payment[i].order = o}
        IN  SumFunction([i \in booked |-> payment[i].amount]) = ledger[o].income

\* totalAmount is the sum of the lines at their snapshot prices, whatever
\* edits and product price changes came between.
TotalMatchesLines ==
    \A o \in OrderIds : order[o].totalAmount = OrderTotal(item[o])

\* A line keeps the price it was ordered at for as long as it stays, however
\* the price of the product changes between two edits of the order.
SnapshotPricesKept ==
    [][\A o \in OrderIds, p \in Products :
          (item[o][p].qty > 0 /\ item'[o][p].qty > 0) =>
              item'[o][p].priceAtOrder = item[o][p].priceAtOrder]_vars

\* Returns of several requests together never give back more than a line
\* holds, and the order says FULL exactly when every piece came back.
ReturnsWithinLines ==
    \A o \in OrderIds :
        /\ \A p \in Products : /\ item[o][p].returned <= item[o][p].qty
                               /\ item[o][p].restocked <= item[o][p].returned
        /\ order[o].returnState = "NONE" <=>
               \A p \in Products : item[o][p].returned = 0
        /\ order[o].returnState = "FULL" =>
               \A p \in Products : item[o][p].returned = item[o][p].qty
        /\ order[o].returnState = "PARTIAL" =>
               \E p \in Products : item[o][p].returned < item[o][p].qty

\* The handlers that lock the order look atomic: the order's money is an
\* account on which every operation happens at once.
Account == INSTANCE PaymentAccount WITH
    Accounts <- OrderIds,
    opened <- {o \in OrderIds : Exists(o)},
    due <- [o \in OrderIds |-> order[o].totalAmount],
    collected <- [o \in OrderIds |-> ledger[o].income],
    refunded <- [o \in OrderIds |-> ledger[o].refund],
    shownPaid <- [o \in OrderIds |-> order[o].paidAmount],
    shownStatus <- [o \in OrderIds |-> order[o].paymentStatus]

ImplementsAccount == Account!Spec

\* Whoever holds the lock of an order has read the row as it is: nothing that
\* happens between the read and the commit touches the row or its lines.
LockedSnapshots ==
    \A c \in Callers : call[c].op \in LockingOps =>
        LET o == call[c].order
        IN  /\ lock[o] = c
            /\ Exists(o)
            /\ call[c].row = order[o]
            /\ call[c].item = item[o]

AbsentUnpaid == \A o \in OrderIds : ~Exists(o) => order[o].paidAmount = 0

\* The inductive invariant behind the theorems about money.
MoneyInv ==
    /\ RowTypes
    /\ LockedSnapshots
    /\ AbsentUnpaid
    /\ LedgerAgrees
    /\ NeverOverpaid
    /\ PayStatusDerived

-----------------------------------------------------------------------------
(* What is checked without a lock.  The handlers of the desk, the drivers, *)
(* the payroll and the batches read, check and write later, and nothing    *)
(* keeps what they have checked true until they write.  A write on a check *)
(* that has ceased to hold may break what follows, of the very rows it     *)
(* writes (`stale'), and nothing but such a write may.                     *)

Live(o) == order[o].orderStatus \notin {"ABSENT", "CANCELLED"}

\* Pieces of product p that an order holds: out of the warehouse, not
\* cancelled and not back on the shelf.
Held(o, p) == IF Live(o) THEN item[o][p].qty - item[o][p].restocked ELSE 0

\* The movements that name an order add up to what it holds: every edit,
\* cancel and return gives back what was taken, once (orders.service.ts:448,
\* :619, returns.service.ts:144).  Excepted are orders a request wrote on a
\* stale check, as two cancels of one order do, and cancelled orders that a
\* handover sheet took up again without their goods.
GoodsAccountedFor ==
    \A o \in OrderIds \ (stale \cup revived), p \in Products :
        moved[o][p] = -Held(o, p)

\* No interleaving of orders, edits, supplies and adjustments sells goods that
\* are not there: the decrement is checked after it is applied.  A write-off
\* takes what its batch holds; only one that read another batch than it finds,
\* or that follows a batch made of stock sold meanwhile, may take more
\* (batches.service.ts:163).
StockNotNegative ==
    \A p \in Products \ stale : product[p].stockQty >= 0

\* The expiry batches split the stock, so together they never exceed it but
\* after such a write, and no batch ever holds less than nothing or more than
\* it received.
TrackedWithinStock ==
    /\ \A p \in Products \ stale : Tracked(p) <= product[p].stockQty
    /\ \A b \in BatchIds : batch[b].remaining \in 0..batch[b].qty

-----------------------------------------------------------------------------
(* What else is true of orders under any interleaving.                     *)

\* An order that does not exist yet has no row, no line and no entry.
AbsentBlank ==
    \A o \in OrderIds : ~Exists(o) =>
        /\ order[o] = NoOrder
        /\ item[o] = [p \in Products |-> NoItem]
        /\ ledger[o] = [income |-> 0, refund |-> 0]

\* The orders and the payment a request remembers exist, and the payment is
\* still of the order it was found with.
Known(k) ==
    /\ k.op \in {"updateStatus", "cancel", "assign", "start", "deliver", "fail"}
           => Exists(k.order)
    /\ k.op \in {"handover", "payrollClose"} => \A o \in k.orders : Exists(o)
    /\ k.op \in {"foundPayment", "deletePayment"} =>
           /\ payment[k.payment].state # "free"
           /\ payment[k.payment].order = k.order

CallsKnown == \A c \in Callers : Known(call[c])

PaymentsPositive ==
    \A i \in PaymentIds : payment[i].state # "free" => payment[i].amount > 0

\* The inductive invariant behind the theorems about payments, lines and
\* returns.
OrdersInv ==
    /\ MoneyInv
    /\ AbsentBlank
    /\ CallsKnown
    /\ PaymentsPositive
    /\ PaymentsBooked
    /\ TotalMatchesLines
    /\ ReturnsWithinLines

-----------------------------------------------------------------------------
(* Orders, delivery and payroll *)

\* A delivery that is under way or over has a driver, one that is pending has
\* none; a delivered order is completed and not taken further by another
\* handler; but where two handlers of the order crossed.
DeliveryConsistent ==
    \A o \in OrderIds \ stale :
        /\ order[o].deliveryStatus = "PENDING" <=> order[o].assignedDriver = None
        /\ order[o].deliveryStatus = "DELIVERED" =>
               order[o].orderStatus = "COMPLETED"

Carried(y) == {o \in OrderIds : order[o].payout = y}

\* A payout counts every order that carries its id, and it counts no other
\* but orders two closings took at once, which carry the later id: each
\* delivery is paid in one payout, and only there.  An order with a return
\* that takes it out of the payroll is in none.
PayoutMatchesOrders ==
    /\ \A y \in PayoutIds :
          /\ Cardinality(Carried(y)) <= payout[y].deliveredCount
          /\ payout[y].deliveredCount <=
                 Cardinality(Carried(y) \cup (OrderIds \cap stale))
    /\ \A o \in OrderIds \ stale :
          order[o].excludeFromPayroll => order[o].payout = None

\* A cancelled order has no driver who could complete it, and no money.
CancelledAtRest ==
    \A o \in OrderIds \ stale : order[o].orderStatus = "CANCELLED" =>
        order[o].assignedDriver = None /\ order[o].paidAmount <= 0

\* An order with a return has left the desk for good: it is out or back in the
\* warehouse, never where it could be edited to nothing or cancelled.
ReturnedWentOut ==
    \A o \in OrderIds \ stale : order[o].returnState # "NONE" =>
        order[o].orderStatus \in {"READY", "COMPLETED"}

\* A payout that has not been made counts nothing.
UnusedPayouts ==
    \A y \in PayoutIds : payout[y].status = "NONE" => payout[y].deliveredCount = 0

\* The inductive invariant behind the theorems about desk, drivers and payroll.
DeskInv ==
    /\ OrdersInv
    /\ DeliveryConsistent
    /\ PayoutMatchesOrders
    /\ UnusedPayouts
    /\ CancelledAtRest
    /\ ReturnedWentOut

=============================================================================
