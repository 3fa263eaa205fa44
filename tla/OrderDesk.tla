------------------------------ MODULE OrderDesk ------------------------------
(***************************************************************************)
(* orders.service.ts: create, update and updateStatus.                     *)
(***************************************************************************)
EXTENDS Inventory

StatusFor(paid, total) ==
    CASE paid >= total -> "PAID"
      [] paid < total /\ paid > 0 -> "PARTIAL"
      [] paid < total /\ paid <= 0 -> "UNPAID"

\* The lineTotal of every line and the totalAmount of an order.
LineTotals(lines) ==
    [p \in Products |-> lines[p].priceAtOrder * lines[p].qty]
OrderTotal(lines) == SumFunction(LineTotals(lines))

FreePayments == {i \in PaymentIds : payment[i].state = "free"}

\* Mistake: the Payment row does not name its order.
BookPaymentLoose(i, o, amount) ==
    /\ i \in FreePayments
    /\ payment' = [payment EXCEPT ![i] =
                     [state |-> "booked", order |-> None, amount |-> amount]]
    /\ ledger' = [ledger EXCEPT ![o].income = @ + amount]

\* A Payment row and its INCOME entry; the order's paidAmount is the caller's.
BookPayment(i, o, amount) ==
    /\ i \in FreePayments
    /\ payment' = [payment EXCEPT ![i] =
                     [state |-> "booked", order |-> o, amount |-> amount]]
    /\ ledger' = [ledger EXCEPT ![o].income = @ + amount]

-----------------------------------------------------------------------------
(* create: one transaction.  Its reads decide nothing that the conditional *)
(* decrement of the Product rows does not decide again, so it is one step. *)

NewLines(want) ==
    [p \in Products |->
        IF want[p] = 0 THEN NoItem
        ELSE [NoItem EXCEPT !.qty = want[p],
                            !.priceAtOrder = product[p].price]]

NewOrder(total) ==
    [NoOrder EXCEPT !.orderStatus = "NEW", !.totalAmount = total]

PlaceOrder(o, want) ==
    /\ "create" \in Routes
    /\ ~Exists(o)
    /\ \A p \in Products : want[p] > 0 => product[p].isActive
    /\ Enough([p \in Products |-> -want[p]])
    /\ OrderTotal(NewLines(want)) \in Amount
    /\ MoveForOrder(o, [p \in Products |-> -want[p]])
    /\ item' = [item EXCEPT ![o] = NewLines(want)]
    /\ UNCHANGED <<payout, sheet, lock, call, history>>

CreateOrder(o, want) ==
    /\ PlaceOrder(o, want)
    /\ order' = [order EXCEPT ![o] = NewOrder(OrderTotal(NewLines(want)))]
    /\ UNCHANGED <<payment, ledger>>

\* markPaid && totalAmount > 0: the full payment is booked with the order.
CreatePaidOrder(o, want, i) ==
    LET total == OrderTotal(NewLines(want))
    IN  /\ PlaceOrder(o, want)
        /\ total > 0
        /\ BookPayment(i, o, total)
        /\ order' = [order EXCEPT ![o] =
                       [NewOrder(total) EXCEPT !.paidAmount = total,
                                               !.paymentStatus = "PAID"]]

-----------------------------------------------------------------------------
(* update: under the row lock.  A change of the address alone changes      *)
(* nothing that is modelled.                                               *)

EDITABLE == {"NEW", "CONFIRMED", "PREPARING", "READY"}

\* Mistake: every line of an edit takes today's price.
EditedLinesRepriced(lines, want) ==
    [p \in Products |->
        IF want[p] = 0 THEN NoItem
        ELSE [NoItem EXCEPT !.qty = want[p],
                            !.priceAtOrder = product[p].price]]

\* Lines that stay keep the price of their snapshot, new lines take today's.
EditedLines(lines, want) ==
    [p \in Products |->
        IF want[p] = 0 THEN NoItem
        ELSE IF lines[p].qty > 0 THEN [lines[p] EXCEPT !.qty = want[p]]
        ELSE [NoItem EXCEPT !.qty = want[p],
                            !.priceAtOrder = product[p].price]]

MayEdit(row, lines) ==
    /\ row.orderStatus \in EDITABLE
    /\ \A p \in Products : lines[p].returned = 0

\* Mistake: an edit forgets what is paid.
CoversAnything(row, total) == TRUE

\* The edit may not take the total below what is paid.
CoversPaid(row, total) == row.paidAmount <= total

UpdateOrderLock(c, o) ==
    /\ "update" \in Routes
    /\ call[c] = Idle
    /\ LockOrder(c, "update", o, None)
    /\ UNCHANGED <<order, item, product, payment, ledger, moved, batch, payout,
                   sheet>>

UpdateOrder(c, want) ==
    LET o == call[c].order
        row == call[c].row
        lines == EditedLines(call[c].item, want)
        total == OrderTotal(lines)
        back == [p \in Products |-> call[c].item[p].qty - want[p]]
    IN  /\ call[c].op = "update"
        /\ MayEdit(row, call[c].item)
        /\ \A p \in Products : back[p] < 0 => product[p].isActive
        /\ Enough(back)
        /\ CoversPaid(row, total)
        /\ total \in Amount
        /\ MoveForOrder(o, back)
        /\ item' = [item EXCEPT ![o] = lines]
        /\ order' = [order EXCEPT
                       ![o].totalAmount = total,
                       ![o].paymentStatus = StatusFor(row.paidAmount, total)]
        /\ Commit(c, o)
        /\ UNCHANGED <<payment, ledger, payout, sheet>>

-----------------------------------------------------------------------------
(* updateStatus: the order is read and checked without a lock.             *)

\* Mistake: a completed order can still be cancelled.
TransitionsCancelCompleted ==
    [NEW |-> {"CONFIRMED", "CANCELLED"},
     CONFIRMED |-> {"PREPARING", "COMPLETED", "CANCELLED"},
     PREPARING |-> {"READY", "COMPLETED", "CANCELLED"},
     READY |-> {"COMPLETED"},
     COMPLETED |-> {"CANCELLED"},
     CANCELLED |-> {}]

ALLOWED_TRANSITIONS ==
    [NEW |-> {"CONFIRMED", "CANCELLED"},
     CONFIRMED |-> {"PREPARING", "COMPLETED", "CANCELLED"},
     PREPARING |-> {"READY", "COMPLETED", "CANCELLED"},
     READY |-> {"COMPLETED"},
     COMPLETED |-> {},
     CANCELLED |-> {}]

MayMove(o, to) ==
    /\ Exists(o)
    /\ to \in ALLOWED_TRANSITIONS[order[o].orderStatus]

MayCancel(o) == MayMove(o, "CANCELLED") /\ order[o].paidAmount <= 0

UpdateStatusRead(c, o, to) ==
    /\ to # "CANCELLED"
    /\ MayMove(o, to)
    /\ Begin(c, "updateStatus", [op |-> "updateStatus", order |-> o, to |-> to])
    /\ UNCHANGED <<order, item, product, payment, ledger, moved, batch, payout,
                   sheet, lock>>

UpdateStatus(c) ==
    LET o == call[c].order
    IN  /\ call[c].op = "updateStatus"
        /\ lock[o] = None
        /\ order' = [order EXCEPT ![o].orderStatus = call[c].to]
        /\ FinishUnlocked(c, IF MayMove(o, call[c].to) THEN {} ELSE {o})
        /\ UNCHANGED <<item, product, payment, ledger, moved, batch, payout,
                       sheet, lock, revived>>

CancelRead(c, o) ==
    /\ MayCancel(o)
    /\ Begin(c, "cancel", [op |-> "cancel", order |-> o, item |-> item[o]])
    /\ UNCHANGED <<order, item, product, payment, ledger, moved, batch, payout,
                   sheet, lock>>

SameLines(c, o) == \A p \in Products : call[c].item[p].qty = item[o][p].qty

\* Mistake: the driver stays on a cancelled order.
CancelKeepsDriver(c) ==
    LET o == call[c].order
    IN  /\ call[c].op = "cancel"
        /\ lock[o] = None
        /\ MoveForOrder(o, [p \in Products |-> call[c].item[p].qty])
        /\ order' = [order EXCEPT ![o].orderStatus = "CANCELLED",
                                  ![o].deliveryStatus = "PENDING"]
        /\ FinishUnlocked(c, IF MayCancel(o) /\ SameLines(c, o) THEN {} ELSE {o})
        /\ UNCHANGED <<item, payment, ledger, payout, sheet, lock, revived>>

\* The stock gets back the lines that were read, not the lines of now.
Cancel(c) ==
    LET o == call[c].order
    IN  /\ call[c].op = "cancel"
        /\ lock[o] = None
        /\ MoveForOrder(o, [p \in Products |-> call[c].item[p].qty])
        /\ order' = [order EXCEPT ![o].orderStatus = "CANCELLED",
                                  ![o].assignedDriver = None,
                                  ![o].deliveryStatus = "PENDING"]
        /\ FinishUnlocked(c, IF MayCancel(o) /\ SameLines(c, o) THEN {} ELSE {o})
        /\ UNCHANGED <<item, payment, ledger, payout, sheet, lock, revived>>
=============================================================================
