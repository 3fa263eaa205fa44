------------------------------ MODULE Payments ------------------------------
(***************************************************************************)
(* payments.service.ts (addPayment, deletePayment) and returns.service.ts  *)
(* (create).  Each locks the order row, reads it and writes a new          *)
(* paidAmount computed from what it read.                                  *)
(***************************************************************************)
EXTENDS OrderDesk

\* Mistake: compared with the total, not with what is left of it.
FitsTotal(row, amount) == amount <= row.totalAmount

\* `amount.gt(remaining)` is refused.
FitsBalance(row, amount) == amount <= row.totalAmount - row.paidAmount

AddPaymentLock(c, o) ==
    /\ "addPayment" \in Routes
    /\ call[c] = Idle
    /\ LockOrder(c, "addPayment", o, None)
    /\ UNCHANGED <<order, item, product, payment, ledger, moved, batch, payout,
                   sheet>>

\* Mistake: the status is not written with the amount.
SetPaidAlone(o, row, paid) == order' = [order EXCEPT ![o].paidAmount = paid]

\* paidAmount and paymentStatus are written whole.
SetPaid(o, row, paid) ==
    order' = [order EXCEPT
                ![o].paidAmount = paid,
                ![o].paymentStatus = StatusFor(paid, row.totalAmount)]

AddPayment(c, i, amount) ==
    LET o == call[c].order
        row == call[c].row
    IN  /\ call[c].op = "addPayment"
        /\ row.orderStatus # "CANCELLED"
        /\ amount > 0
        /\ FitsBalance(row, amount)
        /\ BookPayment(i, o, amount)
        /\ SetPaid(o, row, row.paidAmount + amount)
        /\ Commit(c, o)
        /\ UNCHANGED <<item, product, moved, batch, payout, sheet>>

-----------------------------------------------------------------------------
(* deletePayment finds the order of the payment, locks the order and reads *)
(* the payment again.                                                      *)

DeletePaymentFind(c, i) ==
    /\ payment[i].state = "booked"
    /\ Begin(c, "deletePayment",
             [op |-> "foundPayment", order |-> payment[i].order, payment |-> i])
    /\ UNCHANGED <<order, item, product, payment, ledger, moved, batch, payout,
                   sheet, lock>>

DeletePaymentLock(c) ==
    /\ call[c].op = "foundPayment"
    /\ LockOrder(c, "deletePayment", call[c].order, call[c].payment)
    /\ UNCHANGED <<order, item, product, payment, ledger, moved, batch, payout,
                   sheet>>

\* Mistake: the payment is not read again under the lock.
WasBooked(i) == payment[i].state # "free"

\* The payment is still there when it is read under the lock.
StillBooked(i) == payment[i].state = "booked"

DeletePayment(c) ==
    LET o == call[c].order
        i == call[c].payment
        row == call[c].row
    IN  /\ call[c].op = "deletePayment"
        /\ StillBooked(i)
        /\ payment' = [payment EXCEPT ![i].state = "deleted"]
        /\ ledger' = [ledger EXCEPT ![o].income = @ - payment[i].amount]
        /\ SetPaid(o, row, row.paidAmount - payment[i].amount)
        /\ Commit(c, o)
        /\ UNCHANGED <<item, product, moved, batch, payout, sheet>>

-----------------------------------------------------------------------------
(* returns.service.ts: create                                              *)

ReturnLock(c, o) ==
    /\ "return" \in Routes
    /\ call[c] = Idle
    /\ LockOrder(c, "return", o, None)
    /\ UNCHANGED <<order, item, product, payment, ledger, moved, batch, payout,
                   sheet>>

Finished(row) ==
    /\ row.orderStatus = "COMPLETED" \/ row.deliveryStatus = "DELIVERED"
    /\ row.orderStatus # "CANCELLED"

\* Mistake: earlier returns of the line are forgotten.
WithinOrdered(lines, back) == \A p \in Products : back[p] <= lines[p].qty

\* No line gives back more than it has left.
WithinLines(lines, back) ==
    \A p \in Products : lines[p].returned + back[p] <= lines[p].qty

ReturnValue(lines, back) ==
    SumFunction([p \in Products |-> lines[p].priceAtOrder * back[p]])

\* Decimal.min(refundAmount, paidAmount) when the request asks for a refund
\* and the minimum is positive, else nothing.
Refund(row, lines, back, asked) ==
    LET value == ReturnValue(lines, back)
        refundable == IF value <= row.paidAmount THEN value ELSE row.paidAmount
    IN  IF asked /\ refundable > 0 THEN refundable ELSE 0

ReturnStateAfter(lines, back) ==
    IF \A p \in Products : lines[p].returned + back[p] >= lines[p].qty
    THEN "FULL" ELSE "PARTIAL"

ReturnedLines(lines, back, restock) ==
    [p \in Products |->
        [lines[p] EXCEPT !.returned = @ + back[p],
                         !.restocked = @ + (IF restock THEN back[p] ELSE 0)]]

CreateReturn(c, back, restock, refundPayment, exclude) ==
    LET o == call[c].order
        row == call[c].row
        lines == call[c].item
        refund == Refund(row, lines, back, refundPayment)
        paid == row.paidAmount - refund
    IN  /\ call[c].op = "return"
        /\ Finished(row)
        /\ exclude => row.payout = None
        /\ WithinLines(lines, back)
        /\ ReturnValue(lines, back) \in Amount
        /\ MoveForOrder(o, [p \in Products |-> IF restock THEN back[p] ELSE 0])
        /\ item' = [item EXCEPT ![o] = ReturnedLines(lines, back, restock)]
        /\ order' = [order EXCEPT
                       ![o].returnState = ReturnStateAfter(lines, back),
                       ![o].excludeFromPayroll = @ \/ exclude,
                       ![o].paidAmount = IF refund > 0 THEN paid ELSE @,
                       ![o].paymentStatus =
                           IF refund > 0 THEN StatusFor(paid, row.totalAmount)
                           ELSE @]
        /\ ledger' = [ledger EXCEPT ![o].refund = @ + refund]
        /\ Commit(c, o)
        /\ UNCHANGED <<payment, payout, sheet>>
=============================================================================
