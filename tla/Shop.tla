-------------------------------- MODULE Shop --------------------------------
(***************************************************************************)
(* All handlers that touch an order, its money, its goods and its delivery,*)
(* called at any time in any order by at most |Callers| concurrent requests.*)
(***************************************************************************)
EXTENDS Payments, Delivery

\* Handlers that take their decision and their effect in one step.
SingleStep ==
    \/ \E o \in OrderIds, want \in Baskets : CreateOrder(o, want)
    \/ \E o \in OrderIds, want \in Baskets, i \in PaymentIds :
          CreatePaidOrder(o, want, i)
    \/ \E p \in Products, qty \in -MaxQty..MaxQty : AdjustStock(p, qty)
    \/ \E p \in Products, qty \in 1..MaxQty :
          \/ ReceiveUndated(p, qty)
          \/ \E b \in BatchIds, expiry \in Expiries : ReceiveDated(p, qty, b, expiry)
    \/ \E p \in Products, price \in Prices, isActive \in BOOLEAN :
          EditProduct(p, price, isActive)
    \/ \E y \in PayoutIds : PayrollPay(y)

\* A request takes the lock of an order.
Lock(c) ==
    \/ \E o \in OrderIds : \/ UpdateOrderLock(c, o)
                           \/ AddPaymentLock(c, o)
                           \/ ReturnLock(c, o)
    \/ DeletePaymentLock(c)

\* A request reads and checks without a lock.
Read(c) ==
    \/ \E o \in OrderIds, to \in OrderStatus : UpdateStatusRead(c, o, to)
    \/ \E o \in OrderIds : CancelRead(c, o)
    \/ \E i \in PaymentIds : DeletePaymentFind(c, i)
    \/ \E o \in OrderIds, d \in Drivers :
          \/ AssignDriverRead(c, o, d)
          \/ StartRead(c, o, d)
          \/ CompleteRead(c, o, d, "deliver")
          \/ CompleteRead(c, o, d, "fail")
    \/ \E d \in Drivers, orders \in SUBSET OrderIds :
          CreateHandoverRead(c, d, orders)
    \/ \E d \in Drivers : PayrollCloseRead(c, d)
    \/ \E p \in Products : CreateBatchReadStock(c, p)
    \/ \E qty \in 1..MaxQty : CreateBatchReadTracked(c, qty)
    \/ \E b \in BatchIds : WriteOffRead(c, b)

\* A request that holds a lock commits.
LockedWrite(c) ==
    \/ \E want \in Baskets : UpdateOrder(c, want)
    \/ \E i \in PaymentIds, amount \in Amount : AddPayment(c, i, amount)
    \/ DeletePayment(c)
    \/ \E back \in Baskets, restock, refund, exclude \in BOOLEAN :
          CreateReturn(c, back, restock, refund, exclude)

\* A request that read without a lock commits.
UnlockedWrite(c) ==
    \/ UpdateStatus(c)
    \/ Cancel(c)
    \/ AssignDriver(c)
    \/ Start(c)
    \/ CompleteDelivered(c)
    \/ CompleteFailed(c)
    \/ \E h \in HandoverIds : CreateHandover(c, h)
    \/ \E y \in PayoutIds : PayrollClose(c, y)
    \/ \E b \in BatchIds, expiry \in Expiries : CreateBatch(c, b, expiry)
    \/ WriteOff(c)

Next ==
    \E c \in Callers : \/ call[c] = Idle /\ SingleStep
                       \/ Lock(c)
                       \/ Read(c)
                       \/ LockedWrite(c)
                       \/ UnlockedWrite(c)
                       \/ Abort(c)

Spec == Init /\ [][Next]_vars
=============================================================================
