----------------------------- MODULE ShopProofs -----------------------------
(***************************************************************************)
(* The money of orders is right for every number of orders, requests,      *)
(* products and amounts: MoneyInv is inductive.                            *)
(***************************************************************************)
EXTENDS ShopProps, FiniteSetTheorems, TLAPS

USE NoneAssumption, BoundsAssumption, PricesAssumption
    DEF NoneAssumption, BoundsAssumption, PricesAssumption

\* A status derived from amounts is one of the enum.
LEMMA StatusForType ==
    ASSUME NEW paid \in Int, NEW total \in Int
    PROVE  StatusFor(paid, total) \in PaymentStatus
BY DEF StatusFor, PaymentStatus

\* A change of the stock leaves well-typed products: the column holds it.
LEMMA MoveStockType ==
    ASSUME RowTypes
    PROVE  \A delta : MoveStock(delta) => product' \in [Products -> ProductRow]
<1> SUFFICES ASSUME NEW delta, MoveStock(delta)
             PROVE  product' \in [Products -> ProductRow]
  OBVIOUS
<1>1. ASSUME NEW p \in Products
      PROVE  [product[p] EXCEPT !.stockQty = @ + delta[p]] \in ProductRow
  <2>1. product[p] \in ProductRow
    BY DEF RowTypes
  <2>2. product[p].stockQty + delta[p] \in Int
    BY DEF MoveStock
  <2>3. QED BY <2>1, <2>2 DEF ProductRow
<1>2. QED BY <1>1 DEF MoveStock

\* So does a movement for an order, with whole movement sums.
LEMMA MoveForOrderTypes ==
    ASSUME RowTypes
    PROVE  \A o \in OrderIds, delta \in [Products -> Int] :
               MoveForOrder(o, delta) =>
                   /\ product' \in [Products -> ProductRow]
                   /\ moved' \in [OrderIds -> [Products -> Int]]
<1> SUFFICES ASSUME NEW o \in OrderIds, NEW delta \in [Products -> Int],
                    MoveForOrder(o, delta)
             PROVE  /\ product' \in [Products -> ProductRow]
                    /\ moved' \in [OrderIds -> [Products -> Int]]
  OBVIOUS
<1>1. product' \in [Products -> ProductRow]
  BY MoveStockType DEF MoveForOrder
<1>2. moved \in [OrderIds -> [Products -> Int]]
  BY DEF RowTypes
<1>3. [p \in Products |-> moved[o][p] + delta[p]] \in [Products -> Int]
  <2>1. \A p \in Products : moved[o][p] \in Int /\ delta[p] \in Int
    BY <1>2
  <2>2. QED BY <2>1
<1>4. moved' \in [OrderIds -> [Products -> Int]]
  BY <1>2, <1>3 DEF MoveForOrder
<1>5. QED BY <1>1, <1>4

\* What a request in flight remembers, by the handler it is in.
LEMMA CallTypes ==
    ASSUME RowTypes, NEW c \in Callers
    PROVE  /\ call[c].op \in LockingOps =>
                /\ call[c].order \in OrderIds
                /\ call[c].row \in OrderRow
                /\ call[c].item \in [Products -> ItemRow]
           /\ call[c].op = "deletePayment" => call[c].payment \in PaymentIds
           /\ call[c].op = "foundPayment" =>
                call[c].order \in OrderIds /\ call[c].payment \in PaymentIds
           /\ call[c].op = "updateStatus" =>
                /\ call[c].order \in OrderIds
                /\ call[c].to \in OrderStatus \ {"ABSENT", "CANCELLED"}
           /\ call[c].op = "cancel" =>
                /\ call[c].order \in OrderIds
                /\ call[c].item \in [Products -> ItemRow]
           /\ call[c].op \in {"assign", "start", "deliver", "fail"} =>
                call[c].order \in OrderIds /\ call[c].driver \in Drivers
           /\ call[c].op \in {"handover", "payrollClose"} =>
                /\ call[c].driver \in Drivers
                /\ call[c].orders \subseteq OrderIds
           /\ call[c].op = "createBatch" => call[c].product \in Products
           /\ call[c].op = "writeOff" => call[c].remaining \in Int
<1>1. call[c] \in CallState
  BY DEF RowTypes
<1>2. QED BY <1>1 DEF CallState, Idle, LockingOps

\* Before the first request no order exists and no money has moved.
LEMMA InitMoney == Init => MoneyInv
<1> SUFFICES ASSUME Init PROVE MoneyInv
  OBVIOUS
<1>1. RowTypes
  <2>1. order \in [OrderIds -> OrderRow]
    BY DEF Init, OrderRow, NoOrder, OrderStatus, DeliveryStatus, PaymentStatus,
           ReturnState, Amount
  <2>2. item \in [OrderIds -> [Products -> ItemRow]]
    BY DEF Init, ItemRow, NoItem
  <2>3. product \in [Products -> ProductRow]
    <3>1. ASSUME NEW p \in Products
          PROVE  product[p] \in ProductRow
      <4>1. product[p] \in [stockQty : {InitialStock}, price : Prices,
                            isActive : {TRUE}]
        BY DEF Init
      <4>2. InitialStock \in Int
        OBVIOUS
      <4>3. QED BY <4>1, <4>2 DEF ProductRow
    <3>2. QED BY <3>1 DEF Init
  <2>4. payment \in [PaymentIds -> PaymentRow]
    BY DEF Init, PaymentRow, NoPayment
  <2>5. payout \in [PayoutIds -> PayoutRow]
    BY DEF Init, PayoutRow, NoPayout
  <2>6. call \in [Callers -> CallState]
    BY DEF Init, CallState
  <2>7. QED BY <2>1, <2>2, <2>3, <2>4, <2>5, <2>6 DEF Init, RowTypes
<1>2. LockedSnapshots
  BY DEF Init, LockedSnapshots, Idle, LockingOps
<1>3. AbsentUnpaid /\ LedgerAgrees /\ NeverOverpaid /\ PayStatusDerived
  BY DEF Init, AbsentUnpaid, LedgerAgrees, NeverOverpaid, PayStatusDerived,
         NoOrder
<1>4. QED BY <1>1, <1>2, <1>3 DEF MoneyInv

-----------------------------------------------------------------------------
(* Two kinds of step.  A step of one kind writes order rows that nobody has *)
(* locked and leaves money alone; a step of the other commits what a        *)
(* request computed under the lock it holds.                                *)

\* Orders outside S stay; those in S keep their money and do not vanish.
MoneyKept(S) ==
    /\ \A o \in S : lock[o] = None
    /\ \A o \in OrderIds \ S : order'[o] = order[o]
    /\ \A o \in S :
          /\ order'[o].paidAmount = order[o].paidAmount
          /\ order'[o].totalAmount = order[o].totalAmount
          /\ order'[o].paymentStatus = order[o].paymentStatus
          /\ Exists(o) => order'[o].orderStatus # "ABSENT"
    /\ UNCHANGED <<item, ledger, lock>>

\* A request that writes only unlocked rows, and no money, disturbs neither
\* the requests that hold locks nor the balance of any order.
LEMMA UnlockedStep ==
    ASSUME MoneyInv, NEW c \in Callers
    PROVE  \A S, r :
             (/\ MoneyKept(S) /\ r.op \notin LockingOps
              /\ call' = [call EXCEPT ![c] = r]) =>
                 /\ LockedSnapshots' /\ AbsentUnpaid' /\ LedgerAgrees'
                 /\ NeverOverpaid' /\ PayStatusDerived'
<1> SUFFICES ASSUME NEW S, NEW r, MoneyKept(S), r.op \notin LockingOps,
                    call' = [call EXCEPT ![c] = r]
             PROVE  /\ LockedSnapshots' /\ AbsentUnpaid' /\ LedgerAgrees'
                    /\ NeverOverpaid' /\ PayStatusDerived'
  OBVIOUS
<1>1. ASSUME NEW d \in Callers, call'[d].op \in LockingOps
      PROVE  /\ call'[d] = call[d]
             /\ lock[call[d].order] = d
             /\ call[d].order \in OrderIds \ S
  <2>1. call'[d] = call[d] /\ call[d].op \in LockingOps
    BY <1>1 DEF MoneyInv, RowTypes
  <2>2. lock[call[d].order] = d /\ d # None
    BY <2>1 DEF MoneyInv, LockedSnapshots
  <2>3. call[d].order \in OrderIds
    BY <2>1, CallTypes DEF MoneyInv
  <2>4. QED BY <2>1, <2>2, <2>3 DEF MoneyKept
<1>2. LockedSnapshots'
  <2>1. SUFFICES ASSUME NEW d \in Callers, call'[d].op \in LockingOps
                 PROVE  LET o == call'[d].order
                        IN  /\ lock'[o] = d
                            /\ order'[o].orderStatus # "ABSENT"
                            /\ call'[d].row = order'[o]
                            /\ call'[d].item = item'[o]
    BY DEF LockedSnapshots, Exists
  <2>2. call[d].op \in LockingOps
    BY <2>1, <1>1
  <2>3. QED BY <1>1, <2>1, <2>2
            DEF MoneyInv, LockedSnapshots, MoneyKept, Exists
<1>3. AbsentUnpaid'
  BY DEF MoneyInv, AbsentUnpaid, MoneyKept, Exists
<1>4. LedgerAgrees' /\ NeverOverpaid'
  BY DEF MoneyInv, LedgerAgrees, NeverOverpaid, MoneyKept
<1>5. PayStatusDerived'
  BY DEF MoneyInv, PayStatusDerived, MoneyKept
<1>6. QED BY <1>2, <1>3, <1>4, <1>5

\* The balance of order o is right.
Balanced(o) ==
    LET row == order[o]
    IN  /\ row.orderStatus # "ABSENT"
        /\ row.paidAmount = ledger[o].income - ledger[o].refund
        /\ row.paidAmount <= row.totalAmount
        /\ \/ row.paymentStatus = StatusFor(row.paidAmount, row.totalAmount)
           \/ /\ row.totalAmount = 0 /\ row.paidAmount = 0
              /\ row.paymentStatus = "UNPAID"

\* Only order o changes.
OnlyOrder(o) ==
    \A x \in OrderIds \ {o} : /\ order'[x] = order[x]
                              /\ item'[x] = item[x]
                              /\ ledger'[x] = ledger[x]

\* A request that commits a balanced row under its lock keeps all balances:
\* no other request holds the lock of that order.
LEMMA LockedStep ==
    ASSUME MoneyInv, NEW c \in Callers, call[c].op \in LockingOps,
           Commit(c, call[c].order), OnlyOrder(call[c].order),
           \A o : o = call[c].order => Balanced(o)'
    PROVE  /\ LockedSnapshots' /\ AbsentUnpaid' /\ LedgerAgrees'
           /\ NeverOverpaid' /\ PayStatusDerived'
<1> DEFINE o == call[c].order
<1>1. o \in OrderIds /\ lock[o] = c /\ c # None
  BY CallTypes DEF MoneyInv, LockedSnapshots
<1>2. /\ order'[o].orderStatus # "ABSENT"
      /\ order'[o].paidAmount = ledger'[o].income - ledger'[o].refund
      /\ order'[o].paidAmount <= order'[o].totalAmount
      /\ \/ order'[o].paymentStatus
               = StatusFor(order'[o].paidAmount, order'[o].totalAmount)
         \/ /\ order'[o].totalAmount = 0 /\ order'[o].paidAmount = 0
            /\ order'[o].paymentStatus = "UNPAID"
  BY DEF Balanced
<1>3. \A x \in OrderIds \ {o} : /\ order'[x] = order[x]
                                /\ item'[x] = item[x]
                                /\ ledger'[x] = ledger[x]
  BY DEF OnlyOrder
<1>4. LockedSnapshots'
  <2>1. SUFFICES ASSUME NEW d \in Callers, call'[d].op \in LockingOps
                 PROVE  LET x == call'[d].order
                        IN  /\ lock'[x] = d
                            /\ order'[x].orderStatus # "ABSENT"
                            /\ call'[d].row = order'[x]
                            /\ call'[d].item = item'[x]
    BY DEF LockedSnapshots, Exists
  <2>2. d # c /\ call'[d] = call[d]
    BY <2>1 DEF MoneyInv, RowTypes, Commit, Finish, Idle, LockingOps
  <2>3. call[d].order \in OrderIds /\ call[d].order # o
    BY <2>1, <2>2, <1>1, CallTypes DEF MoneyInv, LockedSnapshots
  <2>4. lock'[call[d].order] = lock[call[d].order]
    BY <2>3 DEF Commit, MoneyInv, RowTypes
  <2>5. QED BY <2>1, <2>2, <2>3, <2>4, <1>3
            DEF MoneyInv, LockedSnapshots, Exists
<1>5. AbsentUnpaid'
  BY <1>2, <1>3 DEF MoneyInv, AbsentUnpaid, Exists
<1>6. LedgerAgrees' /\ NeverOverpaid'
  BY <1>2, <1>3 DEF MoneyInv, LedgerAgrees, NeverOverpaid
<1>7. PayStatusDerived'
  BY <1>2, <1>3 DEF MoneyInv, PayStatusDerived
<1>8. QED BY <1>4, <1>5, <1>6, <1>7

-----------------------------------------------------------------------------
(* The handlers, one lemma for each kind of step of Next.                   *)

\* A request that takes a lock remembers the row as it is, and only the
\* request that holds a lock can take it from there.
LEMMA LockOrderStep ==
    ASSUME MoneyInv, NEW c \in Callers, call[c].op \notin LockingOps,
           NEW op \in LockingOps,
           UNCHANGED <<order, item, product, payment, ledger, moved, batch,
                       payout, sheet>>
    PROVE  \A o, i :
             (/\ o \in OrderIds /\ LockOrder(c, op, o, i)
              /\ IF op = "deletePayment" THEN i \in PaymentIds
                                         ELSE i = None) => MoneyInv'
<1> SUFFICES ASSUME NEW o \in OrderIds, NEW i, LockOrder(c, op, o, i),
                    IF op = "deletePayment" THEN i \in PaymentIds
                                            ELSE i = None
             PROVE  MoneyInv'
  OBVIOUS
<1> DEFINE r == [op |-> op, order |-> o, row |-> order[o], item |-> item[o],
                 payment |-> i]
<1>1. RowTypes'
  <2>1. r \in CallState
    BY DEF MoneyInv, RowTypes, CallState
  <2>2. call' = [call EXCEPT ![c] = r]
    BY DEF LockOrder
  <2>3. call' \in [Callers -> CallState]
    BY <2>1, <2>2 DEF MoneyInv, RowTypes
  <2>4. lock' \in [OrderIds -> Callers \cup {None}]
    BY DEF LockOrder, MoneyInv, RowTypes
  <2>5. QED BY <2>3, <2>4 DEF MoneyInv, RowTypes
<1>2. LockedSnapshots'
  <2>1. SUFFICES ASSUME NEW d \in Callers, call'[d].op \in LockingOps
                 PROVE  LET x == call'[d].order
                        IN  /\ lock'[x] = d
                            /\ order[x].orderStatus # "ABSENT"
                            /\ call'[d].row = order[x]
                            /\ call'[d].item = item[x]
    BY DEF LockedSnapshots, Exists
  <2>2. CASE d = c
    <3>1. call'[d] = r
      BY <2>2 DEF LockOrder, MoneyInv, RowTypes
    <3>2. lock'[o] = c /\ order[o].orderStatus # "ABSENT"
      BY DEF LockOrder, MoneyInv, RowTypes, Exists
    <3>3. QED BY <2>2, <3>1, <3>2
  <2>3. CASE d # c
    <3>1. call'[d] = call[d]
      BY <2>3 DEF LockOrder, MoneyInv, RowTypes
    <3>2. /\ lock[call[d].order] = d /\ d # None
          /\ call[d].order \in OrderIds
      BY <2>1, <3>1, CallTypes DEF MoneyInv, LockedSnapshots
    <3>3. lock'[call[d].order] = d
      BY <3>2 DEF LockOrder, MoneyInv, RowTypes
    <3>4. QED BY <2>1, <3>1, <3>3 DEF MoneyInv, LockedSnapshots, Exists
  <2>4. QED BY <2>2, <2>3
<1>3. (AbsentUnpaid /\ LedgerAgrees /\ NeverOverpaid /\ PayStatusDerived)'
  BY DEF MoneyInv, AbsentUnpaid, LedgerAgrees, NeverOverpaid, PayStatusDerived,
         Exists
<1>4. QED BY <1>1, <1>2, <1>3 DEF MoneyInv

\* Every handler that locks starts from a request that holds no lock.
LEMMA LockKeeps ==
    ASSUME MoneyInv, NEW c \in Callers, Lock(c)
    PROVE  MoneyInv'
<1>1. ASSUME NEW o \in OrderIds, UpdateOrderLock(c, o) PROVE MoneyInv'
  BY <1>1, LockOrderStep DEF UpdateOrderLock, Idle, LockingOps
<1>2. ASSUME NEW o \in OrderIds, AddPaymentLock(c, o) PROVE MoneyInv'
  BY <1>2, LockOrderStep DEF AddPaymentLock, Idle, LockingOps
<1>3. ASSUME NEW o \in OrderIds, ReturnLock(c, o) PROVE MoneyInv'
  BY <1>3, LockOrderStep DEF ReturnLock, Idle, LockingOps
<1>4. ASSUME DeletePaymentLock(c) PROVE MoneyInv'
  <2>1. call[c].order \in OrderIds /\ call[c].payment \in PaymentIds
    BY <1>4, CallTypes DEF DeletePaymentLock, MoneyInv
  <2>2. QED BY <1>4, <2>1, LockOrderStep DEF DeletePaymentLock, LockingOps
<1>5. QED BY <1>1, <1>2, <1>3, <1>4 DEF Lock

\* A request that reads without a lock remembers well-typed values and
\* changes no row.
LEMMA ReadStep ==
    ASSUME MoneyInv, NEW c \in Callers,
           UNCHANGED <<order, item, product, payment, ledger, moved, batch,
                       payout, sheet, lock>>
    PROVE  \A r \in CallState :
             (r.op \notin LockingOps /\ call' = [call EXCEPT ![c] = r])
                 => MoneyInv'
<1> SUFFICES ASSUME NEW r \in CallState, r.op \notin LockingOps,
                    call' = [call EXCEPT ![c] = r]
             PROVE  MoneyInv'
  OBVIOUS
<1>1. RowTypes'
  BY DEF MoneyInv, RowTypes
<1>2. MoneyKept({})
  BY DEF MoneyKept
<1>3. /\ LockedSnapshots' /\ AbsentUnpaid' /\ LedgerAgrees'
      /\ NeverOverpaid' /\ PayStatusDerived'
  BY <1>2, UnlockedStep
<1>4. QED BY <1>1, <1>3 DEF MoneyInv

\* Every handler that reads first remembers only that.
LEMMA ReadKeeps ==
    ASSUME MoneyInv, NEW c \in Callers, Read(c)
    PROVE  MoneyInv'
<1> USE DEF LockingOps
<1>1. ASSUME NEW o \in OrderIds, NEW to \in OrderStatus,
             UpdateStatusRead(c, o, to)
      PROVE  MoneyInv'
  <2>1. to # "ABSENT"
    <3>1. order[o].orderStatus # "ABSENT"
          /\ to \in ALLOWED_TRANSITIONS[order[o].orderStatus]
      BY <1>1 DEF UpdateStatusRead, MayMove, Exists
    <3>2. order[o].orderStatus \in OrderStatus
      BY DEF MoneyInv, RowTypes, OrderRow
    <3>3. \A s \in OrderStatus \ {"ABSENT"} : "ABSENT" \notin ALLOWED_TRANSITIONS[s]
      BY DEF ALLOWED_TRANSITIONS, OrderStatus
    <3>4. QED BY <3>1, <3>2, <3>3
  <2>2. [op |-> "updateStatus", order |-> o, to |-> to] \in CallState
    BY <1>1, <2>1 DEF CallState, UpdateStatusRead
  <2>3. QED BY <1>1, <2>2, ReadStep DEF UpdateStatusRead, Begin
<1>2. ASSUME NEW o \in OrderIds, CancelRead(c, o) PROVE MoneyInv'
  <2>1. [op |-> "cancel", order |-> o, item |-> item[o]] \in CallState
    BY DEF CallState, MoneyInv, RowTypes
  <2>2. QED BY <1>2, <2>1, ReadStep DEF CancelRead, Begin
<1>3. ASSUME NEW i \in PaymentIds, DeletePaymentFind(c, i) PROVE MoneyInv'
  <2>1. payment[i].order \in OrderIds
    BY <1>3 DEF DeletePaymentFind, MoneyInv, RowTypes, PaymentRow, NoPayment
  <2>2. [op |-> "foundPayment", order |-> payment[i].order, payment |-> i]
            \in CallState
    BY <2>1 DEF CallState
  <2>3. QED BY <1>3, <2>2, ReadStep DEF DeletePaymentFind, Begin
<1>4. ASSUME NEW o \in OrderIds, NEW d \in Drivers,
             \/ AssignDriverRead(c, o, d)
             \/ StartRead(c, o, d)
             \/ CompleteRead(c, o, d, "deliver")
             \/ CompleteRead(c, o, d, "fail")
      PROVE  MoneyInv'
  <2>1. \A op \in {"assign", "start", "deliver", "fail"} :
          [op |-> op, order |-> o, driver |-> d] \in CallState
    BY DEF CallState
  <2>2. QED BY <1>4, <2>1, ReadStep
            DEF AssignDriverRead, StartRead, CompleteRead, Begin
<1>5. ASSUME NEW d \in Drivers, NEW orders \in SUBSET OrderIds,
             CreateHandoverRead(c, d, orders)
      PROVE  MoneyInv'
  <2>1. [op |-> "handover", driver |-> d, orders |-> orders] \in CallState
    BY DEF CallState
  <2>2. QED BY <1>5, <2>1, ReadStep DEF CreateHandoverRead, Begin
<1>6. ASSUME NEW d \in Drivers, PayrollCloseRead(c, d) PROVE MoneyInv'
  <2> DEFINE orders == {o \in OrderIds : Payable(o, d)}
  <2>1. [op |-> "payrollClose", driver |-> d, orders |-> orders] \in CallState
    BY DEF CallState
  <2>2. QED BY <1>6, <2>1, ReadStep DEF PayrollCloseRead, Begin
<1>7. ASSUME NEW p \in Products, CreateBatchReadStock(c, p) PROVE MoneyInv'
  <2>1. [op |-> "createBatch", product |-> p, stockQty |-> product[p].stockQty]
            \in CallState
    BY DEF CallState, MoneyInv, RowTypes, ProductRow
  <2>2. QED BY <1>7, <2>1, ReadStep DEF CreateBatchReadStock, Begin
<1>8. ASSUME NEW qty \in 1..MaxQty, CreateBatchReadTracked(c, qty)
      PROVE  MoneyInv'
  <2>1. call[c].product \in Products
    BY <1>8, CallTypes DEF CreateBatchReadTracked, MoneyInv
  <2>2. [op |-> "insertBatch", product |-> call[c].product, qty |-> qty]
            \in CallState
    BY <2>1 DEF CallState
  <2>3. QED BY <1>8, <2>2, ReadStep DEF CreateBatchReadTracked
<1>9. ASSUME NEW b \in BatchIds, WriteOffRead(c, b) PROVE MoneyInv'
  <2>1. [op |-> "writeOff", batch |-> b, remaining |-> batch[b].remaining]
            \in CallState
    BY <1>9 DEF CallState, WriteOffRead
  <2>2. QED BY <1>9, <2>1, ReadStep DEF WriteOffRead, Begin
<1>10. QED BY <1>1, <1>2, <1>3, <1>4, <1>5, <1>6, <1>7, <1>8, <1>9 DEF Read

\* The end of a request that writes rows without having locked them.
LEMMA UnlockedWriteStep ==
    ASSUME MoneyInv, NEW c \in Callers, Finish(c),
           order' \in [OrderIds -> OrderRow],
           product' \in [Products -> ProductRow],
           moved' \in [OrderIds -> [Products -> Int]],
           payout' \in [PayoutIds -> PayoutRow],
           sheet' \in [HandoverIds -> Drivers \cup {None}],
           UNCHANGED <<item, payment, ledger, lock>>
    PROVE  \A S : MoneyKept(S) => MoneyInv'
<1>1. Idle.op \notin LockingOps /\ Idle \in CallState
  BY DEF Idle, LockingOps, CallState
<1>2. RowTypes'
  BY <1>1 DEF MoneyInv, RowTypes, Finish
<1>3. QED BY <1>1, <1>2, UnlockedStep DEF MoneyInv, Finish

\* The handlers that write one order row: none of them writes money.
LEMMA OneOrderKeeps ==
    ASSUME MoneyInv, NEW c \in Callers,
           \/ UpdateStatus(c) \/ Cancel(c) \/ AssignDriver(c) \/ Start(c)
           \/ CompleteDelivered(c) \/ CompleteFailed(c)
    PROVE  MoneyInv'
<1> DEFINE o == call[c].order
           row == order'[o]
<1>1. /\ order \in [OrderIds -> OrderRow]
      /\ product \in [Products -> ProductRow]
      /\ moved \in [OrderIds -> [Products -> Int]]
      /\ payout \in [PayoutIds -> PayoutRow]
      /\ sheet \in [HandoverIds -> Drivers \cup {None}]
  BY DEF MoneyInv, RowTypes
<1>2. o \in OrderIds /\ lock[o] = None /\ order[o] \in OrderRow
  BY <1>1, CallTypes DEF MoneyInv, UpdateStatus, Cancel, AssignDriver, Start,
                         CompleteDelivered, CompleteFailed
<1>3. ASSUME order' = [order EXCEPT ![o] = row],
             NEW status \in OrderStatus, NEW delivery \in DeliveryStatus,
             NEW driver \in Drivers \cup {None},
             row = [order[o] EXCEPT !.orderStatus = status,
                                    !.deliveryStatus = delivery,
                                    !.assignedDriver = driver],
             Exists(o) => status # "ABSENT",
             UNCHANGED <<item, ledger, lock>>
      PROVE  order' \in [OrderIds -> OrderRow] /\ MoneyKept({o})
  <2>1. row \in OrderRow
    BY <1>2, <1>3 DEF OrderRow
  <2>2. /\ row.paidAmount = order[o].paidAmount
        /\ row.totalAmount = order[o].totalAmount
        /\ row.paymentStatus = order[o].paymentStatus
        /\ row.orderStatus = status
    BY <1>2, <1>3 DEF OrderRow
  <2>3. \A x \in OrderIds \ {o} : order'[x] = order[x]
    BY <1>1, <1>3
  <2>4. QED BY <1>1, <1>2, <1>3, <2>1, <2>2, <2>3 DEF MoneyKept
<1>4. CASE UpdateStatus(c)
  <2> DEFINE status == call[c].to
             delivery == order[o].deliveryStatus
             driver == order[o].assignedDriver
  <2>1. /\ status \in OrderStatus /\ delivery \in DeliveryStatus
        /\ driver \in Drivers \cup {None}
        /\ Exists(o) => status # "ABSENT"
    BY <1>2, <1>4, CallTypes
       DEF MoneyInv, OrderRow, OrderStatus, DeliveryStatus, Exists, UpdateStatus
  <2>2. row = [order[o] EXCEPT !.orderStatus = status,
                               !.deliveryStatus = delivery,
                               !.assignedDriver = driver]
    BY <1>1, <1>2, <1>4 DEF OrderRow, UpdateStatus
  <2>3. order' = [order EXCEPT ![o] = row]
    BY <1>1, <1>2, <1>4 DEF UpdateStatus
  <2>5. order' \in [OrderIds -> OrderRow] /\ MoneyKept({o})
    BY <1>3, <1>4, <2>1, <2>2, <2>3 DEF UpdateStatus
  <2>6. QED BY <1>1, <1>4, <2>5, UnlockedWriteStep
         DEF UpdateStatus, FinishUnlocked
<1>5. CASE Cancel(c)
  <2> DEFINE status == "CANCELLED"
             delivery == "PENDING"
             driver == None
  <2>1. /\ status \in OrderStatus /\ delivery \in DeliveryStatus
        /\ driver \in Drivers \cup {None}
        /\ Exists(o) => status # "ABSENT"
    BY <1>2, <1>5, CallTypes
       DEF MoneyInv, OrderRow, OrderStatus, DeliveryStatus, Exists, Cancel
  <2>2. row = [order[o] EXCEPT !.orderStatus = status,
                               !.deliveryStatus = delivery,
                               !.assignedDriver = driver]
    BY <1>1, <1>2, <1>5 DEF OrderRow, Cancel
  <2>3. order' = [order EXCEPT ![o] = row]
    BY <1>1, <1>2, <1>5 DEF Cancel
  <2>4a. [p \in Products |-> call[c].item[p].qty] \in [Products -> Int]
    BY <1>5, CallTypes DEF MoneyInv, Cancel, ItemRow
  <2>4b. /\ product' \in [Products -> ProductRow]
         /\ moved' \in [OrderIds -> [Products -> Int]]
    BY <1>2, <1>5, <2>4a, MoveForOrderTypes DEF Cancel, MoneyInv
  <2>5. order' \in [OrderIds -> OrderRow] /\ MoneyKept({o})
    BY <1>3, <1>5, <2>1, <2>2, <2>3 DEF Cancel
  <2>6. QED BY <1>1, <1>5, <2>5, <2>4b, UnlockedWriteStep
         DEF Cancel, FinishUnlocked
<1>6. CASE AssignDriver(c)
  <2> DEFINE status == order[o].orderStatus
             delivery == "ASSIGNED"
             driver == call[c].driver
  <2>1. /\ status \in OrderStatus /\ delivery \in DeliveryStatus
        /\ driver \in Drivers \cup {None}
        /\ Exists(o) => status # "ABSENT"
    BY <1>2, <1>6, CallTypes
       DEF MoneyInv, OrderRow, OrderStatus, DeliveryStatus, Exists, AssignDriver
  <2>2. row = [order[o] EXCEPT !.orderStatus = status,
                               !.deliveryStatus = delivery,
                               !.assignedDriver = driver]
    BY <1>1, <1>2, <1>6 DEF OrderRow, AssignDriver
  <2>3. order' = [order EXCEPT ![o] = row]
    BY <1>1, <1>2, <1>6 DEF AssignDriver
  <2>5. order' \in [OrderIds -> OrderRow] /\ MoneyKept({o})
    BY <1>3, <1>6, <2>1, <2>2, <2>3 DEF AssignDriver
  <2>6. QED BY <1>1, <1>6, <2>5, UnlockedWriteStep
         DEF AssignDriver, FinishUnlocked
<1>7. CASE Start(c)
  <2> DEFINE status == order[o].orderStatus
             delivery == "ON_THE_WAY"
             driver == order[o].assignedDriver
  <2>1. /\ status \in OrderStatus /\ delivery \in DeliveryStatus
        /\ driver \in Drivers \cup {None}
        /\ Exists(o) => status # "ABSENT"
    BY <1>2, <1>7, CallTypes
       DEF MoneyInv, OrderRow, OrderStatus, DeliveryStatus, Exists, Start
  <2>2. row = [order[o] EXCEPT !.orderStatus = status,
                               !.deliveryStatus = delivery,
                               !.assignedDriver = driver]
    BY <1>1, <1>2, <1>7 DEF OrderRow, Start
  <2>3. order' = [order EXCEPT ![o] = row]
    BY <1>1, <1>2, <1>7 DEF Start
  <2>5. order' \in [OrderIds -> OrderRow] /\ MoneyKept({o})
    BY <1>3, <1>7, <2>1, <2>2, <2>3 DEF Start
  <2>6. QED BY <1>1, <1>7, <2>5, UnlockedWriteStep
         DEF Start, FinishUnlocked
<1>8. CASE CompleteDelivered(c)
  <2> DEFINE status == "COMPLETED"
             delivery == "DELIVERED"
             driver == order[o].assignedDriver
  <2>1. /\ status \in OrderStatus /\ delivery \in DeliveryStatus
        /\ driver \in Drivers \cup {None}
        /\ Exists(o) => status # "ABSENT"
    BY <1>2, <1>8, CallTypes
       DEF MoneyInv, OrderRow, OrderStatus, DeliveryStatus, Exists, CompleteDelivered
  <2>2. row = [order[o] EXCEPT !.orderStatus = status,
                               !.deliveryStatus = delivery,
                               !.assignedDriver = driver]
    BY <1>1, <1>2, <1>8 DEF OrderRow, CompleteDelivered
  <2>3. order' = [order EXCEPT ![o] = row]
    BY <1>1, <1>2, <1>8 DEF CompleteDelivered
  <2>5. order' \in [OrderIds -> OrderRow] /\ MoneyKept({o})
    BY <1>3, <1>8, <2>1, <2>2, <2>3 DEF CompleteDelivered
  <2>6. QED BY <1>1, <1>8, <2>5, UnlockedWriteStep
         DEF CompleteDelivered, FinishUnlocked
<1>9. CASE CompleteFailed(c)
  <2> DEFINE status == order[o].orderStatus
             delivery == "FAILED"
             driver == order[o].assignedDriver
  <2>1. /\ status \in OrderStatus /\ delivery \in DeliveryStatus
        /\ driver \in Drivers \cup {None}
        /\ Exists(o) => status # "ABSENT"
    BY <1>2, <1>9, CallTypes
       DEF MoneyInv, OrderRow, OrderStatus, DeliveryStatus, Exists, CompleteFailed
  <2>2. row = [order[o] EXCEPT !.orderStatus = status,
                               !.deliveryStatus = delivery,
                               !.assignedDriver = driver]
    BY <1>1, <1>2, <1>9 DEF OrderRow, CompleteFailed
  <2>3. order' = [order EXCEPT ![o] = row]
    BY <1>1, <1>2, <1>9 DEF CompleteFailed
  <2>5. order' \in [OrderIds -> OrderRow] /\ MoneyKept({o})
    BY <1>3, <1>9, <2>1, <2>2, <2>3 DEF CompleteFailed
  <2>6. QED BY <1>1, <1>9, <2>5, UnlockedWriteStep
         DEF CompleteFailed, FinishUnlocked
<1>10. QED BY <1>4, <1>5, <1>6, <1>7, <1>8, <1>9

\* A handover sheet moves orders to its driver, not their money.
LEMMA HandoverKeeps ==
    ASSUME MoneyInv, NEW c \in Callers, NEW h \in HandoverIds,
           CreateHandover(c, h)
    PROVE  MoneyInv'
<1> DEFINE S == call[c].orders
           row(o) == [order[o] EXCEPT !.handover = h, !.orderStatus = "READY",
                                      !.assignedDriver = call[c].driver,
                                      !.deliveryStatus = "ASSIGNED"]
<1>1. S \subseteq OrderIds /\ call[c].driver \in Drivers
  BY CallTypes DEF MoneyInv, CreateHandover
<1>2. ASSUME NEW o \in OrderIds
      PROVE  /\ row(o) \in OrderRow
             /\ row(o).paidAmount = order[o].paidAmount
             /\ row(o).totalAmount = order[o].totalAmount
             /\ row(o).paymentStatus = order[o].paymentStatus
             /\ row(o).orderStatus # "ABSENT"
  <2>1. order[o] \in OrderRow
    BY DEF MoneyInv, RowTypes
  <2>2. "READY" \in OrderStatus /\ "ASSIGNED" \in DeliveryStatus
    BY DEF OrderStatus, DeliveryStatus
  <2>3. QED BY <1>1, <2>1, <2>2 DEF OrderRow
<1>3. order' = [o \in OrderIds |-> IF o \notin S THEN order[o] ELSE row(o)]
  BY DEF CreateHandover
<1>4. order' \in [OrderIds -> OrderRow]
  <2> HIDE DEF row
  <2>1. \A o \in OrderIds : order[o] \in OrderRow
    BY DEF MoneyInv, RowTypes
  <2>2. QED BY <1>2, <1>3, <2>1
<1>5. MoneyKept(S)
  <2> HIDE DEF row
  <2>1. UNCHANGED <<item, ledger, lock>> /\ \A o \in S : lock[o] = None
    BY DEF CreateHandover
  <2>2. QED BY <1>1, <1>2, <1>3, <2>1 DEF MoneyKept
<1>6. /\ Finish(c)
      /\ sheet' \in [HandoverIds -> Drivers \cup {None}]
      /\ UNCHANGED <<item, product, payment, ledger, moved, payout, lock>>
  BY <1>1 DEF CreateHandover, FinishUnlocked, MoneyInv, RowTypes
<1>7. /\ product' \in [Products -> ProductRow]
      /\ moved' \in [OrderIds -> [Products -> Int]]
      /\ payout' \in [PayoutIds -> PayoutRow]
  BY <1>6 DEF MoneyInv, RowTypes
<1>8. QED BY <1>4, <1>5, <1>6, <1>7, UnlockedWriteStep

\* Closing the payroll marks orders as paid out to the driver, and moves no
\* money of theirs.
LEMMA PayrollKeeps ==
    ASSUME MoneyInv, NEW c \in Callers, NEW y \in PayoutIds,
           PayrollClose(c, y)
    PROVE  MoneyInv'
<1> DEFINE S == call[c].orders
<1>1. S \subseteq OrderIds /\ call[c].driver \in Drivers
  BY CallTypes DEF MoneyInv, PayrollClose
<1>2. ASSUME NEW o \in OrderIds
      PROVE  LET row == [order[o] EXCEPT !.payout = y]
             IN  /\ row \in OrderRow
                 /\ row.paidAmount = order[o].paidAmount
                 /\ row.totalAmount = order[o].totalAmount
                 /\ row.paymentStatus = order[o].paymentStatus
                 /\ row.orderStatus = order[o].orderStatus
  <2>1. order[o] \in OrderRow
    BY DEF MoneyInv, RowTypes
  <2>2. QED BY <2>1 DEF OrderRow
<1>3. order' = [o \in OrderIds |->
                  IF o \in S THEN [order[o] EXCEPT !.payout = y] ELSE order[o]]
  BY DEF PayrollClose
<1>4. order' \in [OrderIds -> OrderRow]
  BY <1>2, <1>3 DEF MoneyInv, RowTypes
<1>5. MoneyKept(S)
  <2>1. UNCHANGED <<item, ledger, lock>> /\ \A o \in S : lock[o] = None
    BY DEF PayrollClose
  <2>2. QED BY <1>1, <1>2, <1>3, <2>1 DEF MoneyKept, Exists
<1>6. payout' \in [PayoutIds -> PayoutRow]
  <2>1. Cardinality(S) \in Nat
    BY <1>1, OrderIdsAssumption, FS_Subset, FS_CardinalityType
       DEF OrderIdsAssumption
  <2>2. QED BY <1>1, <2>1 DEF PayrollClose, MoneyInv, RowTypes, PayoutRow
<1>7. /\ Finish(c)
      /\ UNCHANGED <<item, product, payment, ledger, moved, sheet, lock>>
  BY DEF PayrollClose, FinishUnlocked
<1>8. /\ product' \in [Products -> ProductRow]
      /\ moved' \in [OrderIds -> [Products -> Int]]
      /\ sheet' \in [HandoverIds -> Drivers \cup {None}]
  BY <1>7 DEF MoneyInv, RowTypes
<1>9. QED BY <1>4, <1>5, <1>6, <1>7, <1>8, UnlockedWriteStep

\* A new batch and a write-off change stock and batches alone.
LEMMA BatchWritesKeep ==
    ASSUME MoneyInv, NEW c \in Callers,
           \/ \E b \in BatchIds, expiry \in Expiries : CreateBatch(c, b, expiry)
           \/ WriteOff(c)
    PROVE  MoneyInv'
<1>1. /\ Finish(c)
      /\ UNCHANGED <<order, item, payment, ledger, payout, sheet, lock>>
  BY DEF CreateBatch, WriteOff, FinishUnlocked
<1>2. /\ product' \in [Products -> ProductRow]
      /\ moved' \in [OrderIds -> [Products -> Int]]
  <2>1. CASE \E b \in BatchIds, expiry \in Expiries : CreateBatch(c, b, expiry)
    BY <2>1 DEF CreateBatch, MoneyInv, RowTypes
  <2>2. CASE WriteOff(c)
    BY <2>2, MoveStockType DEF WriteOff, MoneyInv, RowTypes
  <2>3. QED BY <2>1, <2>2
<1>3. MoneyKept({})
  BY <1>1 DEF MoneyKept
<1>4. /\ order' \in [OrderIds -> OrderRow]
      /\ payout' \in [PayoutIds -> PayoutRow]
      /\ sheet' \in [HandoverIds -> Drivers \cup {None}]
  BY <1>1 DEF MoneyInv, RowTypes
<1>5. QED BY <1>1, <1>2, <1>3, <1>4, UnlockedWriteStep

-----------------------------------------------------------------------------
(* The handlers that hold the lock.                                         *)

\* What a request under a lock starts from.
LEMMA UnderLock ==
    ASSUME MoneyInv, NEW c \in Callers, call[c].op \in LockingOps
    PROVE  /\ call[c].order \in OrderIds
           /\ call[c].row = order[call[c].order]
           /\ call[c].item = item[call[c].order]
           /\ call[c].row \in OrderRow
           /\ call[c].item \in [Products -> ItemRow]
           /\ Balanced(call[c].order)
           /\ ledger[call[c].order].income \in Int
           /\ ledger[call[c].order].refund \in Nat
<1>1. /\ call[c].order \in OrderIds
      /\ call[c].row \in OrderRow
      /\ call[c].item \in [Products -> ItemRow]
  BY CallTypes DEF MoneyInv
<1>2. /\ call[c].row = order[call[c].order]
      /\ call[c].item = item[call[c].order]
      /\ Exists(call[c].order)
  BY DEF MoneyInv, LockedSnapshots
<1>3. Balanced(call[c].order)
  BY <1>1, <1>2 DEF MoneyInv, Balanced, LedgerAgrees, NeverOverpaid,
                    PayStatusDerived, Exists
<1>4. QED BY <1>1, <1>2, <1>3 DEF MoneyInv, RowTypes

\* The rows that a request under a lock writes: its own order, its lines and
\* its finance entries, each of the right type.
OwnRows(o) ==
    /\ order' = [order EXCEPT ![o] = order'[o]] /\ order'[o] \in OrderRow
    /\ ledger' = [ledger EXCEPT ![o] = ledger'[o]]
    /\ ledger'[o] \in [income : Int, refund : Nat]
    /\ item' = [item EXCEPT ![o] = item'[o]]
    /\ item'[o] \in [Products -> ItemRow]

\* Whoever writes only its own rows, well-typed and balanced, keeps MoneyInv.
LEMMA LockedWriteStep ==
    ASSUME MoneyInv, NEW c \in Callers, call[c].op \in LockingOps,
           Commit(c, call[c].order), OwnRows(call[c].order),
           \A x : x = call[c].order => Balanced(x)',
           payment' \in [PaymentIds -> PaymentRow],
           product' \in [Products -> ProductRow],
           moved' \in [OrderIds -> [Products -> Int]],
           UNCHANGED <<payout, sheet>>
    PROVE  MoneyInv'
<1> DEFINE o == call[c].order
<1>1. o \in OrderIds
  BY UnderLock
<1>2. /\ order \in [OrderIds -> OrderRow]
      /\ ledger \in [OrderIds -> [income : Int, refund : Nat]]
      /\ item \in [OrderIds -> [Products -> ItemRow]]
      /\ lock \in [OrderIds -> Callers \cup {None}]
      /\ call \in [Callers -> CallState]
      /\ payout \in [PayoutIds -> PayoutRow]
      /\ sheet \in [HandoverIds -> Drivers \cup {None}]
  BY DEF MoneyInv, RowTypes
<1>3. OnlyOrder(o)
  BY <1>1, <1>2 DEF OnlyOrder, OwnRows
<1>4. /\ order' \in [OrderIds -> OrderRow]
      /\ ledger' \in [OrderIds -> [income : Int, refund : Nat]]
      /\ item' \in [OrderIds -> [Products -> ItemRow]]
  BY <1>1, <1>2 DEF OwnRows
<1>5. lock' \in [OrderIds -> Callers \cup {None}]
  BY <1>1, <1>2 DEF Commit
<1>6. call' \in [Callers -> CallState]
  <2>1. Idle \in CallState
    BY DEF CallState
  <2>2. QED BY <1>2, <2>1 DEF Commit, Finish
<1>7. RowTypes'
  BY <1>2, <1>4, <1>5, <1>6 DEF RowTypes
<1>8. QED BY <1>3, <1>7, LockedStep DEF MoneyInv

\* SetPaid under a lock balances the order with the new entries.
LEMMA SetPaidStep ==
    ASSUME MoneyInv, NEW c \in Callers, call[c].op \in LockingOps
    PROVE  \A paid \in Int :
             (/\ SetPaid(call[c].order, call[c].row, paid)
              /\ paid <= call[c].row.totalAmount
              /\ paid = ledger'[call[c].order].income
                          - ledger'[call[c].order].refund) =>
                 /\ \A o : o = call[c].order =>
                       /\ order' = [order EXCEPT ![o] = order'[o]]
                       /\ order'[o] \in OrderRow
                 /\ \A x : x = call[c].order => Balanced(x)'
<1> DEFINE o == call[c].order
           row == order[o]
<1>1. /\ o \in OrderIds /\ call[c].row = row /\ row \in OrderRow
      /\ Balanced(o)
  BY UnderLock
<1> SUFFICES ASSUME NEW paid \in Int, SetPaid(o, row, paid),
                    paid <= row.totalAmount,
                    paid = ledger'[o].income - ledger'[o].refund
             PROVE  /\ order' = [order EXCEPT ![o] = order'[o]]
                    /\ order'[o] \in OrderRow
                    /\ \A x : x = o => Balanced(x)'
  BY <1>1
<1> DEFINE status == StatusFor(paid, row.totalAmount)
<1>2. status \in PaymentStatus
  BY <1>1, StatusForType DEF OrderRow, Amount
<1>3. order' = [order EXCEPT ![o].paidAmount = paid,
                             ![o].paymentStatus = status]
  BY DEF SetPaid
<1>4. order'[o] = [row EXCEPT !.paidAmount = paid, !.paymentStatus = status]
  BY <1>1, <1>3 DEF MoneyInv, RowTypes
<1> HIDE DEF status
<1>5. order' = [order EXCEPT ![o] = order'[o]]
  BY <1>1, <1>3 DEF MoneyInv, RowTypes
<1>6. /\ order'[o] \in OrderRow
      /\ order'[o].orderStatus = row.orderStatus
      /\ order'[o].paidAmount = paid
      /\ order'[o].totalAmount = row.totalAmount
      /\ order'[o].paymentStatus = status
  BY <1>1, <1>2, <1>4 DEF OrderRow
<1>7. row.orderStatus # "ABSENT"
  BY <1>1 DEF Balanced
<1>8. \A x : x = o => Balanced(x)'
  BY <1>6, <1>7 DEF Balanced, status
<1>9. QED BY <1>5, <1>6, <1>8

\* A new payment of at most the balance.
LEMMA AddPaymentKeeps ==
    ASSUME MoneyInv, NEW c \in Callers, NEW i \in PaymentIds,
           NEW amount \in Amount, AddPayment(c, i, amount)
    PROVE  MoneyInv'
<1> DEFINE o == call[c].order
           row == order[o]
           paid == row.paidAmount + amount
<1>1. call[c].op \in LockingOps
  BY DEF AddPayment, LockingOps
<1>2. /\ o \in OrderIds /\ call[c].row = row /\ row \in OrderRow
      /\ Balanced(o) /\ ledger[o] \in [income : Int, refund : Nat]
  BY <1>1, UnderLock DEF MoneyInv, RowTypes
<1>3. amount \in Nat /\ paid \in Int /\ paid <= row.totalAmount
  BY <1>2 DEF AddPayment, FitsBalance, Amount, OrderRow
<1>4. ledger'[o] = [ledger[o] EXCEPT !.income = @ + amount]
  BY <1>2 DEF AddPayment, BookPayment, MoneyInv, RowTypes
<1>5. /\ ledger'[o] \in [income : Int, refund : Nat]
      /\ paid = ledger'[o].income - ledger'[o].refund
  BY <1>2, <1>3, <1>4 DEF Balanced, OrderRow
<1>6. /\ order' = [order EXCEPT ![o] = order'[o]] /\ order'[o] \in OrderRow
      /\ \A x : x = o => Balanced(x)'
  BY <1>1, <1>2, <1>3, <1>5, SetPaidStep DEF AddPayment
<1>7. OwnRows(o)
  <2>1. ledger' = [ledger EXCEPT ![o] = ledger'[o]]
    BY <1>2 DEF AddPayment, BookPayment, MoneyInv, RowTypes
  <2>2. item' = [item EXCEPT ![o] = item'[o]]
        /\ item'[o] \in [Products -> ItemRow]
    BY <1>2 DEF AddPayment, MoneyInv, RowTypes
  <2>3. QED BY <1>5, <1>6, <2>1, <2>2 DEF OwnRows
<1>8. payment' \in [PaymentIds -> PaymentRow]
  BY <1>2, <1>3 DEF AddPayment, BookPayment, MoneyInv, RowTypes, PaymentRow
<1>9. /\ product' \in [Products -> ProductRow]
      /\ moved' \in [OrderIds -> [Products -> Int]]
  BY DEF AddPayment, MoneyInv, RowTypes
<1>10. QED BY <1>1, <1>6, <1>7, <1>8, <1>9, LockedWriteStep DEF AddPayment

\* A payment that is taken out lowers what is paid and what came in alike.
LEMMA DeletePaymentKeeps ==
    ASSUME MoneyInv, NEW c \in Callers, DeletePayment(c)
    PROVE  MoneyInv'
<1> DEFINE o == call[c].order
           row == order[o]
           i == call[c].payment
           amount == payment[i].amount
           paid == row.paidAmount - amount
<1>1. call[c].op \in LockingOps
  BY DEF DeletePayment, LockingOps
<1>2. /\ o \in OrderIds /\ call[c].row = row /\ row \in OrderRow
      /\ Balanced(o) /\ ledger[o] \in [income : Int, refund : Nat]
  BY <1>1, UnderLock DEF MoneyInv, RowTypes
<1>3. /\ i \in PaymentIds /\ payment[i] \in PaymentRow
      /\ payment[i].state = "booked"
  BY CallTypes DEF DeletePayment, StillBooked, MoneyInv, RowTypes
<1>4. payment[i] \in [state : {"booked", "deleted"}, order : OrderIds,
                      amount : Nat]
  BY <1>3 DEF PaymentRow, NoPayment
<1>5. paid \in Int /\ paid <= row.totalAmount
  BY <1>2, <1>4 DEF Balanced, Amount, OrderRow
<1>6. ledger'[o] = [ledger[o] EXCEPT !.income = @ - amount]
  BY <1>2 DEF DeletePayment, MoneyInv, RowTypes
<1>7. /\ ledger'[o] \in [income : Int, refund : Nat]
      /\ paid = ledger'[o].income - ledger'[o].refund
  BY <1>2, <1>4, <1>6 DEF Balanced, OrderRow
<1>8. /\ order' = [order EXCEPT ![o] = order'[o]] /\ order'[o] \in OrderRow
      /\ \A x : x = o => Balanced(x)'
  BY <1>1, <1>2, <1>5, <1>7, SetPaidStep DEF DeletePayment
<1>9. OwnRows(o)
  <2>1. ledger' = [ledger EXCEPT ![o] = ledger'[o]]
    BY <1>2 DEF DeletePayment, MoneyInv, RowTypes
  <2>2. item' = [item EXCEPT ![o] = item'[o]]
        /\ item'[o] \in [Products -> ItemRow]
    BY <1>2 DEF DeletePayment, MoneyInv, RowTypes
  <2>3. QED BY <1>7, <1>8, <2>1, <2>2 DEF OwnRows
<1>10. payment' \in [PaymentIds -> PaymentRow]
  BY <1>3, <1>4 DEF DeletePayment, MoneyInv, RowTypes, PaymentRow
<1>11. /\ product' \in [Products -> ProductRow]
       /\ moved' \in [OrderIds -> [Products -> Int]]
  BY DEF DeletePayment, MoneyInv, RowTypes
<1>12. QED BY <1>1, <1>8, <1>9, <1>10, <1>11, LockedWriteStep
           DEF DeletePayment

\* An edit that covers what is paid: the status follows the new total.
LEMMA UpdateOrderKeeps ==
    ASSUME MoneyInv, NEW c \in Callers, NEW want \in Baskets,
           UpdateOrder(c, want)
    PROVE  MoneyInv'
<1> DEFINE o == call[c].order
           row == order[o]
           lines == EditedLines(call[c].item, want)
           total == OrderTotal(lines)
           back == [p \in Products |-> call[c].item[p].qty - want[p]]
           status == StatusFor(row.paidAmount, total)
<1>1. call[c].op \in LockingOps
  BY DEF UpdateOrder, LockingOps
<1>2. /\ o \in OrderIds /\ call[c].row = row /\ row \in OrderRow
      /\ Balanced(o) /\ ledger[o] \in [income : Int, refund : Nat]
      /\ call[c].item \in [Products -> ItemRow]
  BY <1>1, UnderLock DEF MoneyInv, RowTypes
<1>3. want \in [Products -> Nat]
  BY DEF Baskets, Quantities
<1>4. total \in Amount /\ row.paidAmount <= total
  BY <1>2 DEF UpdateOrder, CoversPaid
<1>5. status \in PaymentStatus
  BY <1>2, <1>4, StatusForType DEF OrderRow, Amount
<1>6. order' = [order EXCEPT ![o].totalAmount = total,
                             ![o].paymentStatus = status]
  BY <1>2 DEF UpdateOrder
<1>7. order'[o] = [row EXCEPT !.totalAmount = total, !.paymentStatus = status]
  BY <1>2, <1>6 DEF MoneyInv, RowTypes
<1>8. lines \in [Products -> ItemRow]
  <2>1. ASSUME NEW p \in Products PROVE lines[p] \in ItemRow
    <3>1. call[c].item[p] \in ItemRow /\ want[p] \in Nat
          /\ product[p].price \in Prices
      BY <1>2, <1>3 DEF MoneyInv, RowTypes, ProductRow
    <3>2. QED BY <3>1 DEF EditedLines, ItemRow, NoItem
  <2>2. QED BY <2>1 DEF EditedLines
<1> HIDE DEF status, total, lines
<1>9. /\ order'[o] \in OrderRow
      /\ order'[o].orderStatus = row.orderStatus
      /\ order'[o].paidAmount = row.paidAmount
      /\ order'[o].totalAmount = total
      /\ order'[o].paymentStatus = status
  <2>1. [row EXCEPT !.totalAmount = total, !.paymentStatus = status]
           \in OrderRow
    BY <1>2, <1>4, <1>5 DEF OrderRow
  <2> HIDE DEF row
  <2>2. /\ order'[o].orderStatus = row.orderStatus
        /\ order'[o].paidAmount = row.paidAmount
        /\ order'[o].totalAmount = total
        /\ order'[o].paymentStatus = status
    BY <1>2, <1>7 DEF OrderRow
  <2>3. QED BY <1>7, <2>1, <2>2
<1>10. ledger' = ledger
  BY DEF UpdateOrder
<1>11. \A x : x = o => Balanced(x)'
  BY <1>2, <1>4, <1>9, <1>10 DEF Balanced, status
<1>12. OwnRows(o)
  <2>1. order' = [order EXCEPT ![o] = order'[o]]
    BY <1>2, <1>6 DEF MoneyInv, RowTypes
  <2>2. item' = [item EXCEPT ![o] = lines]
    BY DEF UpdateOrder, lines
  <2>3. item' = [item EXCEPT ![o] = item'[o]] /\ item'[o] = lines
    BY <1>2, <2>2 DEF MoneyInv, RowTypes
  <2>4. ledger' = [ledger EXCEPT ![o] = ledger'[o]]
    BY <1>2, <1>10 DEF MoneyInv, RowTypes
  <2>5. QED BY <1>2, <1>8, <1>9, <1>10, <2>1, <2>3, <2>4 DEF OwnRows
<1>13. /\ product' \in [Products -> ProductRow]
       /\ moved' \in [OrderIds -> [Products -> Int]]
  <2>1. back \in [Products -> Int]
    BY <1>2, <1>3 DEF ItemRow
  <2>2. MoveForOrder(o, back)
    BY DEF UpdateOrder
  <2>3. QED BY <1>2, <2>1, <2>2, MoveForOrderTypes DEF MoneyInv
<1>14. payment' \in [PaymentIds -> PaymentRow]
  BY DEF UpdateOrder, MoneyInv, RowTypes
<1>15. QED BY <1>1, <1>11, <1>12, <1>13, <1>14, LockedWriteStep
           DEF UpdateOrder

\* A refund is at most what is paid, and lowers what is paid by as much as it
\* adds to the refund entries.
LEMMA CreateReturnKeeps ==
    ASSUME MoneyInv, NEW c \in Callers, NEW back \in Baskets,
           NEW restock \in BOOLEAN, NEW asked \in BOOLEAN,
           NEW exclude \in BOOLEAN,
           CreateReturn(c, back, restock, asked, exclude)
    PROVE  MoneyInv'
<1> DEFINE o == call[c].order
           row == order[o]
           lines == call[c].item
           refund == Refund(row, lines, back, asked)
           paid == row.paidAmount - refund
           status == IF refund > 0 THEN StatusFor(paid, row.totalAmount)
                     ELSE row.paymentStatus
           after == ReturnStateAfter(lines, back)
<1>1. call[c].op \in LockingOps
  BY DEF CreateReturn, LockingOps
<1>2. /\ o \in OrderIds /\ call[c].row = row /\ row \in OrderRow
      /\ Balanced(o) /\ ledger[o] \in [income : Int, refund : Nat]
      /\ lines \in [Products -> ItemRow] /\ lines = item[o]
  BY <1>1, UnderLock DEF MoneyInv, RowTypes
<1>3. back \in [Products -> Nat]
  BY DEF Baskets, Quantities
<1>4. ReturnValue(lines, back) \in Amount
  BY DEF CreateReturn
<1>5. refund \in Nat
  BY <1>2, <1>4 DEF Refund, OrderRow, Amount
<1>6. paid \in Int /\ paid <= row.totalAmount
  BY <1>2, <1>5 DEF Balanced, OrderRow, Amount
<1>7. status \in PaymentStatus
  BY <1>2, <1>6, StatusForType DEF OrderRow, Amount
<1>8. after \in ReturnState
  BY DEF ReturnStateAfter, ReturnState
<1>9. order' = [order EXCEPT
                  ![o].returnState = after,
                  ![o].excludeFromPayroll = @ \/ exclude,
                  ![o].paidAmount = IF refund > 0 THEN paid ELSE @,
                  ![o].paymentStatus =
                      IF refund > 0 THEN StatusFor(paid, row.totalAmount)
                      ELSE @]
  BY <1>2 DEF CreateReturn
<1> HIDE DEF after, refund
<1>10. order'[o] = [row EXCEPT !.returnState = after,
                      !.excludeFromPayroll = row.excludeFromPayroll \/ exclude,
                      !.paidAmount = paid, !.paymentStatus = status]
  <2>1. order \in [OrderIds -> OrderRow]
    BY DEF MoneyInv, RowTypes
  <2>2. order'[o] =
          [row EXCEPT !.returnState = after,
                      !.excludeFromPayroll = @ \/ exclude,
                      !.paidAmount = IF refund > 0 THEN paid ELSE @,
                      !.paymentStatus = status]
    BY <1>2, <1>9, <2>1 DEF OrderRow
  <2>3. (IF refund > 0 THEN paid ELSE row.paidAmount) = paid
    BY <1>2, <1>5 DEF OrderRow
  <2>4. QED BY <1>2, <2>2, <2>3 DEF OrderRow
<1> HIDE DEF status
<1>11. /\ order'[o] \in OrderRow
       /\ order'[o].orderStatus = row.orderStatus
       /\ order'[o].paidAmount = paid
       /\ order'[o].totalAmount = row.totalAmount
       /\ order'[o].paymentStatus = status
  <2>1. (row.excludeFromPayroll \/ exclude) \in BOOLEAN
    BY <1>2 DEF OrderRow
  <2> HIDE DEF row, paid
  <2>2. \A e \in BOOLEAN :
           [row EXCEPT !.returnState = after, !.excludeFromPayroll = e,
                       !.paidAmount = paid, !.paymentStatus = status]
             \in OrderRow
    BY <1>2, <1>6, <1>7, <1>8 DEF OrderRow
  <2>3. order'[o] \in OrderRow
    BY <1>10, <2>1, <2>2
  <2>4. /\ order'[o].orderStatus = row.orderStatus
        /\ order'[o].paidAmount = paid
        /\ order'[o].totalAmount = row.totalAmount
        /\ order'[o].paymentStatus = status
    BY <1>2, <1>10 DEF OrderRow
  <2>5. QED BY <2>3, <2>4
<1>12. ledger' = [ledger EXCEPT ![o].refund = @ + refund]
  BY <1>2 DEF CreateReturn, refund
<1>13. ledger'[o] = [ledger[o] EXCEPT !.refund = @ + refund]
  BY <1>2, <1>12 DEF MoneyInv, RowTypes
<1>14. /\ ledger'[o] \in [income : Int, refund : Nat]
       /\ paid = ledger'[o].income - ledger'[o].refund
  BY <1>2, <1>5, <1>13 DEF Balanced, OrderRow
<1>15. \/ status = StatusFor(paid, row.totalAmount)
       \/ row.totalAmount = 0 /\ paid = 0 /\ status = "UNPAID"
  BY <1>2, <1>5 DEF status, Balanced, OrderRow
<1>16. \A x : x = o => Balanced(x)'
  BY <1>2, <1>6, <1>11, <1>14, <1>15 DEF Balanced
<1>17. OwnRows(o)
  <2>1. order' = [order EXCEPT ![o] = order'[o]]
    BY <1>2, <1>9 DEF MoneyInv, RowTypes
  <2>2. ReturnedLines(lines, back, restock) \in [Products -> ItemRow]
    <3>1. ASSUME NEW p \in Products
          PROVE  ReturnedLines(lines, back, restock)[p] \in ItemRow
      <4>1. lines[p] \in ItemRow /\ back[p] \in Nat
        BY <1>2, <1>3
      <4> DEFINE n == IF restock THEN back[p] ELSE 0
      <4>2. n \in Nat
        BY <4>1
      <4>3. ReturnedLines(lines, back, restock)[p]
              = [lines[p] EXCEPT !.returned = @ + back[p], !.restocked = @ + n]
        BY DEF ReturnedLines
      <4> HIDE DEF n
      <4>4. lines[p].returned + back[p] \in Nat /\ lines[p].restocked + n \in Nat
        BY <4>1, <4>2 DEF ItemRow
      <4>5. QED BY <4>1, <4>3, <4>4 DEF ItemRow
    <3>2. QED BY <3>1 DEF ReturnedLines
  <2>3. item' = [item EXCEPT ![o] = ReturnedLines(lines, back, restock)]
    BY DEF CreateReturn
  <2>4. item' = [item EXCEPT ![o] = item'[o]]
        /\ item'[o] = ReturnedLines(lines, back, restock)
    BY <1>2, <2>3 DEF MoneyInv, RowTypes
  <2>5. ledger' = [ledger EXCEPT ![o] = ledger'[o]]
    BY <1>2, <1>12 DEF MoneyInv, RowTypes
  <2>6. QED BY <1>11, <1>14, <2>1, <2>2, <2>4, <2>5 DEF OwnRows
<1>18. /\ product' \in [Products -> ProductRow]
       /\ moved' \in [OrderIds -> [Products -> Int]]
  <2> DEFINE delta == [p \in Products |-> IF restock THEN back[p] ELSE 0]
  <2>1. delta \in [Products -> Int]
    BY <1>3
  <2>2. MoveForOrder(o, delta)
    BY DEF CreateReturn
  <2>3. QED BY <1>2, <2>1, <2>2, MoveForOrderTypes DEF MoneyInv
<1>19. payment' \in [PaymentIds -> PaymentRow]
  BY DEF CreateReturn, MoneyInv, RowTypes
<1>20. QED BY <1>1, <1>16, <1>17, <1>18, <1>19, LockedWriteStep
           DEF CreateReturn

-----------------------------------------------------------------------------
(* The handlers of a single step, the end of a request without effect, and *)
(* the theorems.                                                            *)

\* A new order owes its total, and has it paid or not at all.
LEMMA CreateKeeps ==
    ASSUME MoneyInv, NEW o \in OrderIds, NEW want \in Baskets,
           \/ CreateOrder(o, want)
           \/ \E i \in PaymentIds : CreatePaidOrder(o, want, i)
    PROVE  MoneyInv'
<1> DEFINE total == OrderTotal(NewLines(want))
           back == [p \in Products |-> -want[p]]
<1>1. want \in [Products -> Nat]
  BY DEF Baskets, Quantities
<1>2. PlaceOrder(o, want)
  BY DEF CreateOrder, CreatePaidOrder
<1>3. /\ total \in Amount
      /\ order \in [OrderIds -> OrderRow]
      /\ item \in [OrderIds -> [Products -> ItemRow]]
      /\ ledger \in [OrderIds -> [income : Int, refund : Nat]]
      /\ ~Exists(o)
  BY <1>2 DEF PlaceOrder, MoneyInv, RowTypes
<1>4. order[o].paidAmount = 0 /\ ledger[o].income - ledger[o].refund = 0
  BY <1>3 DEF MoneyInv, AbsentUnpaid, LedgerAgrees
<1>5. NewLines(want) \in [Products -> ItemRow]
  <2>1. ASSUME NEW p \in Products PROVE NewLines(want)[p] \in ItemRow
    <3>1. want[p] \in Nat /\ product[p].price \in Prices
      BY <1>1 DEF MoneyInv, RowTypes, ProductRow
    <3>2. QED BY <3>1 DEF NewLines, ItemRow, NoItem
  <2>2. QED BY <2>1 DEF NewLines
<1>6. item' \in [OrderIds -> [Products -> ItemRow]]
  BY <1>2, <1>3, <1>5 DEF PlaceOrder
<1>7. /\ product' \in [Products -> ProductRow]
      /\ moved' \in [OrderIds -> [Products -> Int]]
  <2>1. back \in [Products -> Int]
    BY <1>1
  <2>2. MoveForOrder(o, back)
    BY <1>2 DEF PlaceOrder
  <2>3. QED BY <2>1, <2>2, MoveForOrderTypes DEF MoneyInv
<1> HIDE DEF total
<1>8. NewOrder(total) \in OrderRow
  <2>1. NoOrder \in OrderRow
    BY DEF NoOrder, OrderRow, OrderStatus, DeliveryStatus, PaymentStatus,
           ReturnState, Amount
  <2>2. "NEW" \in OrderStatus
    BY DEF OrderStatus
  <2>3. QED BY <1>3, <2>1, <2>2 DEF NewOrder, OrderRow
<1>9. NewOrder(total) = [NoOrder EXCEPT !.orderStatus = "NEW",
                                        !.totalAmount = total]
  BY DEF NewOrder
<1>10. /\ order' = [order EXCEPT ![o] = order'[o]] /\ order'[o] \in OrderRow
       /\ payment' \in [PaymentIds -> PaymentRow]
       /\ ledger' \in [OrderIds -> [income : Int, refund : Nat]]
       /\ \A x \in OrderIds \ {o} : ledger'[x] = ledger[x]
       /\ order'[o].orderStatus = "NEW"
       /\ order'[o].paidAmount = ledger'[o].income - ledger'[o].refund
       /\ order'[o].totalAmount = total
       /\ \/ order'[o].paidAmount = 0 /\ order'[o].paymentStatus = "UNPAID"
          \/ order'[o].paidAmount = total /\ order'[o].paymentStatus = "PAID"
  <2>1. CASE CreateOrder(o, want)
    <3>1. order' = [order EXCEPT ![o] = NewOrder(total)]
      BY <2>1 DEF CreateOrder, total
    <3>2. order'[o] = NewOrder(total)
      BY <1>3, <3>1
    <3>3. /\ order'[o].orderStatus = "NEW" /\ order'[o].paidAmount = 0
          /\ order'[o].totalAmount = total
          /\ order'[o].paymentStatus = "UNPAID"
      BY <3>2 DEF NewOrder, NoOrder
    <3>4. payment' = payment /\ ledger' = ledger
      BY <2>1 DEF CreateOrder
    <3>5. QED BY <1>3, <1>4, <1>8, <3>1, <3>2, <3>3, <3>4
              DEF MoneyInv, RowTypes
  <2>2. CASE \E i \in PaymentIds : CreatePaidOrder(o, want, i)
    <3> DEFINE row == [NewOrder(total) EXCEPT !.paidAmount = total,
                                              !.paymentStatus = "PAID"]
    <3>1. PICK i \in PaymentIds : CreatePaidOrder(o, want, i)
      BY <2>2
    <3>2. order' = [order EXCEPT ![o] = row] /\ BookPayment(i, o, total)
      BY <3>1 DEF CreatePaidOrder, total
    <3>3. "PAID" \in PaymentStatus /\ total \in Nat /\ total \in Int
      BY <1>3 DEF PaymentStatus, Amount
    <3>4. row \in OrderRow
      BY <1>8, <3>3 DEF OrderRow
    <3>5. /\ row.orderStatus = "NEW" /\ row.paidAmount = total
          /\ row.totalAmount = total /\ row.paymentStatus = "PAID"
      BY DEF NewOrder, NoOrder
    <3> HIDE DEF row
    <3>6. order'[o] = row
      BY <1>3, <3>2
    <3>7. payment' \in [PaymentIds -> PaymentRow]
      BY <3>2, <3>3 DEF BookPayment, MoneyInv, RowTypes, PaymentRow
    <3>8. ledger' = [ledger EXCEPT ![o].income = @ + total]
      BY <3>2 DEF BookPayment
    <3>9. ledger'[o] = [ledger[o] EXCEPT !.income = @ + total]
      BY <1>3, <3>8
    <3>10. /\ ledger'[o] \in [income : Int, refund : Nat]
           /\ ledger'[o].income - ledger'[o].refund = total
      BY <1>3, <1>4, <3>3, <3>9
    <3>11. /\ \A x \in OrderIds \ {o} : ledger'[x] = ledger[x]
           /\ ledger' \in [OrderIds -> [income : Int, refund : Nat]]
      BY <1>3, <3>8, <3>10
    <3>12. QED BY <1>3, <3>2, <3>4, <3>5, <3>6, <3>7, <3>10, <3>11
  <2>3. QED BY <2>1, <2>2
<1>11. UNCHANGED <<payout, sheet, lock, call>>
  BY <1>2 DEF PlaceOrder
<1>12. order' \in [OrderIds -> OrderRow]
       /\ \A x \in OrderIds \ {o} : order'[x] = order[x] /\ item'[x] = item[x]
  <2>1. \A x \in OrderIds \ {o} : order'[x] = order[x]
    BY <1>3, <1>10
  <2>2. item' = [item EXCEPT ![o] = NewLines(want)]
    BY <1>2 DEF PlaceOrder
  <2>3. QED BY <1>3, <1>10, <2>1, <2>2
<1>13. RowTypes'
  BY <1>6, <1>7, <1>10, <1>11, <1>12 DEF MoneyInv, RowTypes
<1>14. LockedSnapshots'
  <2>1. SUFFICES ASSUME NEW d \in Callers, call[d].op \in LockingOps
                 PROVE  LET x == call[d].order
                        IN  /\ lock[x] = d
                            /\ order'[x].orderStatus # "ABSENT"
                            /\ call[d].row = order'[x]
                            /\ call[d].item = item'[x]
    BY <1>11 DEF LockedSnapshots, Exists
  <2>2. /\ call[d].order \in OrderIds /\ Exists(call[d].order)
        /\ lock[call[d].order] = d
        /\ call[d].row = order[call[d].order]
        /\ call[d].item = item[call[d].order]
    BY <2>1, CallTypes DEF MoneyInv, LockedSnapshots
  <2>3. call[d].order # o
    BY <1>3, <2>2
  <2>4. QED BY <1>12, <2>2, <2>3 DEF Exists
<1>15. (AbsentUnpaid /\ LedgerAgrees /\ NeverOverpaid)'
  <2>1. total \in Nat /\ 0 <= total
    BY <1>3 DEF Amount
  <2>2. order'[o].paidAmount <= order'[o].totalAmount
    BY <1>10, <2>1
  <2>3. QED BY <1>10, <1>12, <2>2
            DEF MoneyInv, AbsentUnpaid, LedgerAgrees, NeverOverpaid, Exists
<1>16. PayStatusDerived'
  <2>1. total \in Nat
    BY <1>3 DEF Amount
  <2>2. \/ order'[o].paymentStatus
              = StatusFor(order'[o].paidAmount, order'[o].totalAmount)
        \/ /\ order'[o].totalAmount = 0 /\ order'[o].paidAmount = 0
           /\ order'[o].paymentStatus = "UNPAID"
    BY <1>10, <2>1 DEF StatusFor
  <2>3. QED BY <1>12, <2>2 DEF MoneyInv, PayStatusDerived
<1>17. QED BY <1>13, <1>14, <1>15, <1>16 DEF MoneyInv

\* Stock adjustments, supplies, product edits and the payment of a payout leave orders
\* alone.
LEMMA SingleStepKeeps ==
    ASSUME MoneyInv, NEW c \in Callers, call[c] = Idle, SingleStep
    PROVE  MoneyInv'
<1>1. CASE \E o \in OrderIds, want \in Baskets :
             \/ CreateOrder(o, want)
             \/ \E i \in PaymentIds : CreatePaidOrder(o, want, i)
  BY <1>1, CreateKeeps
<1>2. ASSUME UNCHANGED <<order, item, payment, ledger, sheet, lock, call>>,
             product' \in [Products -> ProductRow],
             moved' \in [OrderIds -> [Products -> Int]],
             payout' \in [PayoutIds -> PayoutRow]
      PROVE  MoneyInv'
  <2>1. RowTypes'
    BY <1>2 DEF MoneyInv, RowTypes
  <2>2. (LockedSnapshots /\ AbsentUnpaid)'
    BY <1>2 DEF MoneyInv, LockedSnapshots, AbsentUnpaid, Exists
  <2>3. (LedgerAgrees /\ NeverOverpaid /\ PayStatusDerived)'
    BY <1>2 DEF MoneyInv, LedgerAgrees, NeverOverpaid, PayStatusDerived
  <2>4. QED BY <2>1, <2>2, <2>3 DEF MoneyInv
<1>3. ASSUME NEW p \in Products, NEW qty \in -MaxQty..MaxQty,
             AdjustStock(p, qty)
      PROVE  MoneyInv'
  <2>1. product' \in [Products -> ProductRow]
    BY <1>3, MoveStockType DEF AdjustStock, MoneyInv
  <2>2. QED BY <1>2, <1>3, <2>1 DEF AdjustStock, MoneyInv, RowTypes
<1>4. ASSUME NEW p \in Products, NEW price \in Prices,
             NEW isActive \in BOOLEAN, EditProduct(p, price, isActive)
      PROVE  MoneyInv'
  <2>1. product' \in [Products -> ProductRow]
    <3>1. [product[p] EXCEPT !.price = price, !.isActive = isActive]
              \in ProductRow
      <4>1. product[p] \in ProductRow
        BY DEF MoneyInv, RowTypes
      <4>2. QED BY <4>1 DEF ProductRow
    <3>2. product' = [product EXCEPT ![p] =
                        [product[p] EXCEPT !.price = price,
                                           !.isActive = isActive]]
      BY <1>4 DEF EditProduct, MoneyInv, RowTypes
    <3>3. QED BY <3>1, <3>2 DEF MoneyInv, RowTypes
  <2>2. QED BY <1>2, <1>4, <2>1 DEF EditProduct, MoneyInv, RowTypes
<1>5. ASSUME NEW y \in PayoutIds, PayrollPay(y) PROVE MoneyInv'
  <2>1. payout' \in [PayoutIds -> PayoutRow]
    <3>1. payout[y] \in PayoutRow
      BY DEF MoneyInv, RowTypes
    <3>2. [payout[y] EXCEPT !.status = "PAID"] \in PayoutRow
      BY <3>1 DEF PayoutRow
    <3>3. payout' = [payout EXCEPT ![y] = [payout[y] EXCEPT !.status = "PAID"]]
      BY <1>5 DEF PayrollPay, MoneyInv, RowTypes
    <3>4. QED BY <3>2, <3>3 DEF MoneyInv, RowTypes
  <2>2. QED BY <1>2, <1>5, <2>1 DEF PayrollPay, MoneyInv, RowTypes
<1>6. ASSUME NEW p \in Products, NEW qty \in 1..MaxQty, ReceiveLine(p, qty)
      PROVE  MoneyInv'
  <2>1. product' \in [Products -> ProductRow]
    BY <1>6, MoveStockType DEF ReceiveLine, MoneyInv
  <2>2. QED BY <1>2, <1>6, <2>1 DEF ReceiveLine, MoneyInv, RowTypes
<1>7. QED BY <1>1, <1>3, <1>4, <1>5, <1>6
          DEF SingleStep, ReceiveUndated, ReceiveDated

\* A request that ends without effect frees its locks and no others.
LEMMA AbortKeeps ==
    ASSUME MoneyInv, NEW c \in Callers, Abort(c)
    PROVE  MoneyInv'
<1>1. call' = [call EXCEPT ![c] = Idle]
      /\ lock' = [o \in OrderIds |-> IF lock[o] = c THEN None ELSE lock[o]]
      /\ UNCHANGED <<order, item, product, payment, ledger, moved, batch, payout,
                     sheet>>
  BY DEF Abort, Finish
<1>2. RowTypes'
  <2>1. Idle \in CallState
    BY DEF CallState
  <2>2. QED BY <1>1, <2>1 DEF MoneyInv, RowTypes
<1>3. LockedSnapshots'
  <2>1. SUFFICES ASSUME NEW d \in Callers, call'[d].op \in LockingOps
                 PROVE  LET x == call'[d].order
                        IN  /\ lock'[x] = d
                            /\ order[x].orderStatus # "ABSENT"
                            /\ call'[d].row = order[x]
                            /\ call'[d].item = item[x]
    BY <1>1 DEF LockedSnapshots, Exists
  <2>2. d # c /\ call'[d] = call[d]
    BY <1>1, <2>1 DEF MoneyInv, RowTypes, Idle, LockingOps
  <2>3. call[d].order \in OrderIds /\ lock[call[d].order] = d
    BY <2>1, <2>2, CallTypes DEF MoneyInv, LockedSnapshots
  <2>4. lock'[call[d].order] = d
    BY <1>1, <2>2, <2>3
  <2>5. QED BY <2>1, <2>2, <2>4 DEF MoneyInv, LockedSnapshots, Exists
<1>4. (AbsentUnpaid /\ LedgerAgrees /\ NeverOverpaid /\ PayStatusDerived)'
  BY <1>1 DEF MoneyInv, AbsentUnpaid, LedgerAgrees, NeverOverpaid,
              PayStatusDerived, Exists
<1>5. QED BY <1>2, <1>3, <1>4 DEF MoneyInv

\* Every step of every handler keeps the invariant.
LEMMA StepMoney == MoneyInv /\ [Next]_vars => MoneyInv'
<1> SUFFICES ASSUME MoneyInv, [Next]_vars PROVE MoneyInv'
  OBVIOUS
<1>1. CASE UNCHANGED vars
  BY <1>1 DEF vars, MoneyInv, RowTypes, LockedSnapshots, AbsentUnpaid,
              LedgerAgrees, NeverOverpaid, PayStatusDerived, Exists
<1>2. ASSUME NEW c \in Callers, call[c] = Idle, SingleStep PROVE MoneyInv'
  BY <1>2, SingleStepKeeps
<1>3. ASSUME NEW c \in Callers, LockedWrite(c) PROVE MoneyInv'
  BY <1>3, UpdateOrderKeeps, AddPaymentKeeps, DeletePaymentKeeps,
     CreateReturnKeeps DEF LockedWrite
<1>4. ASSUME NEW c \in Callers, UnlockedWrite(c) PROVE MoneyInv'
  BY <1>4, OneOrderKeeps, HandoverKeeps, PayrollKeeps, BatchWritesKeep
     DEF UnlockedWrite
<1>5. QED BY <1>1, <1>2, <1>3, <1>4, LockKeeps, ReadKeeps, AbortKeeps DEF Next

\* Every reachable state has well-typed rows and exact snapshots under locks,
\* and the money of every order is right.
THEOREM MoneyAlways == Spec => []MoneyInv
BY InitMoney, StepMoney, PTL DEF Spec

\* paidAmount is the sum of the finance entries for any number of concurrent
\* payments, deletions, refunds and edits: no update is lost.
THEOREM LedgerAlwaysAgrees == Spec => []LedgerAgrees
<1>1. MoneyInv => LedgerAgrees
  BY DEF MoneyInv
<1>2. QED BY <1>1, MoneyAlways, PTL

\* No order ever holds more money than its total.
THEOREM OrdersNeverOverpaid == Spec => []NeverOverpaid
<1>1. MoneyInv => NeverOverpaid
  BY DEF MoneyInv
<1>2. QED BY <1>1, MoneyAlways, PTL

\* The stored payment status is always the one its amounts give.
THEOREM PayStatusAlwaysDerived == Spec => []PayStatusDerived
<1>1. MoneyInv => PayStatusDerived
  BY DEF MoneyInv
<1>2. QED BY <1>1, MoneyAlways, PTL

\* What a request read under the lock is what the row still holds when it
\* commits.
THEOREM LocksProtectSnapshots == Spec => []LockedSnapshots
<1>1. MoneyInv => LockedSnapshots
  BY DEF MoneyInv
<1>2. QED BY <1>1, MoneyAlways, PTL
=============================================================================
