------------------------------ MODULE ShopState ------------------------------
(***************************************************************************)
(* The rows of the ursGAL database that orders, money, stock and delivery  *)
(* share (backend/prisma/schema.prisma), and what a request in flight      *)
(* remembers of them.                                                      *)
(*                                                                         *)
(* The service runs on PostgreSQL at READ COMMITTED.  A handler is modelled*)
(* by as many steps as other requests can come between: a handler that     *)
(* reads, checks and writes later keeps what it read in call[c]; a handler *)
(* that starts with lockOrderForUpdate holds lock[o] from its read to its  *)
(* commit, and every other writer of that order row waits for it.          *)
(***************************************************************************)
EXTENDS Integers, FiniteSets, Functions

CONSTANTS
    OrderIds, Products, Drivers,
    PaymentIds,      \* payments that can be booked in one behaviour
    BatchIds,        \* numbers: expiry batches, in the order they are created
    PayoutIds,       \* driver payouts
    HandoverIds,     \* handover sheets
    Callers,         \* requests that can be in flight at one time
    Routes,          \* the handlers that are called
    Prices,          \* the unit prices a product can have
    Expiries,        \* the expiry dates a batch can have
    InitialStock,    \* stock of every product at the start
    MaxQty,          \* largest quantity in a request
    MaxStock,        \* width of the stockQty column
    MaxAmount,       \* width of the Decimal(12, 2) columns
    None

ASSUME OrderIdsAssumption == IsFiniteSet(OrderIds)
ASSUME ProductsAssumption == IsFiniteSet(Products)
ASSUME PaymentIdsAssumption == IsFiniteSet(PaymentIds)
ASSUME PricesAssumption == Prices \subseteq Nat
ASSUME ExpiriesAssumption == Expiries \subseteq Nat
ASSUME BatchIdsAssumption == BatchIds \subseteq Nat /\ IsFiniteSet(BatchIds)
ASSUME BoundsAssumption ==
    /\ InitialStock \in Nat /\ MaxQty \in Nat
    /\ MaxStock \in Nat /\ MaxAmount \in Nat
ASSUME NoneAssumption ==
    None \notin OrderIds \cup Products \cup Drivers \cup PaymentIds
                \cup PayoutIds \cup HandoverIds \cup Callers

VARIABLES
    order,     \* Order rows
    item,      \* OrderItem rows by order and product, with what was returned
    product,   \* Product rows
    payment,   \* Payment rows
    ledger,    \* FinanceEntry sums with refOrderId: PAYMENT income, REFUND expense
    moved,     \* StockMovement sums by order (refId) and product
    batch,     \* ProductBatch rows
    payout,    \* DriverPayout rows
    sheet,     \* DriverHandover rows: the driver of a sheet
    lock,      \* the request that holds an order row FOR UPDATE
    call,      \* what each request in flight has read
    stale,     \* history: orders and products whose rows were written on a
               \* check that had ceased to hold
    revived    \* history: cancelled orders that a handover sheet took up

vars == <<order, item, product, payment, ledger, moved, batch, payout, sheet,
          lock, call, stale, revived>>
history == <<stale, revived>>

-----------------------------------------------------------------------------
(* Rows *)

\* ABSENT is an order that has not been created.
OrderStatus == {"ABSENT", "NEW", "CONFIRMED", "PREPARING", "READY",
                "COMPLETED", "CANCELLED"}
DeliveryStatus == {"PENDING", "ASSIGNED", "ON_THE_WAY", "DELIVERED", "FAILED"}
PaymentStatus == {"UNPAID", "PARTIAL", "PAID"}
ReturnState == {"NONE", "PARTIAL", "FULL"}

Amount == 0..MaxAmount

\* excludeFromPayroll: some OrderReturn row of the order has the flag.
OrderRow == [orderStatus : OrderStatus, deliveryStatus : DeliveryStatus,
             assignedDriver : Drivers \cup {None},
             handover : HandoverIds \cup {None},
             payout : PayoutIds \cup {None},
             totalAmount : Amount, paidAmount : Int,
             paymentStatus : PaymentStatus, returnState : ReturnState,
             excludeFromPayroll : BOOLEAN]

NoOrder == [orderStatus |-> "ABSENT", deliveryStatus |-> "PENDING",
            assignedDriver |-> None, handover |-> None, payout |-> None,
            totalAmount |-> 0, paidAmount |-> 0, paymentStatus |-> "UNPAID",
            returnState |-> "NONE", excludeFromPayroll |-> FALSE]

\* qty = 0: the order has no line for the product.  returned and restocked
\* are the sums of the line's OrderReturnItem rows, all of them and those of
\* returns with restocked = true.
ItemRow == [qty : Nat, priceAtOrder : Prices \cup {0},
            returned : Nat, restocked : Nat]
NoItem == [qty |-> 0, priceAtOrder |-> 0, returned |-> 0, restocked |-> 0]

ProductRow == [stockQty : Int, price : Prices, isActive : BOOLEAN]

NoPayment == [state |-> "free", order |-> None, amount |-> 0]

\* A payment id is used once, as a uuid is; "deleted" ids stay used.
PaymentRow == {NoPayment} \cup [state : {"booked", "deleted"},
                                order : OrderIds, amount : Nat]

BatchRow == [product : Products \cup {None}, expiryDate : Expiries \cup {0},
             qty : Nat, remaining : Int, writtenOff : BOOLEAN]
NoBatch == [product |-> None, expiryDate |-> 0, qty |-> 0, remaining |-> 0,
            writtenOff |-> FALSE]

PayoutRow == [driver : Drivers \cup {None}, deliveredCount : Nat,
              status : {"NONE", "PENDING", "PAID"}]
NoPayout == [driver |-> None, deliveredCount |-> 0, status |-> "NONE"]

Quantities == [Products -> 0..MaxQty]

\* The rows of a request: at least one line, every line at least one piece.
Baskets == {q \in Quantities : \E p \in Products : q[p] > 0}

-----------------------------------------------------------------------------
(* Requests in flight *)

Idle == [op |-> "idle"]

\* Handlers that read the order under its row lock.
LockingOps == {"update", "addPayment", "deletePayment", "return"}

CallState ==
    {Idle}
    \cup [op : LockingOps \ {"deletePayment"}, order : OrderIds,
          row : OrderRow, item : [Products -> ItemRow], payment : {None}]
    \cup [op : {"deletePayment"}, order : OrderIds, row : OrderRow,
          item : [Products -> ItemRow], payment : PaymentIds]
    \cup [op : {"foundPayment"}, order : OrderIds, payment : PaymentIds]
    \cup [op : {"updateStatus"}, order : OrderIds,
            to : OrderStatus \ {"ABSENT", "CANCELLED"}]
    \cup [op : {"cancel"}, order : OrderIds, item : [Products -> ItemRow]]
    \cup [op : {"assign", "start", "deliver", "fail"},
          order : OrderIds, driver : Drivers]
    \cup [op : {"handover", "payrollClose"}, driver : Drivers,
          orders : SUBSET OrderIds]
    \cup [op : {"createBatch"}, product : Products, stockQty : Int]
    \cup [op : {"insertBatch"}, product : Products, qty : 1..MaxQty]
    \cup [op : {"writeOff"}, batch : BatchIds, remaining : Int]

Exists(o) == order[o].orderStatus # "ABSENT"

\* Request c starts a handler and remembers r until its next step.
Begin(c, route, r) ==
    /\ call[c] = Idle
    /\ route \in Routes
    /\ call' = [call EXCEPT ![c] = r]
    /\ UNCHANGED history

Finish(c) == call' = [call EXCEPT ![c] = Idle]

\* The end of a handler that has checked without a lock: rows are those it
\* writes although they would not pass its checks any more.
FinishUnlocked(c, rows) ==
    /\ Finish(c)
    /\ stale' = stale \cup rows

\* Mistake: a plain read instead of SELECT ... FOR UPDATE does not wait.
ReadOrderNoWait(c, op, o, i) ==
    /\ Exists(o)
    /\ lock' = [lock EXCEPT ![o] = c]
    /\ call' = [call EXCEPT ![c] =
                  [op |-> op, order |-> o, row |-> order[o], item |-> item[o],
                   payment |-> i]]
    /\ UNCHANGED history

\* lockOrderForUpdate and the read that follows it.
LockOrder(c, op, o, i) ==
    /\ Exists(o)
    /\ lock[o] = None
    /\ lock' = [lock EXCEPT ![o] = c]
    /\ call' = [call EXCEPT ![c] =
                  [op |-> op, order |-> o, row |-> order[o], item |-> item[o],
                   payment |-> i]]
    /\ UNCHANGED history

\* The commit of a handler that holds the lock of order o.
Commit(c, o) ==
    /\ lock' = [lock EXCEPT ![o] = None]
    /\ Finish(c)
    /\ UNCHANGED history

\* The request ends without effect: a check fails, the transaction times out
\* or is rolled back, or the server process dies.
Abort(c) ==
    /\ call[c].op # "idle"
    /\ lock' = [o \in OrderIds |-> IF lock[o] = c THEN None ELSE lock[o]]
    /\ Finish(c)
    /\ UNCHANGED <<order, item, product, payment, ledger, moved, batch, payout,
                   sheet, history>>

-----------------------------------------------------------------------------
Init ==
    /\ order = [o \in OrderIds |-> NoOrder]
    /\ item = [o \in OrderIds |-> [p \in Products |-> NoItem]]
    /\ product \in [Products -> [stockQty : {InitialStock}, price : Prices,
                                 isActive : {TRUE}]]
    /\ payment = [i \in PaymentIds |-> NoPayment]
    /\ ledger = [o \in OrderIds |-> [income |-> 0, refund |-> 0]]
    /\ moved = [o \in OrderIds |-> [p \in Products |-> 0]]
    /\ batch = [b \in BatchIds |-> NoBatch]
    /\ payout = [y \in PayoutIds |-> NoPayout]
    /\ sheet = [h \in HandoverIds |-> None]
    /\ lock = [o \in OrderIds |-> None]
    /\ call = [c \in Callers |-> Idle]
    /\ stale = {}
    /\ revived = {}

RowTypes ==
    /\ order \in [OrderIds -> OrderRow]
    /\ item \in [OrderIds -> [Products -> ItemRow]]
    /\ product \in [Products -> ProductRow]
    /\ payment \in [PaymentIds -> PaymentRow]
    /\ ledger \in [OrderIds -> [income : Int, refund : Nat]]
    /\ moved \in [OrderIds -> [Products -> Int]]
    /\ payout \in [PayoutIds -> PayoutRow]
    /\ sheet \in [HandoverIds -> Drivers \cup {None}]
    /\ lock \in [OrderIds -> Callers \cup {None}]
    /\ call \in [Callers -> CallState]

\* Every row has the columns and the values its table allows.
TypeOK ==
    /\ RowTypes
    /\ batch \in [BatchIds -> BatchRow]
    /\ stale \subseteq OrderIds \cup Products
    /\ revived \subseteq OrderIds
=============================================================================
