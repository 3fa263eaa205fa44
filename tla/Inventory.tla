------------------------------ MODULE Inventory ------------------------------
(***************************************************************************)
(* Stock: what every handler that moves goods does to the Product,         *)
(* StockMovement and ProductBatch tables, and the handlers of the warehouse*)
(* itself: stock.service.ts (adjust), supplies.service.ts (create), batches.*)
(* service.ts (create, writeOff) and the product edits of products.service. *)
(*                                                                         *)
(* Whoever moves stock updates the Product row first and holds its row lock*)
(* to the end of the transaction, so the batches read by applyBatchDelta   *)
(* cannot change under it: a stock movement is one step.                   *)
(***************************************************************************)
EXTENDS ShopState, Fefo

\* The Product rows take the change, if the stockQty column can hold it.
MoveStock(delta) ==
    /\ \A p \in Products :
          product[p].stockQty + delta[p] \in -MaxStock..MaxStock
    /\ product' = [p \in Products |->
                     [product[p] EXCEPT !.stockQty = @ + delta[p]]]

\* Mistake: the decremented row is not looked at again.
EnoughUnchecked(delta) == TRUE

\* `updated.stockQty < 0` after the update of a row rolls everything back.
Enough(delta) ==
    \A p \in Products : delta[p] # 0 => product[p].stockQty + delta[p] >= 0

\* The batches of every product follow the movement of its stock.
BatchesFollow(delta) ==
    batch' = [b \in BatchIds |->
                IF batch[b].product = None THEN batch[b]
                ELSE ApplyBatchDelta(batch, batch[b].product,
                                     delta[batch[b].product])[b]]

\* Goods move for an order: stock by an increment of the row, a movement that
\* names the order, the batches.  delta[p] < 0: goods leave.
MoveForOrder(o, delta) ==
    /\ MoveStock(delta)
    /\ moved' = [moved EXCEPT ![o] = [p \in Products |-> moved[o][p] + delta[p]]]
    /\ BatchesFollow(delta)

-----------------------------------------------------------------------------
(* stock.service.ts: adjust.  PURCHASE_IN, MANUAL_OUT and CORRECTION differ *)
(* in the sign they allow; together they allow every change but 0.         *)

Only(p, qty) == [q \in Products |-> IF q = p THEN qty ELSE 0]

AdjustStock(p, qty) ==
    /\ "adjust" \in Routes
    /\ qty # 0
    /\ Enough(Only(p, qty))
    /\ MoveStock(Only(p, qty))
    /\ BatchesFollow(Only(p, qty))
    /\ UNCHANGED <<order, item, payment, ledger, moved, payout, sheet, lock, call,
                   history>>

\* Mistake: a new price reaches the lines of orders that exist.
EditProductReprices(p, price, isActive) ==
    /\ "editProduct" \in Routes
    /\ product' = [product EXCEPT ![p].price = price, ![p].isActive = isActive]
    /\ item' = [o \in OrderIds |->
                  [item[o] EXCEPT ![p].priceAtOrder =
                     IF item[o][p].qty > 0 THEN price ELSE @]]
    /\ UNCHANGED <<order, payment, ledger, moved, batch, payout, sheet, lock,
                   call, history>>

\* products.service.ts: update and remove, as far as orders see them.
EditProduct(p, price, isActive) ==
    /\ "editProduct" \in Routes
    /\ product' = [product EXCEPT ![p].price = price, ![p].isActive = isActive]
    /\ UNCHANGED <<order, item, payment, ledger, moved, batch, payout, sheet,
                   lock, call, history>>

-----------------------------------------------------------------------------
NextBatch(b) ==
    /\ batch[b].product = None
    /\ \A a \in BatchIds : batch[a].product = None => b <= a

InsertBatch(b, p, qty, expiry) ==
    /\ NextBatch(b)
    /\ batch' = [batch EXCEPT ![b] =
                   [product |-> p, expiryDate |-> expiry, qty |-> qty,
                    remaining |-> qty, writtenOff |-> FALSE]]

\* supplies.service.ts: create, a line of a supply.  The stock grows by an
\* increment of the row; a line with an expiry date opens a batch of its own,
\* one without leaves the batches alone.
ReceiveLine(p, qty) ==
    /\ "supply" \in Routes
    /\ MoveStock(Only(p, qty))
    /\ UNCHANGED <<order, item, payment, ledger, moved, payout, sheet, lock, call,
                   history>>
ReceiveUndated(p, qty) == ReceiveLine(p, qty) /\ UNCHANGED batch
ReceiveDated(p, qty, b, expiry) ==
    ReceiveLine(p, qty) /\ InsertBatch(b, p, qty, expiry)

-----------------------------------------------------------------------------
(* batches.service.ts: create reads the stock, then the sum of the batches,*)
(* then inserts.  Nothing keeps the rows it has read from changing.        *)

Tracked(p) ==
    SumFunction([b \in UsedBatches(batch, p) |-> batch[b].remaining])

CreateBatchReadStock(c, p) ==
    /\ Begin(c, "createBatch",
             [op |-> "createBatch", product |-> p,
              stockQty |-> product[p].stockQty])
    /\ UNCHANGED <<order, item, product, payment, ledger, moved, batch, payout,
                   sheet, lock>>

\* dto.qty may not exceed the stock that no batch tracks.
CreateBatchReadTracked(c, qty) ==
    /\ call[c].op = "createBatch"
    /\ qty <= call[c].stockQty - Tracked(call[c].product)
    /\ call' = [call EXCEPT ![c] =
                  [op |-> "insertBatch", product |-> call[c].product,
                   qty |-> qty]]
    /\ UNCHANGED <<order, item, product, payment, ledger, moved, batch, payout,
                   sheet, lock, history>>

CreateBatch(c, b, expiry) ==
    LET p == call[c].product
        fits == call[c].qty <= product[p].stockQty - Tracked(p)
    IN  /\ call[c].op = "insertBatch"
        /\ InsertBatch(b, p, call[c].qty, expiry)
        /\ FinishUnlocked(c, IF fits THEN {} ELSE {p})
        /\ UNCHANGED <<order, item, product, payment, ledger, moved, payout,
                       sheet, lock, revived>>

-----------------------------------------------------------------------------
(* batches.service.ts: writeOff reads the batch and later takes what it    *)
(* read off the stock, whatever happened to the batch meanwhile.           *)

WriteOffRead(c, b) ==
    /\ batch[b].product # None
    /\ ~batch[b].writtenOff
    /\ batch[b].remaining \in 1..MaxStock
    /\ Begin(c, "writeOff",
             [op |-> "writeOff", batch |-> b, remaining |-> batch[b].remaining])
    /\ UNCHANGED <<order, item, product, payment, ledger, moved, batch, payout,
                   sheet, lock>>

WriteOff(c) ==
    LET b == call[c].batch
        p == batch[b].product
        asRead == ~batch[b].writtenOff /\ batch[b].remaining = call[c].remaining
    IN  /\ call[c].op = "writeOff"
        /\ MoveStock(Only(p, -call[c].remaining))
        /\ batch' = [batch EXCEPT ![b].remaining = 0, ![b].writtenOff = TRUE]
        /\ FinishUnlocked(c, IF asRead THEN {} ELSE {p})
        /\ UNCHANGED <<order, item, payment, ledger, moved, payout, sheet, lock,
                       revived>>
=============================================================================
