-------------------------------- MODULE Fefo --------------------------------
(***************************************************************************)
(* applyBatchDelta (backend/src/stock/batch.util.ts): when the stock of a  *)
(* product moves, the expiry batches of the product follow.  Goods that    *)
(* leave are taken from the batch that expires first; goods that come back *)
(* fill the room of the batch that expires first.  What no batch can hold  *)
(* is silently stock without a batch.                                      *)
(*                                                                         *)
(* A table of batches is a function from batch ids to rows                 *)
(*   [product, expiryDate, qty, remaining, writtenOff].                    *)
(* Ids are numbers and grow with createdAt, the second sort key.           *)
(***************************************************************************)
EXTENDS Integers, FiniteSetsExt

Least(a, b) == IF a < b THEN a ELSE b

\* orderBy: [{ expiryDate: 'asc' }, { createdAt: 'asc' }]
Precedes(rows, a, b) ==
    \/ rows[a].expiryDate < rows[b].expiryDate
    \/ rows[a].expiryDate = rows[b].expiryDate /\ a < b

\* Mistake: the batch that expires last comes first.
LastOfReversed(rows, S) ==
    CHOOSE b \in S : \A a \in S \ {b} : Precedes(rows, b, a)

\* The batch of the non-empty set S that the sort puts last.
LastOf(rows, S) ==
    CHOOSE b \in S : \A a \in S \ {b} : Precedes(rows, a, b)

OpenBatches(rows, p) ==
    {b \in DOMAIN rows : /\ rows[b].product = p
                         /\ ~rows[b].writtenOff
                         /\ rows[b].remaining > 0}

UsedBatches(rows, p) ==
    {b \in DOMAIN rows : rows[b].product = p /\ ~rows[b].writtenOff}

\* One turn of the outgoing loop; acc = [left, rows].
TakeFrom(b, acc) ==
    LET take == Least(acc.left, acc.rows[b].remaining)
    IN  [left |-> acc.left - take,
         rows |-> [acc.rows EXCEPT ![b].remaining = @ - take]]

\* Mistake: the first batch takes back all, more than ever left it.
PutIntoFirst(b, acc) ==
    [left |-> 0, rows |-> [acc.rows EXCEPT ![b].remaining = @ + acc.left]]

\* One turn of the incoming loop: a batch takes back at most what left it.
PutInto(b, acc) ==
    LET put == Least(acc.left, acc.rows[b].qty - acc.rows[b].remaining)
    IN  [left |-> acc.left - put,
         rows |-> [acc.rows EXCEPT ![b].remaining = @ + put]]

\* The loops `for (const b of ...)`, over the batches in sort order: the fold
\* applies a turn to the last batch after it has folded the others.
Outgoing(rows, p, pieces) ==
    MapThenFoldSet(TakeFrom, [left |-> pieces, rows |-> rows],
                   LAMBDA b : b, LAMBDA S : LastOf(rows, S),
                   OpenBatches(rows, p)).rows

Incoming(rows, p, pieces) ==
    MapThenFoldSet(PutInto, [left |-> pieces, rows |-> rows],
                   LAMBDA b : b, LAMBDA S : LastOf(rows, S),
                   UsedBatches(rows, p)).rows

ApplyBatchDelta(rows, p, delta) ==
    CASE delta = 0 -> rows
      [] delta < 0 -> Outgoing(rows, p, -delta)
      [] delta > 0 -> Incoming(rows, p, delta)
=============================================================================
