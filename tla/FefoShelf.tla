------------------------------ MODULE FefoShelf ------------------------------
(***************************************************************************)
(* The batches of one product through a series of stock movements, to      *)
(* compare applyBatchDelta with what it should compute.                    *)
(***************************************************************************)
EXTENDS Fefo, Functions

CONSTANTS Batches,    \* numbers: batches in the order they were created
          Dates,      \* expiry dates
          MaxPieces   \* pieces in a batch and in a movement

ASSUME ShelfAssumption ==
    /\ Batches \subseteq Nat /\ IsFiniteSet(Batches)
    /\ Dates \subseteq Nat /\ MaxPieces \in Nat

VARIABLES shelf,    \* the batch table
          before,   \* the table before the last two movements, oldest first
          deltas    \* the last two movements

shelfVars == <<shelf, before, deltas>>

ShelfRow == [product : {"sold"}, expiryDate : Dates, qty : 1..MaxPieces,
             remaining : 0..MaxPieces, writtenOff : BOOLEAN]

\* A batch holds at most what it received, and nothing once written off.
Shelves ==
    {r \in [Batches -> ShelfRow] :
        \A b \in Batches : /\ r[b].remaining <= r[b].qty
                           /\ r[b].writtenOff => r[b].remaining = 0}

ShelfInit ==
    /\ shelf \in Shelves
    /\ before = <<shelf, shelf>>
    /\ deltas = <<0, 0>>

Deltas == -2 * MaxPieces..2 * MaxPieces

\* At most two movements: the second is the opposite of the first or any.
Move(delta) ==
    /\ deltas[1] = 0
    /\ delta # 0
    /\ shelf' = ApplyBatchDelta(shelf, "sold", delta)
    /\ before' = <<before[2], shelf>>
    /\ deltas' = <<deltas[2], delta>>

ShelfNext == \E delta \in Deltas : Move(delta)

ShelfSpec == ShelfInit /\ [][ShelfNext]_shelfVars

-----------------------------------------------------------------------------
(* What the loops should compute, without loops: batch b of product p gives*)
(* what is left of the movement after all batches that expire before it.   *)

Clamp(n, hi) == IF n < 0 THEN 0 ELSE IF n > hi THEN hi ELSE n

Earlier(r, S, b) == {a \in S : Precedes(r, a, b)}
TotalOf(f) == SumFunction(f)

Given(r, p, pieces, b) ==
    LET S == OpenBatches(r, p)
    IN  IF b \notin S THEN 0
        ELSE Clamp(pieces - TotalOf([a \in Earlier(r, S, b) |-> r[a].remaining]),
                   r[b].remaining)

Room(r, b) == r[b].qty - r[b].remaining

TakenBack(r, p, pieces, b) ==
    LET S == UsedBatches(r, p)
    IN  IF b \notin S THEN 0
        ELSE Clamp(pieces - TotalOf([a \in Earlier(r, S, b) |-> Room(r, a)]),
                   Room(r, b))

\* What a movement changes in batch b of product p.
Change(r, p, delta, b) ==
    IF delta < 0 THEN -Given(r, p, -delta, b) ELSE TakenBack(r, p, delta, b)

\* The loops of applyBatchDelta, with their early exits and skipped batches,
\* compute the closed form: goods leave and come back in order of expiry.
MatchesReference ==
    deltas[2] # 0 =>
        \A b \in Batches :
            shelf[b] = [before[2][b] EXCEPT !.remaining =
                          @ + Change(before[2], "sold", deltas[2], b)]
=============================================================================
