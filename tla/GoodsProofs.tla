---------------------------- MODULE GoodsProofs -----------------------------
(***************************************************************************)
(* The loops of applyBatchDelta compute their closed form, for any number  *)
(* of batches and pieces; so batches keep within the stock and goods are   *)
(* accounted for, for any number of requests: but in the rows that were    *)
(* written on a check that had ceased to hold, which `stale' names.        *)
(***************************************************************************)
EXTENDS OrderProofs, FefoShelf

-----------------------------------------------------------------------------
(* Tables of batches, and their order.                                     *)

\* rows is a table over the finitely many ids D of batches of the products T,
\* and no batch holds less than nothing or more than it received.
IsTable(rows, D, T) ==
    /\ D \subseteq Nat /\ IsFiniteSet(D)
    /\ rows \in [D -> [product : T, expiryDate : Nat, qty : Nat,
                       remaining : Int, writtenOff : BOOLEAN]]
    /\ \A b \in D : rows[b].remaining \in 0..rows[b].qty

\* The sort order is strict, transitive and total.
LEMMA PrecedesOrders ==
    ASSUME NEW D, NEW T, NEW rows, IsTable(rows, D, T)
    PROVE  /\ \A a \in D : ~Precedes(rows, a, a)
           /\ \A a, b \in D : \/ a = b \/ Precedes(rows, a, b)
                              \/ Precedes(rows, b, a)
           /\ \A a, b \in D : ~(Precedes(rows, a, b) /\ Precedes(rows, b, a))
           /\ \A a, b, d \in D : Precedes(rows, a, b) /\ Precedes(rows, b, d) =>
                                     Precedes(rows, a, d)
<1>1. \A a \in D : rows[a].expiryDate \in Nat
  BY DEF IsTable
<1>2. \A a \in D : a \in Nat
  BY DEF IsTable
<1>3. QED BY <1>1, <1>2 DEF Precedes

\* A finite set that is not empty has a last element in any strict order that
\* is transitive and total on it.
LEMMA LastInOrder ==
    ASSUME NEW S, IsFiniteSet(S), S # {}, NEW R,
           \A a, b \in S : a = b \/ <<a, b>> \in R \/ <<b, a>> \in R,
           \A a, b, d \in S :
              <<a, b>> \in R /\ <<b, d>> \in R => <<a, d>> \in R
    PROVE  \E b \in S : \A a \in S \ {b} : <<a, b>> \in R
<1> DEFINE HasLast(U) == \E b \in U : \A a \in U \ {b} : <<a, b>> \in R
           B == {U \in SUBSET S : U # {} /\ ~HasLast(U)}
<1> SUFFICES ASSUME B # {} PROVE FALSE
  OBVIOUS
<1>1. PICK U \in B : \A V \in B : V \subseteq U => V = U
  <2>1. B \in SUBSET SUBSET S
    OBVIOUS
  <2> HIDE DEF B
  <2>2. QED BY <2>1, LeastSubset
<1>2. PICK x : x \in U
  BY <1>1
<1> DEFINE V == U \ {x}
<1>3. V # {}
  BY <1>1, <1>2
<1>4. HasLast(V)
  <2>1. V \in SUBSET S /\ V # U /\ V \subseteq U
    BY <1>1, <1>2
  <2>2. V \notin B
    BY <1>1, <2>1
  <2>3. QED BY <1>3, <2>1, <2>2
<1>5. PICK y \in V : \A a \in V \ {y} : <<a, y>> \in R
  BY <1>4
<1>6. x \in S /\ y \in S /\ x # y /\ U \subseteq S
  BY <1>1, <1>2, <1>5
<1>7. CASE <<x, y>> \in R
  BY <1>1, <1>5, <1>7
<1>8. CASE <<y, x>> \in R
  <2>1. ASSUME NEW a \in U \ {x} PROVE <<a, x>> \in R
    <3>1. CASE a = y
      BY <1>8, <3>1
    <3>2. CASE a # y
      BY <1>5, <1>6, <1>8, <2>1, <3>2
    <3>3. QED BY <3>1, <3>2
  <2>2. QED BY <1>1, <1>2, <2>1
<1>9. QED BY <1>6, <1>7, <1>8

\* The sort order puts the batches of S in a row.
SortsAll(rows, S) ==
    /\ \A a, b \in S : \/ a = b \/ Precedes(rows, a, b)
                       \/ Precedes(rows, b, a)
    /\ \A a, b, d \in S : Precedes(rows, a, b) /\ Precedes(rows, b, d) =>
                            Precedes(rows, a, d)

\* Then one of them is last.
LEMMA LastSorted ==
    ASSUME NEW rows, NEW S, IsFiniteSet(S), S # {}, SortsAll(rows, S)
    PROVE  \E b \in S : \A a \in S \ {b} : Precedes(rows, a, b)
<1> DEFINE R == {q \in S \X S : Precedes(rows, q[1], q[2])}
<1>1. \A a, b \in S : <<a, b>> \in R <=> Precedes(rows, a, b)
  OBVIOUS
<1> HIDE DEF R
<1>2. \E b \in S : \A a \in S \ {b} : <<a, b>> \in R
  BY <1>1, LastInOrder DEF SortsAll
<1>3. QED BY <1>1, <1>2

\* Every set of batches that is not empty has a last one.
LEMMA LastExists ==
    ASSUME NEW D, NEW T, NEW rows, IsTable(rows, D, T),
           NEW S \in SUBSET D, IsFiniteSet(S), S # {}
    PROVE  \E b \in S : \A a \in S \ {b} : Precedes(rows, a, b)
<1>1. SortsAll(rows, S)
  BY PrecedesOrders DEF SortsAll
<1>2. QED BY <1>1, LastSorted

\* LastOf is that one.
LEMMA LastIsLast ==
    ASSUME NEW D, NEW T, NEW rows, IsTable(rows, D, T),
           NEW S \in SUBSET D, IsFiniteSet(S), S # {}
    PROVE  /\ LastOf(rows, S) \in S
           /\ \A a \in S \ {LastOf(rows, S)} : Precedes(rows, a, LastOf(rows, S))
BY LastExists DEF LastOf

-----------------------------------------------------------------------------
(* The loops.                                                              *)

\* What a batch can give, or take back.
Avail(dir, row) == IF dir = "out" THEN row.remaining ELSE row.qty - row.remaining

\* One turn of the outgoing or the incoming loop.
Turn(dir, b, acc) == IF dir = "out" THEN TakeFrom(b, acc) ELSE PutInto(b, acc)

\* h holds what the loop makes of every subset of S.
LoopTable(dir, rows, pieces, S, h) ==
    h = [s \in SUBSET S |->
            IF s = {} THEN [left |-> pieces, rows |-> rows]
            ELSE Turn(dir, LastOf(rows, s), h[s \ {LastOf(rows, s)}])]

\* The same of the outgoing loop, in its own words.
OutTable(rows, pieces, S, h) ==
    h = [s \in SUBSET S |->
            IF s = {} THEN [left |-> pieces, rows |-> rows]
            ELSE TakeFrom(LastOf(rows, s), h[s \ {LastOf(rows, s)}])]

\* And of the incoming one.
InTable(rows, pieces, S, h) ==
    h = [s \in SUBSET S |->
            IF s = {} THEN [left |-> pieces, rows |-> rows]
            ELSE PutInto(LastOf(rows, s), h[s \ {LastOf(rows, s)}])]

\* The loops are read off these tables.
LEMMA LoopsOfTable ==
    ASSUME NEW rows, NEW p, NEW pieces
    PROVE  /\ LET S == OpenBatches(rows, p)
              IN  Outgoing(rows, p, pieces)
                    = (CHOOSE h : OutTable(rows, pieces, S, h))[S].rows
           /\ LET S == UsedBatches(rows, p)
              IN  Incoming(rows, p, pieces)
                    = (CHOOSE h : InTable(rows, pieces, S, h))[S].rows
<1>1. LET S == OpenBatches(rows, p)
      IN  Outgoing(rows, p, pieces)
            = (CHOOSE h : OutTable(rows, pieces, S, h))[S].rows
  BY Zenon DEF Outgoing, MapThenFoldSet, OutTable
<1>2. LET S == UsedBatches(rows, p)
      IN  Incoming(rows, p, pieces)
            = (CHOOSE h : InTable(rows, pieces, S, h))[S].rows
  BY Zenon DEF Incoming, MapThenFoldSet, InTable
<1>3. QED BY <1>1, <1>2

\* Both are loop tables.
LEMMA TablesAreLoops ==
    ASSUME NEW rows, NEW pieces, NEW S, NEW h
    PROVE  /\ OutTable(rows, pieces, S, h) <=> LoopTable("out", rows, pieces, S, h)
           /\ InTable(rows, pieces, S, h) <=> LoopTable("in", rows, pieces, S, h)
<1>1. \A s \in SUBSET S :
        /\ Turn("out", LastOf(rows, s), h[s \ {LastOf(rows, s)}])
             = TakeFrom(LastOf(rows, s), h[s \ {LastOf(rows, s)}])
        /\ Turn("in", LastOf(rows, s), h[s \ {LastOf(rows, s)}])
             = PutInto(LastOf(rows, s), h[s \ {LastOf(rows, s)}])
  BY DEF Turn
<1>2. [s \in SUBSET S |->
            IF s = {} THEN [left |-> pieces, rows |-> rows]
            ELSE TakeFrom(LastOf(rows, s), h[s \ {LastOf(rows, s)}])]
      = [s \in SUBSET S |->
            IF s = {} THEN [left |-> pieces, rows |-> rows]
            ELSE Turn("out", LastOf(rows, s), h[s \ {LastOf(rows, s)}])]
  BY <1>1
<1>3. [s \in SUBSET S |->
            IF s = {} THEN [left |-> pieces, rows |-> rows]
            ELSE PutInto(LastOf(rows, s), h[s \ {LastOf(rows, s)}])]
      = [s \in SUBSET S |->
            IF s = {} THEN [left |-> pieces, rows |-> rows]
            ELSE Turn("in", LastOf(rows, s), h[s \ {LastOf(rows, s)}])]
  BY <1>1
<1>4. QED BY Zenon, <1>2, <1>3 DEF OutTable, InTable, LoopTable

\* What the batches of a table can give or take back.
Avails(dir, rows) == [b \in DOMAIN rows |-> Avail(dir, rows[b])]

\* What batch b of S gives or takes back: what the batches before it leave.
Share(dir, rows, pieces, S, b) ==
    Clamp(pieces - SumFunctionOnSet(Avails(dir, rows), Earlier(rows, S, b)),
          Avail(dir, rows[b]))

\* What no batch of S could give or take back.
Unmet(dir, rows, pieces, S) ==
    LET n == pieces - SumFunctionOnSet(Avails(dir, rows), S)
    IN  IF n < 0 THEN 0 ELSE n

\* The table after the batches of S have had their turns.
After(dir, rows, pieces, S) ==
    [b \in DOMAIN rows |->
        IF b \notin S THEN rows[b]
        ELSE [rows[b] EXCEPT !.remaining =
                IF dir = "out" THEN @ - Share(dir, rows, pieces, S, b)
                ELSE @ + Share(dir, rows, pieces, S, b)]]

\* What can be given is a natural number, and so are its sums.
LEMMA AvailNatural ==
    ASSUME NEW D, NEW T, NEW rows, IsTable(rows, D, T),
           NEW dir \in {"out", "in"}, NEW S \in SUBSET D, IsFiniteSet(S)
    PROVE  /\ DOMAIN rows = D
           /\ \A b \in D : /\ rows[b].remaining \in Nat /\ rows[b].qty \in Nat
                           /\ Avail(dir, rows[b]) \in Nat
                           /\ Avails(dir, rows)[b] = Avail(dir, rows[b])
           /\ SumFunctionOnSet(Avails(dir, rows), S) \in Nat
<1>1. DOMAIN rows = D
  BY DEF IsTable
<1>2. ASSUME NEW b \in D
      PROVE  /\ rows[b].remaining \in Nat /\ rows[b].qty \in Nat
             /\ Avail(dir, rows[b]) \in Nat
             /\ Avails(dir, rows)[b] = Avail(dir, rows[b])
  <2>1. /\ rows[b].qty \in Nat /\ rows[b].remaining \in Int
        /\ rows[b].remaining \in 0..rows[b].qty
    BY DEF IsTable
  <2>2. QED BY <1>1, <2>1 DEF Avail, Avails
<1>3. SumFunctionOnSet(Avails(dir, rows), S) \in Nat
  BY <1>2, SumNatural
<1>4. QED BY <1>1, <1>2, <1>3

\* All batches of S but the last.
Others(rows, S) == S \ {LastOf(rows, S)}

\* All others come before the last batch, and it comes before none of them.
LEMMA EarlierOfLast ==
    ASSUME NEW D, NEW T, NEW rows, IsTable(rows, D, T),
           NEW S \in SUBSET D, IsFiniteSet(S), S # {}
    PROVE  /\ LastOf(rows, S) \in S
           /\ Earlier(rows, S, LastOf(rows, S)) = Others(rows, S)
           /\ \A b \in Others(rows, S) :
                 Earlier(rows, S, b) = Earlier(rows, Others(rows, S), b)
<1> DEFINE last == LastOf(rows, S)
           u == S \ {last}
<1>1. last \in S /\ \A a \in u : Precedes(rows, a, last)
  BY LastIsLast
<1>2. /\ ~Precedes(rows, last, last)
      /\ \A a \in u : ~Precedes(rows, last, a)
  BY <1>1, PrecedesOrders
<1>5. u = Others(rows, S)
  BY DEF Others
<1> HIDE DEF last
<1>3. Earlier(rows, S, last) = u
  BY <1>1, <1>2 DEF Earlier
<1>4. \A b \in u : Earlier(rows, S, b) = Earlier(rows, u, b)
  BY <1>1, <1>2 DEF Earlier
<1> HIDE DEF u
<1>6. QED BY <1>1, <1>3, <1>4, <1>5 DEF last

\* So the shares of the others are the same without it, and its own is of what
\* they leave.
LEMMA ShareOfLast ==
    ASSUME NEW D, NEW T, NEW rows, IsTable(rows, D, T),
           NEW S \in SUBSET D, IsFiniteSet(S), S # {},
           NEW dir \in {"out", "in"}, NEW pieces
    PROVE  /\ Share(dir, rows, pieces, S, LastOf(rows, S))
                = Clamp(pieces - SumFunctionOnSet(Avails(dir, rows),
                                                  Others(rows, S)),
                        Avail(dir, rows[LastOf(rows, S)]))
           /\ \A b \in Others(rows, S) :
                 Share(dir, rows, pieces, S, b)
                   = Share(dir, rows, pieces, Others(rows, S), b)
<1>1. /\ Earlier(rows, S, LastOf(rows, S)) = Others(rows, S)
      /\ \A b \in Others(rows, S) :
            Earlier(rows, S, b) = Earlier(rows, Others(rows, S), b)
  BY EarlierOfLast
<1>2. QED BY Zenon, <1>1 DEF Share

\* Taking what is there of what is left, in numbers.
LEMMA ClampTakes ==
    ASSUME NEW k \in Int, NEW a \in Nat
    PROVE  LET left == IF k < 0 THEN 0 ELSE k
           IN  /\ Least(left, a) = Clamp(k, a)
               /\ left - Clamp(k, a) = IF k - a < 0 THEN 0 ELSE k - a
               /\ Clamp(k, a) \in 0..a
BY DEF Least, Clamp

\* What is left for the last batch is what it takes and what is left after it.
LEMMA LastTakes ==
    ASSUME NEW D, NEW T, NEW rows, IsTable(rows, D, T),
           NEW S \in SUBSET D, IsFiniteSet(S), S # {},
           NEW dir \in {"out", "in"}, NEW pieces \in Nat
    PROVE  LET unmet == Unmet(dir, rows, pieces, Others(rows, S))
               n == Share(dir, rows, pieces, S, LastOf(rows, S))
           IN  /\ Least(unmet, Avail(dir, rows[LastOf(rows, S)])) = n
               /\ unmet - n = Unmet(dir, rows, pieces, S)
               /\ unmet \in Nat /\ n \in Nat
<1> DEFINE last == LastOf(rows, S)
           u == Others(rows, S)
           f == Avails(dir, rows)
           k == pieces - SumFunctionOnSet(f, u)
           a == Avail(dir, rows[last])
           n == Share(dir, rows, pieces, S, last)
<1>1. /\ last \in S /\ u = S \ {last} /\ u \in SUBSET D
      /\ last \notin u /\ last \in D
  BY EarlierOfLast DEF Others
<1>2. IsFiniteSet(u)
  BY <1>1, FS_Subset
<1>3. /\ DOMAIN rows = D /\ a \in Nat /\ k \in Int
      /\ SumFunctionOnSet(f, u) \in Nat
      /\ \A b \in S : f[b] \in Int
      /\ f[last] = a
  BY <1>1, <1>2, AvailNatural
<1>4. SumFunctionOnSet(f, S) = a + SumFunctionOnSet(f, u)
  <2> HIDE DEF f, last, a, u
  <2>1. SumFunctionOnSet(f, S) = f[last] + SumFunctionOnSet(f, S \ {last})
    BY <1>1, <1>3, SumWithout
  <2>2. QED BY <1>1, <1>3, <2>1
<1>5. n = Clamp(k, a)
  BY ShareOfLast
<1>7. /\ Unmet(dir, rows, pieces, u) = IF k < 0 THEN 0 ELSE k
      /\ Unmet(dir, rows, pieces, S) = IF k - a < 0 THEN 0 ELSE k - a
  <2>1. pieces - SumFunctionOnSet(f, S) = k - a
    <3> HIDE DEF f, a
    <3>1. QED BY <1>3, <1>4
  <2>2. QED BY <2>1 DEF Unmet
<1> HIDE DEF k
<1>8. /\ Least(Unmet(dir, rows, pieces, u), a) = n
      /\ Unmet(dir, rows, pieces, u) - n = Unmet(dir, rows, pieces, S)
  BY <1>3, <1>5, <1>7, ClampTakes
<1>9. Unmet(dir, rows, pieces, u) \in Nat /\ n \in Nat
  <2>1. n \in 0..a
    BY <1>3, <1>5, ClampTakes
  <2>2. QED BY <1>3, <1>7, <2>1
<1>10. QED BY Zenon, <1>8, <1>9

\* What the last batch takes leaves the others' shares as they were.
LEMMA OthersShare ==
    ASSUME NEW D, NEW T, NEW rows, IsTable(rows, D, T),
           NEW S \in SUBSET D, IsFiniteSet(S), S # {},
           NEW dir \in {"out", "in"}, NEW pieces
    PROVE  \A b \in Others(rows, S) :
              Share(dir, rows, pieces, S, b)
                = Share(dir, rows, pieces, Others(rows, S), b)
<1>1. /\ Share(dir, rows, pieces, S, LastOf(rows, S))
           = Clamp(pieces - SumFunctionOnSet(Avails(dir, rows),
                                             Others(rows, S)),
                   Avail(dir, rows[LastOf(rows, S)]))
      /\ \A b \in Others(rows, S) :
            Share(dir, rows, pieces, S, b)
              = Share(dir, rows, pieces, Others(rows, S), b)
  BY ShareOfLast
<1>2. QED BY Zenon, <1>1

\* The turn of the last batch makes of the result for the others the result
\* for all.
LEMMA TurnMakes ==
    ASSUME NEW D, NEW T, NEW rows, IsTable(rows, D, T),
           NEW S \in SUBSET D, IsFiniteSet(S), S # {},
           NEW dir \in {"out", "in"}, NEW pieces \in Nat
    PROVE  Turn(dir, LastOf(rows, S),
                [left |-> Unmet(dir, rows, pieces, Others(rows, S)),
                 rows |-> After(dir, rows, pieces, Others(rows, S))])
             = [left |-> Unmet(dir, rows, pieces, S),
                rows |-> After(dir, rows, pieces, S)]
<1> DEFINE last == LastOf(rows, S)
           u == Others(rows, S)
           a == Avail(dir, rows[last])
           n == Share(dir, rows, pieces, S, last)
           acc == [left |-> Unmet(dir, rows, pieces, u),
                   rows |-> After(dir, rows, pieces, u)]
<1>1. /\ last \in S /\ u = S \ {last} /\ u \in SUBSET D
      /\ last \notin u /\ last \in D
  BY EarlierOfLast DEF Others
<1>3. DOMAIN rows = D
  BY DEF IsTable
<1>6. \A b \in u : Share(dir, rows, pieces, S, b) = Share(dir, rows, pieces, u, b)
  BY OthersShare
<1>8. /\ Least(Unmet(dir, rows, pieces, u), a) = n
      /\ Unmet(dir, rows, pieces, u) - n = Unmet(dir, rows, pieces, S)
  BY LastTakes
<1>9. acc.rows[last] = rows[last]
  BY <1>1, <1>3 DEF After
<1>10. After(dir, rows, pieces, S)
         = [acc.rows EXCEPT ![last].remaining = IF dir = "out" THEN @ - n ELSE @ + n]
  <2> DEFINE g == After(dir, rows, pieces, u)
             e == [g EXCEPT ![last].remaining = IF dir = "out" THEN @ - n ELSE @ + n]
             h == After(dir, rows, pieces, S)
  <2>1. DOMAIN h = D /\ DOMAIN g = D /\ DOMAIN e = D
    BY <1>3 DEF After
  <2>2. ASSUME NEW b \in D PROVE h[b] = e[b]
    <3>1. CASE b = last
      <4>1. h[b] = [rows[b] EXCEPT !.remaining = IF dir = "out" THEN @ - n ELSE @ + n]
        BY <1>1, <1>3, <3>1 DEF After
      <4>2. e[b] = [g[b] EXCEPT !.remaining = IF dir = "out" THEN @ - n ELSE @ + n]
        BY <2>1, <3>1
      <4>3. QED BY <1>9, <3>1, <4>1, <4>2
    <3>2. CASE b # last
      <4>1. e[b] = g[b]
        BY <2>1, <3>2
      <4>2. b \in S <=> b \in u
        BY <1>1, <3>2
      <4>3. b \in S =>
              Share(dir, rows, pieces, S, b) = Share(dir, rows, pieces, u, b)
        BY <1>6, <4>2
      <4>4. h[b] = g[b]
        <5> HIDE DEF u
        <5>1. QED BY <1>3, <4>2, <4>3 DEF After
      <4>5. QED BY <4>1, <4>4
    <3>3. QED BY <3>1, <3>2
  <2>3. /\ h = [b \in DOMAIN h |-> h[b]]
        /\ e = [b \in DOMAIN e |-> e[b]]
    BY DEF After
  <2> HIDE DEF g, h, e
  <2>4. h = e
    BY <2>1, <2>2, <2>3
  <2>5. QED BY Zenon, <2>4 DEF g, h, e
<1>11. Turn(dir, last, acc)
         = [left |-> acc.left - n,
            rows |-> [acc.rows EXCEPT ![last].remaining =
                        IF dir = "out" THEN @ - n ELSE @ + n]]
  <2>1. Least(acc.left, Avail(dir, acc.rows[last])) = n
    BY <1>8, <1>9
  <2> HIDE DEF acc, n, last
  <2>2. CASE dir = "out"
    BY <2>1, <2>2 DEF Turn, TakeFrom, Avail
  <2>3. CASE dir # "out"
    BY <2>1, <2>3 DEF Turn, PutInto, Avail
  <2>4. QED BY <2>2, <2>3
<1>12. acc.left - n = Unmet(dir, rows, pieces, S)
  BY <1>8
<1>13. QED BY <1>10, <1>11, <1>12

\* What the loop makes of the batches of S.
Made(dir, rows, pieces, S) ==
    [left |-> Unmet(dir, rows, pieces, S), rows |-> After(dir, rows, pieces, S)]

\* No batch, no change.
LEMMA NoTurns ==
    ASSUME NEW D, NEW T, NEW rows, IsTable(rows, D, T),
           NEW dir \in {"out", "in"}, NEW pieces \in Nat
    PROVE  Made(dir, rows, pieces, {}) = [left |-> pieces, rows |-> rows]
<1>1. SumFunctionOnSet(Avails(dir, rows), {}) = 0
  BY FS_EmptySet, SumTurns
<1>2. Unmet(dir, rows, pieces, {}) = pieces
  BY <1>1 DEF Unmet
<1>3. rows = [b \in DOMAIN rows |-> rows[b]]
  BY DEF IsTable
<1>4. After(dir, rows, pieces, {}) = [b \in DOMAIN rows |-> rows[b]]
  BY DEF After
<1>5. QED BY <1>2, <1>3, <1>4 DEF Made

\* The table of these results is a loop table.
LEMMA MadeIsTable ==
    ASSUME NEW D, NEW T, NEW rows, IsTable(rows, D, T),
           NEW S \in SUBSET D, NEW dir \in {"out", "in"}, NEW pieces \in Nat
    PROVE  LoopTable(dir, rows, pieces, S,
                     [s \in SUBSET S |-> Made(dir, rows, pieces, s)])
<1> DEFINE h == [s \in SUBSET S |-> Made(dir, rows, pieces, s)]
           base == [left |-> pieces, rows |-> rows]
           turn(s) == Turn(dir, LastOf(rows, s), h[s \ {LastOf(rows, s)}])
<1>1. ASSUME NEW s \in SUBSET S
      PROVE  Made(dir, rows, pieces, s) = IF s = {} THEN base ELSE turn(s)
  <2>1. CASE s = {}
    BY <2>1, NoTurns
  <2>2. CASE s # {}
    <3>1. s \in SUBSET D /\ IsFiniteSet(s)
      BY FS_Subset DEF IsTable
    <3>2. h[s \ {LastOf(rows, s)}] = Made(dir, rows, pieces, Others(rows, s))
      BY DEF Others
    <3>3. Turn(dir, LastOf(rows, s), Made(dir, rows, pieces, Others(rows, s)))
            = Made(dir, rows, pieces, s)
      BY <2>2, <3>1, TurnMakes DEF Made
    <3> HIDE DEF h
    <3>4. QED BY <2>2, <3>2, <3>3
  <2>3. QED BY <2>1, <2>2
<1>2. h = [s \in SUBSET S |-> IF s = {} THEN base ELSE turn(s)]
  <2> HIDE DEF turn, base
  <2>1. QED BY <1>1
<1>3. QED BY Zenon, <1>2 DEF LoopTable

\* There is no other.
LEMMA TableIsMade ==
    ASSUME NEW D, NEW T, NEW rows, IsTable(rows, D, T),
           NEW S \in SUBSET D, NEW dir \in {"out", "in"}, NEW pieces \in Nat,
           NEW h, LoopTable(dir, rows, pieces, S, h)
    PROVE  h[S] = Made(dir, rows, pieces, S)
<1> DEFINE made(s) == Made(dir, rows, pieces, s)
           B == {s \in SUBSET S : h[s] # made(s)}
<1> SUFFICES ASSUME B # {} PROVE FALSE
  <2>1. S \notin B
    OBVIOUS
  <2>2. QED BY <2>1
<1>1. PICK s \in B : \A u \in B : u \subseteq s => u = s
  <2>1. B \in SUBSET SUBSET S
    OBVIOUS
  <2>2. IsFiniteSet(S)
    BY FS_Subset DEF IsTable
  <2> HIDE DEF B
  <2>3. QED BY <2>1, <2>2, LeastSubset
<1>2. s \in SUBSET S /\ s \in SUBSET D /\ IsFiniteSet(s)
  <2>1. s \in SUBSET S
    BY <1>1
  <2>2. QED BY <2>1, FS_Subset DEF IsTable
<1> DEFINE last == LastOf(rows, s)
           u == s \ {last}
<1>3. h[s] = IF s = {} THEN [left |-> pieces, rows |-> rows]
             ELSE Turn(dir, last, h[u])
  <2>1. h = [t \in SUBSET S |->
              IF t = {} THEN [left |-> pieces, rows |-> rows]
              ELSE Turn(dir, LastOf(rows, t), h[t \ {LastOf(rows, t)}])]
    BY Zenon DEF LoopTable
  <2> DEFINE e(t) == IF t = {} THEN [left |-> pieces, rows |-> rows]
                     ELSE Turn(dir, LastOf(rows, t), h[t \ {LastOf(rows, t)}])
  <2>2. h[s] = [t \in SUBSET S |-> e(t)][s]
    BY Zenon, <2>1
  <2> HIDE DEF e
  <2>3. h[s] = e(s)
    BY <1>2, <2>2
  <2>4. QED BY Zenon, <2>3 DEF e
<1>4. CASE s = {}
  <2>1. made(s) = [left |-> pieces, rows |-> rows]
    BY <1>4, NoTurns
  <2>2. h[s] = [left |-> pieces, rows |-> rows]
    BY <1>3, <1>4
  <2>3. QED BY <1>1, <2>1, <2>2
<1>5. CASE s # {}
  <2>1. last \in s
    BY <1>2, <1>5, EarlierOfLast
  <2>2. u \in SUBSET S /\ u \subseteq s /\ u # s
    BY <1>2, <2>1
  <2>3. h[u] = made(u)
    BY <1>1, <2>2
  <2>4. u = Others(rows, s)
    BY DEF Others
  <2>5. Turn(dir, last, Made(dir, rows, pieces, Others(rows, s))) = made(s)
    BY <1>2, <1>5, TurnMakes DEF Made
  <2> HIDE DEF made, u, last
  <2>6. h[s] = Turn(dir, last, h[u])
    BY <1>3, <1>5
  <2>7. Turn(dir, last, h[u]) = made(s)
    BY <2>3, <2>4, <2>5 DEF made
  <2>8. QED BY <1>1, <2>6, <2>7 DEF made
<1>6. QED BY <1>4, <1>5

\* So both loops compute their closed form.
LEMMA LoopsMake ==
    ASSUME NEW D, NEW T, NEW rows, IsTable(rows, D, T), NEW p,
           NEW pieces \in Nat
    PROVE  /\ Outgoing(rows, p, pieces)
                = After("out", rows, pieces, OpenBatches(rows, p))
           /\ Incoming(rows, p, pieces)
                = After("in", rows, pieces, UsedBatches(rows, p))
<1> DEFINE O == OpenBatches(rows, p)
           U == UsedBatches(rows, p)
           o == CHOOSE h : OutTable(rows, pieces, O, h)
           i == CHOOSE h : InTable(rows, pieces, U, h)
<1>1. O \in SUBSET D /\ U \in SUBSET D
  BY DEF IsTable, OpenBatches, UsedBatches
<1>2. Outgoing(rows, p, pieces) = o[O].rows
      /\ Incoming(rows, p, pieces) = i[U].rows
  BY Zenon, LoopsOfTable
<1> HIDE DEF O, U
<1>3. OutTable(rows, pieces, O, o)
  <2>1. LoopTable("out", rows, pieces, O,
                  [s \in SUBSET O |-> Made("out", rows, pieces, s)])
    BY <1>1, MadeIsTable
  <2>2. \E h : OutTable(rows, pieces, O, h)
    BY Zenon, <2>1, TablesAreLoops
  <2>3. QED BY Zenon, <2>2
<1>4. InTable(rows, pieces, U, i)
  <2>1. LoopTable("in", rows, pieces, U,
                  [s \in SUBSET U |-> Made("in", rows, pieces, s)])
    BY <1>1, MadeIsTable
  <2>2. \E h : InTable(rows, pieces, U, h)
    BY Zenon, <2>1, TablesAreLoops
  <2>3. QED BY Zenon, <2>2
<1> HIDE DEF o, i
<1>5. LoopTable("out", rows, pieces, O, o) /\ LoopTable("in", rows, pieces, U, i)
  BY Zenon, <1>3, <1>4, TablesAreLoops
<1>6. o[O] = Made("out", rows, pieces, O)
  BY <1>1, <1>5, TableIsMade
<1>7. i[U] = Made("in", rows, pieces, U)
  BY <1>1, <1>5, TableIsMade
<1>8. o[O].rows = After("out", rows, pieces, O)
      /\ i[U].rows = After("in", rows, pieces, U)
  BY <1>6, <1>7 DEF Made
<1>9. QED BY Zenon, <1>2, <1>8 DEF O, U

\* A share lies between nothing and what the batch can give.
LEMMA ShareWithin ==
    ASSUME NEW D, NEW T, NEW rows, IsTable(rows, D, T), NEW b \in D,
           NEW S \in SUBSET D, NEW dir \in {"out", "in"}, NEW pieces \in Nat
    PROVE  Share(dir, rows, pieces, S, b) \in 0..Avail(dir, rows[b])
<1> DEFINE E == Earlier(rows, S, b)
           k == pieces - SumFunctionOnSet(Avails(dir, rows), E)
<1>1. E \in SUBSET D /\ IsFiniteSet(E)
  <2>1. E \in SUBSET D
    BY DEF Earlier
  <2>2. QED BY <2>1, FS_Subset DEF IsTable
<1> HIDE DEF E
<1>2. SumFunctionOnSet(Avails(dir, rows), E) \in Nat
  BY <1>1, AvailNatural
<1>3. Avail(dir, rows[b]) \in Nat
  BY <1>1, AvailNatural
<1>4. k \in Int
  BY <1>2
<1> HIDE DEF k
<1>5. Clamp(k, Avail(dir, rows[b])) \in 0..Avail(dir, rows[b])
  BY <1>3, <1>4, ClampTakes
<1>6. QED BY <1>5 DEF Share, k, E

\* The sums of the closed form are sums of what batches can give.
LEMMA TotalIsSum ==
    ASSUME NEW D, NEW T, NEW rows, IsTable(rows, D, T),
           NEW S \in SUBSET D
    PROVE  /\ TotalOf([a \in S |-> rows[a].remaining])
                = SumFunctionOnSet(Avails("out", rows), S)
           /\ TotalOf([a \in S |-> Room(rows, a)])
                = SumFunctionOnSet(Avails("in", rows), S)
<1> DEFINE f == [a \in S |-> rows[a].remaining]
           e == [a \in S |-> Room(rows, a)]
<1>1. IsFiniteSet(S)
  BY FS_Subset DEF IsTable
<1>2. DOMAIN f = S /\ DOMAIN e = S
  OBVIOUS
<1>3. \A a \in S : /\ f[a] = Avails("out", rows)[a]
                   /\ e[a] = Avails("in", rows)[a]
  BY DEF Avails, Avail, Room, IsTable
<1> HIDE DEF f, e
<1>4. /\ SumFunctionOnSet(f, S) = SumFunctionOnSet(Avails("out", rows), S)
      /\ SumFunctionOnSet(e, S) = SumFunctionOnSet(Avails("in", rows), S)
  BY <1>1, <1>3, SumSame
<1>5. TotalOf(f) = SumFunctionOnSet(f, S) /\ TotalOf(e) = SumFunctionOnSet(e, S)
  BY <1>2 DEF TotalOf, SumFunction
<1>6. QED BY <1>4, <1>5 DEF f, e

\* What the closed form says a batch gives or takes back is its share.
LEMMA ReferenceIsShare ==
    ASSUME NEW D, NEW T, NEW rows, IsTable(rows, D, T), NEW p,
           NEW pieces, NEW b \in D
    PROVE  /\ Given(rows, p, pieces, b)
                = IF b \in OpenBatches(rows, p)
                    THEN Share("out", rows, pieces, OpenBatches(rows, p), b)
                    ELSE 0
           /\ TakenBack(rows, p, pieces, b)
                = IF b \in UsedBatches(rows, p)
                    THEN Share("in", rows, pieces, UsedBatches(rows, p), b)
                    ELSE 0
<1> DEFINE O == Earlier(rows, OpenBatches(rows, p), b)
           U == Earlier(rows, UsedBatches(rows, p), b)
<1>1. O \in SUBSET D /\ U \in SUBSET D
  BY DEF IsTable, OpenBatches, UsedBatches, Earlier
<1>2. /\ TotalOf([a \in O |-> rows[a].remaining])
           = SumFunctionOnSet(Avails("out", rows), O)
      /\ TotalOf([a \in U |-> Room(rows, a)])
           = SumFunctionOnSet(Avails("in", rows), U)
  <2>1. ASSUME NEW S \in SUBSET D
        PROVE  /\ TotalOf([a \in S |-> rows[a].remaining])
                    = SumFunctionOnSet(Avails("out", rows), S)
               /\ TotalOf([a \in S |-> Room(rows, a)])
                    = SumFunctionOnSet(Avails("in", rows), S)
    BY TotalIsSum
  <2> HIDE DEF O, U
  <2>2. QED BY Zenon, <1>1, <2>1
<1>3. /\ Avail("out", rows[b]) = rows[b].remaining
      /\ Avail("in", rows[b]) = Room(rows, b)
  BY DEF Avail, Room
<1>4. QED BY Zenon, <1>2, <1>3 DEF Given, TakenBack, Share

\* A batch takes part in a movement with what it can, and in no other way.
LEMMA ChangeWithin ==
    ASSUME NEW D, NEW T, NEW rows, IsTable(rows, D, T), NEW p,
           NEW delta \in Int, NEW b \in D
    PROVE  /\ Change(rows, p, delta, b) \in Int
           /\ delta < 0 => Change(rows, p, delta, b) \in -rows[b].remaining..0
           /\ delta >= 0 =>
                Change(rows, p, delta, b) \in 0..(rows[b].qty - rows[b].remaining)
           /\ delta = 0 => Change(rows, p, delta, b) = 0
<1> DEFINE n == -delta
           O == OpenBatches(rows, p)
           U == UsedBatches(rows, p)
<1>1. /\ rows[b].remaining \in Nat /\ rows[b].qty \in Nat
      /\ rows[b].remaining <= rows[b].qty
  BY DEF IsTable
<1>2. O \in SUBSET D /\ U \in SUBSET D
  BY DEF IsTable, OpenBatches, UsedBatches
<1> HIDE DEF O, U
<1>3. CASE delta < 0
  <2>1. n \in Nat
    BY <1>3
  <2> HIDE DEF n
  <2>2. Share("out", rows, n, O, b) \in 0..Avail("out", rows[b])
    BY <1>2, <2>1, ShareWithin
  <2>3. Share("out", rows, n, O, b) \in 0..rows[b].remaining
    BY <2>2 DEF Avail
  <2>4. Given(rows, p, n, b) \in 0..rows[b].remaining
    BY <1>1, <2>3, ReferenceIsShare DEF O
  <2>5. Change(rows, p, delta, b) = -Given(rows, p, n, b)
    BY <1>3 DEF Change, n
  <2>6. QED BY <1>1, <1>3, <2>4, <2>5
<1>4. CASE delta >= 0
  <2>1. delta \in Nat
    BY <1>4
  <2>2. Share("in", rows, delta, U, b) \in 0..Avail("in", rows[b])
    BY <1>2, <2>1, ShareWithin
  <2>3. Share("in", rows, delta, U, b) \in 0..(rows[b].qty - rows[b].remaining)
    BY <2>2 DEF Avail
  <2>4. TakenBack(rows, p, delta, b) \in 0..(rows[b].qty - rows[b].remaining)
    BY <1>1, <2>3, ReferenceIsShare DEF U
  <2>5. Change(rows, p, delta, b) = TakenBack(rows, p, delta, b)
    BY <1>4 DEF Change
  <2>6. CASE delta = 0
    <3> DEFINE E == Earlier(rows, U, b)
    <3>1. E \in SUBSET D /\ IsFiniteSet(E)
      <4>1. E \in SUBSET D
        BY <1>2 DEF Earlier
      <4>2. QED BY <4>1, FS_Subset DEF IsTable
    <3>2. SumFunctionOnSet(Avails("in", rows), E) \in Nat
      <4> HIDE DEF E
      <4>1. QED BY <3>1, AvailNatural
    <3>3. Share("in", rows, 0, U, b) = 0
      <4> DEFINE s == SumFunctionOnSet(Avails("in", rows), E)
                 a == Avail("in", rows[b])
      <4>1. s \in Nat
        BY <3>2
      <4>2. a \in Nat
        BY <1>1 DEF Avail
      <4>3. Share("in", rows, 0, U, b) = Clamp(0 - s, a)
        BY DEF Share
      <4> HIDE DEF s, a
      <4>4. QED BY <4>1, <4>2, <4>3 DEF Clamp
    <3>4. TakenBack(rows, p, 0, b) = 0
      BY <3>3, ReferenceIsShare DEF U
    <3>5. QED BY <1>1, <2>5, <2>6, <3>4
  <2>7. QED BY <1>1, <1>4, <2>4, <2>5, <2>6
<1>5. QED BY <1>3, <1>4

\* The loops change each batch by what the closed form says.
LEMMA LoopsMatch ==
    ASSUME NEW D, NEW T, NEW rows, IsTable(rows, D, T), NEW p,
           NEW delta \in Int
    PROVE  LET after == ApplyBatchDelta(rows, p, delta)
           IN  /\ after = [b \in D |-> after[b]]
               /\ \A b \in D :
                     after[b] = [rows[b] EXCEPT !.remaining =
                                   @ + Change(rows, p, delta, b)]
<1> DEFINE after == ApplyBatchDelta(rows, p, delta)
           to(b) == [rows[b] EXCEPT !.remaining = @ + Change(rows, p, delta, b)]
<1>1. /\ DOMAIN rows = D
      /\ \A b \in D : /\ rows[b].remaining \in Int
                      /\ rows[b] = [rows[b] EXCEPT !.remaining =
                                      rows[b].remaining]
  BY DEF IsTable
<1>2. CASE delta = 0
  <2>1. after = rows
    BY <1>2 DEF ApplyBatchDelta
  <2>2. \A b \in D : Change(rows, p, delta, b) = 0
    BY <1>2, ChangeWithin
  <2>3. rows = [b \in D |-> rows[b]]
    BY DEF IsTable
  <2>4. \A b \in D : to(b) = rows[b]
    BY <1>1, <2>2
  <2>5. QED BY Zenon, <2>1, <2>3, <2>4
<1>3. CASE delta < 0
  <2> DEFINE n == -delta
             O == OpenBatches(rows, p)
  <2>1. n \in Nat
    BY <1>3
  <2>2. after = Outgoing(rows, p, n)
    BY <1>3 DEF ApplyBatchDelta
  <2>3. after = After("out", rows, n, O)
    <3> HIDE DEF n, after
    <3>1. QED BY <2>1, <2>2, LoopsMake
  <2>4. after = [b \in D |-> after[b]]
    <3> HIDE DEF after
    <3>1. QED BY <1>1, <2>3 DEF After
  <2>5. ASSUME NEW b \in D PROVE after[b] = to(b)
    <3>1. Given(rows, p, n, b) = IF b \in O THEN Share("out", rows, n, O, b) ELSE 0
      BY Zenon, ReferenceIsShare
    <3>2. Change(rows, p, delta, b) = -Given(rows, p, n, b)
      BY <1>3 DEF Change
    <3>3. Change(rows, p, delta, b) \in Int
      BY ChangeWithin
    <3> HIDE DEF n, O, after
    <3>4. after[b] = IF b \notin O THEN rows[b]
                     ELSE [rows[b] EXCEPT !.remaining =
                             @ - Share("out", rows, n, O, b)]
      BY <1>1, <2>3 DEF After
    <3>5. CASE b \notin O
      <4>1. Given(rows, p, n, b) = 0
        BY <3>1, <3>5
      <4>2. Change(rows, p, delta, b) = -0
        BY <3>2, <4>1
      <4>3. QED BY <1>1, <3>4, <3>5, <4>2
    <3>6. CASE b \in O
      <4> DEFINE s == Share("out", rows, n, O, b)
      <4>1. Change(rows, p, delta, b) = -s
        BY <3>1, <3>2, <3>6
      <4>2. s \in Int
        <5>1. O \in SUBSET D
          BY <1>1 DEF O, OpenBatches
        <5>2. s \in 0..Avail("out", rows[b])
          BY <2>1, <5>1, ShareWithin
        <5>3. QED BY <5>2
      <4> HIDE DEF s
      <4>3. rows[b].remaining - s = rows[b].remaining + Change(rows, p, delta, b)
        BY <1>1, <4>1, <4>2
      <4>4. QED BY <3>4, <3>6, <4>3 DEF s
    <3>7. QED BY <3>5, <3>6
  <2>6. QED BY Zenon, <2>4, <2>5
<1>4. CASE delta > 0
  <2> DEFINE U == UsedBatches(rows, p)
  <2>1. delta \in Nat
    BY <1>4
  <2>2. after = Incoming(rows, p, delta)
    BY <1>4 DEF ApplyBatchDelta
  <2>3. after = After("in", rows, delta, U)
    <3> HIDE DEF after
    <3>1. QED BY <2>1, <2>2, LoopsMake
  <2>4. after = [b \in D |-> after[b]]
    <3> HIDE DEF after
    <3>1. QED BY <1>1, <2>3 DEF After
  <2>5. ASSUME NEW b \in D PROVE after[b] = to(b)
    <3>1. TakenBack(rows, p, delta, b)
            = IF b \in U THEN Share("in", rows, delta, U, b) ELSE 0
      BY Zenon, ReferenceIsShare
    <3>2. Change(rows, p, delta, b) = TakenBack(rows, p, delta, b)
      BY <1>4 DEF Change
    <3> HIDE DEF U, after
    <3>3. after[b] = IF b \notin U THEN rows[b]
                     ELSE [rows[b] EXCEPT !.remaining =
                             @ + Share("in", rows, delta, U, b)]
      BY <1>1, <2>3 DEF After
    <3>4. CASE b \notin U
      <4>1. Change(rows, p, delta, b) = 0
        BY <3>1, <3>2, <3>4
      <4>2. QED BY <1>1, <3>3, <3>4, <4>1
    <3>5. CASE b \in U
      BY <3>1, <3>2, <3>3, <3>5
    <3>6. QED BY <3>4, <3>5
  <2>6. QED BY Zenon, <2>4, <2>5
<1>5. QED BY <1>2, <1>3, <1>4

\* A movement leaves a table a table.
LEMMA TableStays ==
    ASSUME NEW D, NEW T, NEW rows, IsTable(rows, D, T), NEW p,
           NEW delta \in Int
    PROVE  IsTable(ApplyBatchDelta(rows, p, delta), D, T)
<1> DEFINE after == ApplyBatchDelta(rows, p, delta)
           Row == [product : T, expiryDate : Nat, qty : Nat, remaining : Int,
                   writtenOff : BOOLEAN]
<1>1. after = [b \in D |-> after[b]]
  BY LoopsMatch
<1>2. \A b \in D : after[b] = [rows[b] EXCEPT !.remaining =
                                 @ + Change(rows, p, delta, b)]
  BY LoopsMatch
<1> HIDE DEF after
<1>3. ASSUME NEW b \in D
      PROVE  after[b] \in Row /\ after[b].remaining \in 0..after[b].qty
  <2>1. /\ rows[b] \in Row /\ rows[b].qty \in Nat
        /\ rows[b].remaining \in 0..rows[b].qty
    BY DEF IsTable
  <2> DEFINE n == Change(rows, p, delta, b)
  <2>2. n \in -rows[b].remaining..(rows[b].qty - rows[b].remaining)
    BY <2>1, ChangeWithin
  <2> HIDE DEF n
  <2>3. after[b] = [rows[b] EXCEPT !.remaining = @ + n]
    BY <1>2 DEF n
  <2>4. rows[b].remaining + n \in 0..rows[b].qty
    BY <2>1, <2>2
  <2>5. QED BY <2>1, <2>3, <2>4
<1>4. after \in [D -> Row]
  BY <1>1, <1>3
<1>5. QED BY <1>3, <1>4 DEF IsTable, after

-----------------------------------------------------------------------------
(* The loops against their reference.                                      *)

\* The shelf holds a table, and what the last movement made of the one before.
ShelfInv ==
    /\ IsTable(shelf, Batches, {"sold"})
    /\ deltas[2] \in Int
    /\ deltas[2] # 0 =>
          /\ IsTable(before[2], Batches, {"sold"})
          /\ shelf = ApplyBatchDelta(before[2], "sold", deltas[2])

\* Every shelf of the model is a table.
LEMMA ShelvesAreTables ==
    ASSUME NEW r \in Shelves PROVE IsTable(r, Batches, {"sold"})
<1>1. r \in [Batches -> ShelfRow]
  BY DEF Shelves
<1>2. \A b \in Batches : r[b].remaining <= r[b].qty
  BY DEF Shelves
<1>3. \A b \in Batches :
         /\ r[b] \in [product : {"sold"}, expiryDate : Nat, qty : Nat,
                      remaining : Int, writtenOff : BOOLEAN]
         /\ r[b].remaining \in 0..r[b].qty
  <2> SUFFICES ASSUME NEW b \in Batches
               PROVE  /\ r[b] \in [product : {"sold"}, expiryDate : Nat,
                                   qty : Nat, remaining : Int,
                                   writtenOff : BOOLEAN]
                      /\ r[b].remaining \in 0..r[b].qty
    OBVIOUS
  <2>1. r[b] \in ShelfRow
    BY <1>1
  <2>2. Dates \subseteq Nat /\ MaxPieces \in Nat
    BY ShelfAssumption DEF ShelfAssumption
  <2>3. /\ r[b].expiryDate \in Nat /\ r[b].qty \in Nat
        /\ r[b].remaining \in Nat
    <3>1. /\ r[b].expiryDate \in Dates /\ r[b].qty \in 1..MaxPieces
          /\ r[b].remaining \in 0..MaxPieces
      BY <2>1 DEF ShelfRow
    <3>2. r[b].expiryDate \in Nat
      BY <2>2, <3>1
    <3>3. \A n \in 0..MaxPieces : n \in Nat
      BY <2>2
    <3>4. \A n \in 1..MaxPieces : n \in Nat
      BY <2>2
    <3>5. QED BY Zenon, <3>1, <3>2, <3>3, <3>4
  <2>4. r[b] \in [product : {"sold"}, expiryDate : Nat, qty : Nat,
                  remaining : Int, writtenOff : BOOLEAN]
    BY <2>1, <2>3 DEF ShelfRow
  <2>5. QED BY <1>2, <2>3, <2>4
<1>4. QED BY <1>1, <1>3, ShelfAssumption DEF IsTable, ShelfAssumption

\* The invariant holds at the start.
LEMMA ShelfStarts == ShelfInit => ShelfInv
BY ShelvesAreTables DEF ShelfInit, ShelfInv

\* And is kept by every movement.
LEMMA ShelfMoves == ShelfInv /\ [ShelfNext]_shelfVars => ShelfInv'
<1> SUFFICES ASSUME ShelfInv, [ShelfNext]_shelfVars PROVE ShelfInv'
  OBVIOUS
<1>1. CASE UNCHANGED shelfVars
  BY <1>1 DEF ShelfInv, shelfVars
<1>2. CASE ShelfNext
  <2>1. PICK delta \in Deltas : Move(delta)
    BY <1>2 DEF ShelfNext
  <2>2. delta \in Int
    BY ShelfAssumption DEF Deltas, ShelfAssumption
  <2>3. /\ shelf' = ApplyBatchDelta(shelf, "sold", delta)
        /\ before'[2] = shelf /\ deltas'[2] = delta
    BY <2>1 DEF Move
  <2>4. IsTable(shelf, Batches, {"sold"})
    BY DEF ShelfInv
  <2>5. IsTable(shelf', Batches, {"sold"})
    BY <2>2, <2>3, <2>4, TableStays
  <2>6. QED BY <2>2, <2>3, <2>4, <2>5 DEF ShelfInv
<1>3. QED BY <1>1, <1>2

\* It says of every batch what the closed form says.
LEMMA ShelfMatches == ShelfInv => MatchesReference
<1> SUFFICES ASSUME ShelfInv, deltas[2] # 0, NEW b \in Batches
             PROVE  shelf[b] = [before[2][b] EXCEPT !.remaining =
                                  @ + Change(before[2], "sold", deltas[2], b)]
  BY DEF MatchesReference
<1> DEFINE was == before[2]
           delta == deltas[2]
<1>1. /\ IsTable(was, Batches, {"sold"}) /\ delta \in Int
      /\ shelf = ApplyBatchDelta(was, "sold", delta)
  BY DEF ShelfInv
<1> HIDE DEF was, delta
<1>2. ApplyBatchDelta(was, "sold", delta)[b]
        = [was[b] EXCEPT !.remaining = @ + Change(was, "sold", delta, b)]
  BY <1>1, LoopsMatch
<1>3. shelf[b] = [was[b] EXCEPT !.remaining =
                    @ + Change(was, "sold", delta, b)]
  BY Zenon, <1>1, <1>2
<1>4. QED BY Zenon, <1>3 DEF was, delta

\* applyBatchDelta computes the closed form, for any batches, dates and pieces
\* and of a shelf that has moved before: goods leave, and come back, in the order in
\* which the batches expire.
THEOREM LoopsComputeReference == ShelfSpec => []MatchesReference
<1>1. ShelfSpec => []ShelfInv
  BY ShelfStarts, ShelfMoves, PTL DEF ShelfSpec
<1>2. QED BY <1>1, ShelfMatches, PTL

-----------------------------------------------------------------------------
(* More about sums.                                                        *)

\* A sum of sums.
LEMMA SumAdds ==
    ASSUME NEW S, IsFiniteSet(S), NEW f, NEW g, NEW h,
           \A x \in S : f[x] \in Int /\ g[x] \in Int /\ h[x] = f[x] + g[x]
    PROVE  SumFunctionOnSet(h, S)
             = SumFunctionOnSet(f, S) + SumFunctionOnSet(g, S)
<1> DEFINE sum(e, s) == SumFunctionOnSet(e, s)
           B == {s \in SUBSET S : sum(h, s) # sum(f, s) + sum(g, s)}
<1> SUFFICES ASSUME B # {} PROVE FALSE
  <2>1. S \notin B
    OBVIOUS
  <2>2. QED BY <2>1
<1>1. PICK s \in B : \A u \in B : u \subseteq s => u = s
  <2>1. B \in SUBSET SUBSET S
    OBVIOUS
  <2> HIDE DEF B
  <2>2. QED BY <2>1, LeastSubset
<1>2. s \in SUBSET S /\ IsFiniteSet(s)
  BY <1>1, FS_Subset
<1> DEFINE x == Pick(s)
           u == s \ {x}
<1>3. \A e : sum(e, s) = IF s = {} THEN 0 ELSE e[x] + sum(e, u)
  BY <1>2, SumTurns
<1>4. s # {}
  BY <1>1, <1>3
<1>5. x \in s /\ u \in SUBSET S /\ u # s /\ u \subseteq s /\ IsFiniteSet(u)
  BY <1>2, <1>4, PickIn, FS_Subset
<1>6. sum(f, u) \in Int /\ sum(g, u) \in Int
  BY <1>5, SumWhole
<1>7. sum(h, u) = sum(f, u) + sum(g, u)
  BY <1>1, <1>5
<1>8. h[x] = f[x] + g[x] /\ f[x] \in Int /\ g[x] \in Int
  BY <1>2, <1>5
<1>9. sum(h, s) # sum(f, s) + sum(g, s)
  BY <1>1
<1> HIDE DEF sum, x, u, B
<1>10. QED BY <1>3, <1>4, <1>6, <1>7, <1>8, <1>9

\* Zeros do not count.
LEMMA SumPart ==
    ASSUME NEW S, IsFiniteSet(S), NEW T \in SUBSET S, NEW f,
           \A x \in S : f[x] \in Int, \A x \in S \ T : f[x] = 0
    PROVE  SumFunctionOnSet(f, S) = SumFunctionOnSet(f, T)
<1> DEFINE sum(s) == SumFunctionOnSet(f, s)
           B == {s \in SUBSET S : sum(s) # sum(s \cap T)}
<1> SUFFICES ASSUME B # {} PROVE FALSE
  <2>1. S \notin B
    OBVIOUS
  <2>2. S \cap T = T
    OBVIOUS
  <2>3. QED BY <2>1, <2>2
<1>1. PICK s \in B : \A u \in B : u \subseteq s => u = s
  <2>1. B \in SUBSET SUBSET S
    OBVIOUS
  <2> HIDE DEF B
  <2>2. QED BY <2>1, LeastSubset
<1>2. s \in SUBSET S /\ IsFiniteSet(s) /\ IsFiniteSet(s \cap T)
  BY <1>1, FS_Subset
<1>3. PICK x \in s : x \notin T
  <2>1. s # s \cap T
    BY <1>1
  <2>2. QED BY <2>1
<1> DEFINE u == s \ {x}
<1>4. /\ u \in SUBSET S /\ u \subseteq s /\ u # s /\ IsFiniteSet(u)
      /\ u \cap T = s \cap T
  BY <1>2, <1>3, FS_Subset
<1>5. sum(s) = f[x] + sum(u)
  BY <1>2, SumWithout
<1>6. f[x] = 0 /\ sum(u) \in Int
  BY <1>2, <1>3, <1>4, SumWhole
<1>7. sum(u) = sum(u \cap T)
  BY <1>1, <1>4
<1>8. sum(s) # sum(s \cap T)
  BY <1>1
<1>9. sum(s) = 0 + sum(u)
  BY <1>5, <1>6
<1>10. sum(s) = sum(u)
  BY <1>6, <1>9
<1> HIDE DEF sum, u, B
<1>11. QED BY Zenon, <1>4, <1>7, <1>8, <1>10

\* Where one value changes, the sum changes by as much.
LEMMA SumShifts ==
    ASSUME NEW S, IsFiniteSet(S), NEW x \in S, NEW f, NEW g,
           \A y \in S : f[y] \in Int /\ g[y] \in Int,
           \A y \in S \ {x} : g[y] = f[y]
    PROVE  SumFunctionOnSet(g, S) = SumFunctionOnSet(f, S) + (g[x] - f[x])
<1> DEFINE u == S \ {x}
<1>1. IsFiniteSet(u) /\ u \subseteq S
  BY FS_Subset
<1>2. /\ SumFunctionOnSet(f, S) = f[x] + SumFunctionOnSet(f, u)
      /\ SumFunctionOnSet(g, S) = g[x] + SumFunctionOnSet(g, u)
  BY SumWithout
<1>3. SumFunctionOnSet(g, u) = SumFunctionOnSet(f, u)
  BY <1>1, SumSame
<1>4. SumFunctionOnSet(f, u) \in Int
  BY <1>1, SumWhole
<1> HIDE DEF u
<1>5. QED BY <1>2, <1>3, <1>4

-----------------------------------------------------------------------------
(* What a movement takes from all batches together.                        *)

\* The shares of the batches of S.
Shares(dir, rows, pieces, S) ==
    [b \in DOMAIN rows |-> Share(dir, rows, pieces, S, b)]

\* Together they are all of the movement but what nobody could meet.
LEMMA SharesTotal ==
    ASSUME NEW D, NEW T, NEW rows, IsTable(rows, D, T),
           NEW S \in SUBSET D, NEW dir \in {"out", "in"}, NEW pieces \in Nat
    PROVE  SumFunctionOnSet(Shares(dir, rows, pieces, S), S)
             = pieces - Unmet(dir, rows, pieces, S)
<1> DEFINE total(s) == SumFunctionOnSet(Shares(dir, rows, pieces, s), s)
           unmet(s) == Unmet(dir, rows, pieces, s)
           B == {s \in SUBSET S : total(s) # pieces - unmet(s)}
<1> SUFFICES ASSUME B # {} PROVE FALSE
  <2>1. S \notin B
    OBVIOUS
  <2>2. QED BY <2>1
<1>1. PICK s \in B : \A u \in B : u \subseteq s => u = s
  <2>1. B \in SUBSET SUBSET S
    OBVIOUS
  <2>2. IsFiniteSet(S)
    BY FS_Subset DEF IsTable
  <2> HIDE DEF B
  <2>3. QED BY <2>1, <2>2, LeastSubset
<1>2. s \in SUBSET S /\ s \in SUBSET D /\ IsFiniteSet(s)
  <2>1. s \in SUBSET S
    BY <1>1
  <2>2. QED BY <2>1, FS_Subset DEF IsTable
<1>3. total(s) # pieces - unmet(s)
  BY <1>1
<1>4. CASE s = {}
  <2>1. Made(dir, rows, pieces, {}).left = pieces
    BY NoTurns
  <2>2. unmet(s) = pieces
    BY <1>4, <2>1 DEF Made
  <2>3. total(s) = 0
    BY <1>2, <1>4, SumTurns
  <2> HIDE DEF total, unmet
  <2>4. QED BY <1>3, <2>2, <2>3
<1>5. CASE s # {}
  <2> DEFINE last == LastOf(rows, s)
             u == Others(rows, s)
             f == Shares(dir, rows, pieces, s)
             g == Shares(dir, rows, pieces, u)
             n == Share(dir, rows, pieces, s, last)
  <2>1. last \in s /\ u = s \ {last}
    BY <1>2, <1>5, EarlierOfLast DEF Others
  <2>2. u \in SUBSET S /\ u \subseteq s /\ u # s /\ IsFiniteSet(u)
    BY <1>2, <2>1, FS_Subset
  <2>3. total(u) = pieces - unmet(u)
    BY <1>1, <2>2
  <2>4. n \in Nat /\ unmet(u) \in Nat /\ unmet(u) - n = unmet(s)
    BY <1>2, <1>5, LastTakes
  <2>5. \A b \in D : f[b] = Share(dir, rows, pieces, s, b)
                     /\ g[b] = Share(dir, rows, pieces, u, b)
    BY DEF Shares, IsTable
  <2>6. \A b \in D : Share(dir, rows, pieces, s, b) \in Int
    <3>1. \A b \in D : /\ Share(dir, rows, pieces, s, b)
                            \in 0..Avail(dir, rows[b])
      BY <1>2, ShareWithin
    <3>2. QED BY <3>1
  <2>7. SumFunctionOnSet(f, s) = f[last] + SumFunctionOnSet(f, u)
    <3>1. \A b \in s : f[b] \in Int
      BY <1>2, <2>5, <2>6
    <3> HIDE DEF f, last, u
    <3>2. SumFunctionOnSet(f, s) = f[last] + SumFunctionOnSet(f, s \ {last})
      BY <1>2, <2>1, <3>1, SumWithout
    <3>3. QED BY <2>1, <3>2
  <2>8. SumFunctionOnSet(f, u) = SumFunctionOnSet(g, u)
    <3>1. \A b \in u : Share(dir, rows, pieces, s, b)
                         = Share(dir, rows, pieces, u, b)
      BY <1>2, <1>5, ShareOfLast
    <3>2. \A b \in u : f[b] = g[b]
      BY <1>2, <2>2, <2>5, <3>1
    <3> HIDE DEF f, g, u
    <3>3. QED BY <2>2, <3>2, SumSame
  <2>9. f[last] = n
    BY <1>2, <2>1, <2>5
  <2>10. total(s) = n + (pieces - unmet(u))
    BY Zenon, <2>3, <2>7, <2>8, <2>9
  <2> HIDE DEF total, unmet, n
  <2>11. QED BY <1>3, <2>4, <2>10
<1>6. QED BY <1>4, <1>5

\* What the batches of a table track of product p.
TrackedIn(rows, p) ==
    SumFunctionOnSet(Avails("out", rows), UsedBatches(rows, p))

\* What nobody could meet, in numbers.
LEMMA UnmetIs ==
    ASSUME NEW D, NEW T, NEW rows, IsTable(rows, D, T),
           NEW S \in SUBSET D, NEW dir \in {"out", "in"}, NEW pieces \in Nat
    PROVE  LET all == SumFunctionOnSet(Avails(dir, rows), S)
           IN  /\ all \in Nat
               /\ Unmet(dir, rows, pieces, S) \in Nat
               /\ Unmet(dir, rows, pieces, S)
                    = IF pieces < all THEN 0 ELSE pieces - all
<1> DEFINE all == SumFunctionOnSet(Avails(dir, rows), S)
<1>1. IsFiniteSet(S)
  BY FS_Subset DEF IsTable
<1>2. all \in Nat
  BY <1>1, AvailNatural
<1>3. Unmet(dir, rows, pieces, S) = IF pieces - all < 0 THEN 0 ELSE pieces - all
  BY DEF Unmet
<1> HIDE DEF all
<1>4. QED BY <1>2, <1>3 DEF all

\* What leaves all open batches, and what comes back to all used ones.
LEMMA SharesOfAll ==
    ASSUME NEW D, NEW T, NEW rows, IsTable(rows, D, T), NEW p,
           NEW pieces \in Nat
    PROVE  LET O == OpenBatches(rows, p)
               U == UsedBatches(rows, p)
           IN  /\ SumFunctionOnSet(Shares("out", rows, pieces, O), O)
                    = pieces - Unmet("out", rows, pieces, O)
               /\ SumFunctionOnSet(Shares("in", rows, pieces, U), U)
                    = pieces - Unmet("in", rows, pieces, U)
<1> DEFINE O == OpenBatches(rows, p)
           U == UsedBatches(rows, p)
<1>1. O \in SUBSET D /\ U \in SUBSET D
  BY DEF IsTable, OpenBatches, UsedBatches
<1> HIDE DEF O, U
<1>2. SumFunctionOnSet(Shares("out", rows, pieces, O), O)
        = pieces - Unmet("out", rows, pieces, O)
  BY <1>1, SharesTotal
<1>3. SumFunctionOnSet(Shares("in", rows, pieces, U), U)
        = pieces - Unmet("in", rows, pieces, U)
  BY <1>1, SharesTotal
<1>4. QED BY <1>2, <1>3 DEF O, U

\* Goods that leave are taken from what is tracked as far as it goes; goods
\* that come back raise what is tracked by no more than they are.
LEMMA TrackedMoves ==
    ASSUME NEW D, NEW T, NEW rows, IsTable(rows, D, T),
           NEW after, IsTable(after, D, T), NEW p, NEW delta \in Int,
           \A b \in D :
              /\ after[b].product = rows[b].product
              /\ after[b].writtenOff = rows[b].writtenOff
              /\ rows[b].product = p =>
                   after[b].remaining
                     = rows[b].remaining + Change(rows, p, delta, b)
    PROVE  /\ TrackedIn(rows, p) \in Nat /\ TrackedIn(after, p) \in Nat
           /\ delta < 0 =>
                TrackedIn(after, p) = IF TrackedIn(rows, p) + delta < 0 THEN 0
                                      ELSE TrackedIn(rows, p) + delta
           /\ delta >= 0 => TrackedIn(after, p) <= TrackedIn(rows, p) + delta
<1> DEFINE U == UsedBatches(rows, p)
           O == OpenBatches(rows, p)
           f == Avails("out", rows)
           h == Avails("out", after)
           was == SumFunctionOnSet(f, U)
           now == SumFunctionOnSet(h, U)
<1>1. DOMAIN rows = D /\ DOMAIN after = D
  BY DEF IsTable
<1>2. UsedBatches(after, p) = U
  BY <1>1 DEF UsedBatches
<1>3. U \in SUBSET D /\ O \in SUBSET U /\ \A b \in U : rows[b].product = p
  BY <1>1 DEF UsedBatches, OpenBatches
<1>4. IsFiniteSet(U) /\ IsFiniteSet(O)
  BY <1>3, FS_Subset DEF IsTable
<1>5. TrackedIn(rows, p) = was /\ TrackedIn(after, p) = now
  BY <1>2 DEF TrackedIn
<1>6. \A b \in D : /\ f[b] = rows[b].remaining /\ h[b] = after[b].remaining
                   /\ f[b] \in Nat /\ h[b] \in Nat
  BY <1>1 DEF Avails, Avail, IsTable
<1>7. was \in Nat /\ now \in Nat
  <2> HIDE DEF f, h, U
  <2>1. QED BY <1>3, <1>4, <1>6, SumNatural
<1>8. \A b \in U : h[b] = f[b] + Change(rows, p, delta, b)
  BY <1>3, <1>6
<1>9. ASSUME delta < 0
      PROVE  now = IF was + delta < 0 THEN 0 ELSE was + delta
  <2> DEFINE n == -delta
             e == [b \in D |-> Given(rows, p, n, b)]
             unmet == Unmet("out", rows, n, O)
  <2>1. n \in Nat /\ O \in SUBSET D
    BY <1>3, <1>9
  <2>2. ASSUME NEW b \in D
        PROVE  /\ e[b] = IF b \in O THEN Share("out", rows, n, O, b) ELSE 0
               /\ Change(rows, p, delta, b) = -e[b]
               /\ e[b] \in Int
    <3>1. e[b] = IF b \in O THEN Share("out", rows, n, O, b) ELSE 0
      <4>1. e[b] = Given(rows, p, n, b)
        OBVIOUS
      <4>2. Given(rows, p, n, b)
              = IF b \in O THEN Share("out", rows, n, O, b) ELSE 0
        BY Zenon, ReferenceIsShare
      <4>3. QED BY <4>1, <4>2
    <3>2. Change(rows, p, delta, b) = -e[b]
      BY <1>9 DEF Change
    <3>3. Share("out", rows, n, O, b) \in 0..Avail("out", rows[b])
      <4> HIDE DEF n, O
      <4>1. QED BY <2>1, ShareWithin
    <3>4. Share("out", rows, n, O, b) \in Int
      BY <3>3
    <3>5. e[b] \in Int
      <4> HIDE DEF e
      <4>1. QED BY <3>1, <3>4
    <3>6. QED BY Zenon, <3>1, <3>2, <3>5
  <2> HIDE DEF e
  <2>3. SumFunctionOnSet(e, O) = n - unmet
    <3> DEFINE g == Shares("out", rows, n, O)
    <3>1. SumFunctionOnSet(g, O) = n - unmet
      <4> HIDE DEF n
      <4>1. QED BY <2>1, SharesOfAll
    <3>2. \A b \in O : e[b] = g[b]
      BY <1>1, <2>1, <2>2 DEF Shares
    <3> HIDE DEF g, O
    <3>3. SumFunctionOnSet(e, O) = SumFunctionOnSet(g, O)
      BY <1>4, <3>2, SumSame
    <3>4. QED BY <3>1, <3>3
  <2>4. SumFunctionOnSet(e, U) = SumFunctionOnSet(e, O)
    <3>1. \A b \in U : e[b] \in Int /\ (b \in U \ O => e[b] = 0)
      BY <1>3, <2>2
    <3> HIDE DEF U, O
    <3>2. QED BY <1>3, <1>4, <3>1, SumPart
  <2>5. was = SumFunctionOnSet(f, O)
    <3>1. \A b \in U : f[b] \in Int /\ (b \in U \ O => f[b] = 0)
      <4>1. \A b \in U \ O : ~(rows[b].remaining > 0)
        BY <1>1 DEF UsedBatches, OpenBatches
      <4>2. QED BY <1>3, <1>6, <4>1
    <3> HIDE DEF U, O, f
    <3>2. QED BY <1>3, <1>4, <3>1, SumPart
  <2>6. was = now + SumFunctionOnSet(e, U)
    <3>1. \A b \in U : h[b] \in Int /\ e[b] \in Int /\ f[b] = h[b] + e[b]
      <4> SUFFICES ASSUME NEW b \in U
                   PROVE  h[b] \in Int /\ e[b] \in Int /\ f[b] = h[b] + e[b]
        OBVIOUS
      <4>1. /\ h[b] = f[b] + Change(rows, p, delta, b)
            /\ Change(rows, p, delta, b) = -e[b] /\ e[b] \in Int
            /\ f[b] \in Nat /\ h[b] \in Nat
        BY <1>3, <1>6, <1>8, <2>2
      <4> HIDE DEF f, h, U
      <4>2. QED BY <4>1
    <3> HIDE DEF U, f, h
    <3>2. QED BY <1>4, <3>1, SumAdds
  <2>7. unmet = IF n < was THEN 0 ELSE n - was
    <3>1. unmet = IF n < SumFunctionOnSet(f, O) THEN 0
                  ELSE n - SumFunctionOnSet(f, O)
      <4> HIDE DEF n, O
      <4>1. QED BY <2>1, UnmetIs
    <3>2. QED BY Zenon, <2>5, <3>1
  <2> HIDE DEF unmet, was, now
  <2>8. was = now + (n - unmet)
    BY Zenon, <2>3, <2>4, <2>6
  <2>9. QED BY <1>7, <1>9, <2>7, <2>8
<1>10. ASSUME delta >= 0 PROVE now <= was + delta
  <2> DEFINE e == [b \in D |-> TakenBack(rows, p, delta, b)]
             unmet == Unmet("in", rows, delta, U)
  <2>1. delta \in Nat
    BY <1>10
  <2>2. ASSUME NEW b \in U
        PROVE  /\ e[b] = Share("in", rows, delta, U, b)
               /\ Change(rows, p, delta, b) = e[b]
               /\ e[b] \in Int
    <3>1. e[b] = TakenBack(rows, p, delta, b) /\ b \in D
      BY <1>3
    <3>2. TakenBack(rows, p, delta, b) = Share("in", rows, delta, U, b)
      <4>1. TakenBack(rows, p, delta, b)
              = IF b \in U THEN Share("in", rows, delta, U, b) ELSE 0
        BY Zenon, <3>1, ReferenceIsShare
      <4>2. QED BY <4>1
    <3>3. Change(rows, p, delta, b) = e[b]
      BY <1>10, <3>1 DEF Change
    <3>4. Change(rows, p, delta, b) \in Int
      BY <3>1, ChangeWithin
    <3>5. QED BY Zenon, <3>1, <3>2, <3>3, <3>4
  <2> HIDE DEF e
  <2>3. SumFunctionOnSet(e, U) = delta - unmet
    <3> DEFINE g == Shares("in", rows, delta, U)
    <3>1. SumFunctionOnSet(g, U) = delta - unmet
      BY <2>1, SharesOfAll
    <3>2. \A b \in U : e[b] = g[b]
      BY <1>1, <1>3, <2>2 DEF Shares
    <3> HIDE DEF g, U
    <3>3. SumFunctionOnSet(e, U) = SumFunctionOnSet(g, U)
      BY <1>4, <3>2, SumSame
    <3>4. QED BY <3>1, <3>3
  <2>4. now = was + SumFunctionOnSet(e, U)
    <3>1. \A b \in U : f[b] \in Int /\ e[b] \in Int /\ h[b] = f[b] + e[b]
      BY <1>3, <1>6, <1>8, <2>2
    <3> HIDE DEF U, f, h
    <3>2. QED BY <1>4, <3>1, SumAdds
  <2>5. unmet \in Nat
    <3> HIDE DEF U
    <3>1. QED BY <1>3, <2>1, UnmetIs
  <2> HIDE DEF unmet, was, now
  <2>6. now = was + (delta - unmet)
    BY Zenon, <2>3, <2>4
  <2>7. QED BY <1>7, <2>1, <2>5, <2>6
<1> HIDE DEF was, now
<1>11. QED BY <1>5, <1>7, <1>9, <1>10

-----------------------------------------------------------------------------
(* The batches of the shop.                                                *)

\* The batches are rows, and none holds less than nothing or more than it
\* received.
BatchInv ==
    /\ batch \in [BatchIds -> BatchRow]
    /\ \A b \in BatchIds : batch[b].remaining \in 0..batch[b].qty

\* So they are a table, now and after a step that keeps the invariant.
LEMMA BatchesAreTable ==
    /\ BatchInv => IsTable(batch, BatchIds, Products \cup {None})
    /\ BatchInv' => IsTable(batch', BatchIds, Products \cup {None})
<1> DEFINE Row == [product : Products \cup {None}, expiryDate : Nat, qty : Nat,
                   remaining : Int, writtenOff : BOOLEAN]
<1>1. BatchRow \subseteq Row
  <2>1. Expiries \cup {0} \subseteq Nat
    BY ExpiriesAssumption DEF ExpiriesAssumption
  <2>2. ASSUME NEW r \in BatchRow PROVE r \in Row
    BY <2>1, <2>2 DEF BatchRow
  <2>3. QED BY <2>2
<1>2. BatchIds \subseteq Nat /\ IsFiniteSet(BatchIds)
  BY BatchIdsAssumption DEF BatchIdsAssumption
<1> HIDE DEF Row
<1>3. ASSUME NEW rows, rows \in [BatchIds -> BatchRow]
      PROVE  rows \in [BatchIds -> Row]
  BY <1>1, <1>3
<1>4. BatchInv => IsTable(batch, BatchIds, Products \cup {None})
  BY <1>2, <1>3 DEF BatchInv, IsTable, Row
<1>5. BatchInv' => IsTable(batch', BatchIds, Products \cup {None})
  BY <1>2, <1>3 DEF BatchInv, IsTable, Row
<1>6. QED BY <1>4, <1>5

\* What a movement of stock changes in each batch.
Moves(delta, b) ==
    /\ batch'[b].product = batch[b].product
    /\ batch'[b].writtenOff = batch[b].writtenOff
    /\ batch[b].product \in Products =>
          batch'[b].remaining
            = batch[b].remaining
                + Change(batch, batch[b].product, delta[batch[b].product], b)

\* Batches that follow a movement stay batches.
LEMMA FollowsMove ==
    ASSUME BatchInv
    PROVE  \A delta \in [Products -> Int] : BatchesFollow(delta) =>
               BatchInv' /\ \A b \in BatchIds : Moves(delta, b)
<1> SUFFICES ASSUME NEW delta \in [Products -> Int], BatchesFollow(delta)
             PROVE  BatchInv' /\ \A b \in BatchIds : Moves(delta, b)
  OBVIOUS
<1>1. IsTable(batch, BatchIds, Products \cup {None})
  BY BatchesAreTable
<1>2. ASSUME NEW b \in BatchIds
      PROVE  /\ batch'[b] \in BatchRow
             /\ batch'[b].remaining \in 0..batch'[b].qty
             /\ Moves(delta, b)
  <2> DEFINE p == batch[b].product
  <2>1. /\ batch[b] \in BatchRow /\ batch[b].remaining \in 0..batch[b].qty
        /\ batch[b].qty \in Nat /\ batch[b].remaining \in Int
        /\ p \in Products \cup {None}
    BY DEF BatchInv, BatchRow
  <2>2. batch'[b] = IF p = None THEN batch[b]
                    ELSE ApplyBatchDelta(batch, p, delta[p])[b]
    BY DEF BatchesFollow
  <2> HIDE DEF p
  <2>3. CASE p = None
    <3>1. batch'[b] = batch[b]
      BY <2>2, <2>3
    <3>2. p \notin Products
      BY <2>3, NoneAssumption DEF NoneAssumption
    <3>3. QED BY <2>1, <3>1, <3>2 DEF Moves, p
  <2>4. CASE p # None
    <3> DEFINE n == Change(batch, p, delta[p], b)
    <3>1. delta[p] \in Int
      BY <2>1, <2>4
    <3>2. ApplyBatchDelta(batch, p, delta[p])[b]
            = [batch[b] EXCEPT !.remaining = @ + n]
      BY <1>1, <3>1, LoopsMatch
    <3>3. batch[b].remaining + n \in 0..batch[b].qty
      <4>1. /\ delta[p] < 0 => n \in -batch[b].remaining..0
            /\ delta[p] >= 0 => n \in 0..(batch[b].qty - batch[b].remaining)
        BY <1>1, <3>1, ChangeWithin
      <4> HIDE DEF n
      <4>2. QED BY <2>1, <3>1, <4>1
    <3> HIDE DEF n
    <3>4. batch'[b] = [batch[b] EXCEPT !.remaining = @ + n]
      BY Zenon, <2>2, <2>4, <3>2
    <3>5. /\ batch'[b].remaining = batch[b].remaining + n
          /\ batch'[b].qty = batch[b].qty
          /\ batch'[b].product = batch[b].product
          /\ batch'[b].writtenOff = batch[b].writtenOff
      BY <2>1, <3>4 DEF BatchRow
    <3>6. batch'[b] \in BatchRow
      <4>1. batch[b].remaining + n \in Int
        BY <2>1, <3>3
      <4>2. QED BY <2>1, <3>4, <4>1 DEF BatchRow
    <3>7. Moves(delta, b)
      BY <3>5 DEF Moves, n, p
    <3>8. batch'[b].remaining \in 0..batch'[b].qty
      BY <3>3, <3>5
    <3>9. QED BY <3>6, <3>7, <3>8
  <2>5. QED BY <2>3, <2>4
<1>3. batch' \in [BatchIds -> BatchRow]
  <2>1. batch' = [b \in BatchIds |-> batch'[b]]
    BY DEF BatchesFollow
  <2>2. QED BY <1>2, <2>1
<1>4. QED BY <1>2, <1>3 DEF BatchInv

\* Stock moves and the batches follow; what leaves was there.
GoodsMove ==
    \E delta \in [Products -> Int] :
        /\ MoveStock(delta)
        /\ BatchesFollow(delta)
        /\ Enough(delta) \/ \A p \in Products : delta[p] >= 0

\* No stock moves and no batch changes.
GoodsStay ==
    /\ batch' = batch
    /\ \A p \in Products : product'[p].stockQty = product[p].stockQty

\* A line of a supply comes in.
GoodsCome ==
    \E p \in Products, qty \in 1..MaxQty :
        \/ ReceiveUndated(p, qty)
        \/ \E b \in BatchIds, expiry \in Expiries : ReceiveDated(p, qty, b, expiry)

\* Every step but a new batch and a write-off moves goods, brings them in or
\* leaves them.
LEMMA GoodsOfStep ==
    ASSUME OrdersInv, NEW c \in Callers
    PROVE  /\ SingleStep => GoodsMove \/ GoodsStay \/ GoodsCome
           /\ (\/ Lock(c) \/ Read(c) \/ LockedWrite(c)
               \/ Abort(c) \/ UNCHANGED vars) => GoodsMove \/ GoodsStay
           /\ UnlockedWrite(c) =>
                \/ GoodsMove \/ GoodsStay \/ WriteOff(c)
                \/ \E b \in BatchIds, expiry \in Expiries :
                      CreateBatch(c, b, expiry)
<1> DEFINE Goods == GoodsMove \/ GoodsStay
<1>1. RowTypes
  BY DEF OrdersInv, MoneyInv
<1>2. ASSUME UNCHANGED <<product, batch>> PROVE Goods
  BY <1>2 DEF GoodsStay
<1>3. ASSUME NEW o \in OrderIds, NEW want \in Baskets, PlaceOrder(o, want)
      PROVE  Goods
  <2> DEFINE delta == [q \in Products |-> -want[q]]
  <2>1. delta \in [Products -> Int]
    BY DEF Baskets, Quantities
  <2>2. MoveForOrder(o, delta) /\ Enough(delta)
    BY <1>3 DEF PlaceOrder
  <2> HIDE DEF delta
  <2>3. QED BY <2>1, <2>2 DEF GoodsMove, MoveForOrder
<1>4. ASSUME NEW want \in Baskets, UpdateOrder(c, want) PROVE Goods
  <2> DEFINE delta == [q \in Products |-> call[c].item[q].qty - want[q]]
  <2>1. call[c].item \in [Products -> ItemRow]
    BY <1>1, <1>4, CallTypes DEF UpdateOrder, LockingOps
  <2>2. delta \in [Products -> Int]
    BY <2>1 DEF Baskets, Quantities, ItemRow
  <2>3. MoveForOrder(call[c].order, delta) /\ Enough(delta)
    BY <1>4 DEF UpdateOrder
  <2> HIDE DEF delta
  <2>4. QED BY <2>2, <2>3 DEF GoodsMove, MoveForOrder
<1>5. ASSUME Cancel(c) PROVE Goods
  <2> DEFINE delta == [q \in Products |-> call[c].item[q].qty]
  <2>1. call[c].item \in [Products -> ItemRow]
    BY <1>1, <1>5, CallTypes DEF Cancel
  <2>2. delta \in [Products -> Int] /\ \A q \in Products : delta[q] >= 0
    BY <2>1 DEF ItemRow
  <2>3. MoveForOrder(call[c].order, delta)
    BY <1>5 DEF Cancel
  <2> HIDE DEF delta
  <2>4. QED BY <2>2, <2>3 DEF GoodsMove, MoveForOrder
<1>6. ASSUME NEW back \in Baskets, NEW restock \in BOOLEAN,
             NEW asked \in BOOLEAN, NEW exclude \in BOOLEAN,
             CreateReturn(c, back, restock, asked, exclude)
      PROVE  Goods
  <2> DEFINE delta == [q \in Products |-> IF restock THEN back[q] ELSE 0]
  <2>1. delta \in [Products -> Int] /\ \A q \in Products : delta[q] >= 0
    BY DEF Baskets, Quantities
  <2>2. MoveForOrder(call[c].order, delta)
    BY <1>6 DEF CreateReturn
  <2> HIDE DEF delta
  <2>3. QED BY <2>1, <2>2 DEF GoodsMove, MoveForOrder
<1>7. ASSUME NEW q \in Products, NEW qty \in -MaxQty..MaxQty,
             AdjustStock(q, qty)
      PROVE  Goods
  <2>1. Only(q, qty) \in [Products -> Int]
    BY BoundsAssumption DEF BoundsAssumption, Only
  <2>2. QED BY <1>7, <2>1 DEF AdjustStock, GoodsMove
<1>8. ASSUME NEW q \in Products, NEW price \in Prices, NEW on \in BOOLEAN,
             EditProduct(q, price, on)
      PROVE  Goods
  <2>1. ASSUME NEW p \in Products
        PROVE  product'[p].stockQty = product[p].stockQty
    <3>1. product[p] \in ProductRow /\ product \in [Products -> ProductRow]
      BY <1>1 DEF RowTypes
    <3>2. product'[p] = product[p] \/
            product'[p] = [product[p] EXCEPT !.price = price, !.isActive = on]
      BY <1>8, <3>1 DEF EditProduct
    <3>3. QED BY <3>1, <3>2 DEF ProductRow
  <2>2. QED BY <1>8, <2>1 DEF EditProduct, GoodsStay
<1>9. ASSUME UNCHANGED vars PROVE Goods
  BY <1>2, <1>9 DEF vars
<1>10. ASSUME Lock(c) \/ Read(c) \/ Abort(c) PROVE Goods
  <2>1. UNCHANGED <<product, batch>>
    BY <1>10 DEF Lock, UpdateOrderLock, AddPaymentLock, ReturnLock,
             DeletePaymentLock, Read, UpdateStatusRead, CancelRead,
             DeletePaymentFind, AssignDriverRead, StartRead, CompleteRead,
             CreateHandoverRead, PayrollCloseRead, CreateBatchReadStock,
             CreateBatchReadTracked, WriteOffRead, Abort
  <2>2. QED BY <1>2, <2>1
<1>11. ASSUME LockedWrite(c) PROVE Goods
  <2>1. ASSUME NEW i \in PaymentIds, NEW amount \in Amount,
               AddPayment(c, i, amount)
        PROVE  Goods
    BY <1>2, <2>1 DEF AddPayment
  <2>2. ASSUME DeletePayment(c) PROVE Goods
    BY <1>2, <2>2 DEF DeletePayment
  <2>3. QED BY <1>4, <1>6, <1>11, <2>1, <2>2 DEF LockedWrite
<1>12. ASSUME UnlockedWrite(c)
       PROVE  \/ Goods \/ WriteOff(c)
              \/ \E b \in BatchIds, expiry \in Expiries :
                    CreateBatch(c, b, expiry)
  <2>1. ASSUME \/ UpdateStatus(c) \/ AssignDriver(c) \/ Start(c)
               \/ CompleteDelivered(c) \/ CompleteFailed(c)
        PROVE  Goods
    BY <1>2, <2>1 DEF UpdateStatus, AssignDriver, Start, CompleteDelivered,
                      CompleteFailed
  <2>2. ASSUME \/ \E h \in HandoverIds : CreateHandover(c, h)
               \/ \E y \in PayoutIds : PayrollClose(c, y)
        PROVE  Goods
    BY <1>2, <2>2 DEF CreateHandover, PayrollClose
  <2>3. QED BY <1>5, <1>12, <2>1, <2>2 DEF UnlockedWrite
<1>13. ASSUME SingleStep PROVE Goods \/ GoodsCome
  <2>1. ASSUME NEW o \in OrderIds, NEW want \in Baskets,
               \/ CreateOrder(o, want)
               \/ \E i \in PaymentIds : CreatePaidOrder(o, want, i)
        PROVE  Goods
    BY <1>3, <2>1 DEF CreateOrder, CreatePaidOrder
  <2>2. ASSUME NEW y \in PayoutIds, PayrollPay(y) PROVE Goods
    BY <1>2, <2>2 DEF PayrollPay
  <2>3. QED BY <1>7, <1>8, <1>13, <2>1, <2>2 DEF SingleStep, GoodsCome
<1>14. QED BY <1>9, <1>10, <1>11, <1>12, <1>13

\* At the start there is no batch.
LEMMA NoBatchesFirst == Init => BatchInv
<1> SUFFICES ASSUME Init PROVE BatchInv
  OBVIOUS
<1>1. batch = [b \in BatchIds |-> NoBatch]
  BY DEF Init
<1>2. NoBatch \in BatchRow /\ NoBatch.remaining \in 0..NoBatch.qty
  BY DEF NoBatch, BatchRow
<1>3. QED BY <1>1, <1>2 DEF BatchInv

\* What the insert of a batch remembers.
LEMMA NewBatch ==
    ASSUME RowTypes, NEW c \in Callers, NEW b \in BatchIds,
           NEW expiry \in Expiries, CreateBatch(c, b, expiry)
    PROVE  call[c].product \in Products /\ call[c].qty \in Nat
<1>1. call[c] \in CallState /\ call[c].op = "insertBatch"
  BY DEF RowTypes, CreateBatch
<1>2. call[c].product \in Products /\ call[c].qty \in 1..MaxQty
  BY <1>1 DEF CallState, Idle, LockingOps
<1>3. QED BY <1>2, BoundsAssumption DEF BoundsAssumption

\* A new batch holds what it received.
LEMMA InsertKeeps ==
    ASSUME BatchInv, NEW p \in Products, NEW qty \in Nat, NEW b \in BatchIds,
           NEW expiry \in Expiries, InsertBatch(b, p, qty, expiry)
    PROVE  BatchInv'
<1> DEFINE new == [product |-> p, expiryDate |-> expiry, qty |-> qty,
                   remaining |-> qty, writtenOff |-> FALSE]
<1>1. new \in BatchRow /\ new.remaining \in 0..new.qty
  BY DEF BatchRow
<1>2. batch' = [batch EXCEPT ![b] = new]
  BY DEF InsertBatch
<1> HIDE DEF new
<1>3. QED BY <1>1, <1>2 DEF BatchInv

\* What a write-off remembers.
LEMMA WriteOffCall ==
    ASSUME RowTypes, NEW c \in Callers, WriteOff(c)
    PROVE  call[c].batch \in BatchIds /\ call[c].remaining \in Int
<1>1. call[c] \in CallState /\ call[c].op = "writeOff"
  BY DEF RowTypes, WriteOff
<1>2. QED BY <1>1 DEF CallState, Idle, LockingOps

\* Every step of the shop keeps the batches in order.
LEMMA StepBatches ==
    ASSUME OrdersInv, BatchInv, [Next]_vars
    PROVE  BatchInv'
<1>1. RowTypes
  BY DEF OrdersInv, MoneyInv
<1>2. CASE UNCHANGED vars
  BY <1>2 DEF vars, BatchInv
<1>3. CASE Next
  <2>1. PICK c \in Callers :
          \/ SingleStep \/ Lock(c) \/ Read(c) \/ LockedWrite(c) \/ Abort(c)
          \/ UnlockedWrite(c)
    BY <1>3 DEF Next
  <2>2. CASE GoodsMove
    BY <2>2, FollowsMove DEF GoodsMove
  <2>3. CASE GoodsStay
    BY <2>3 DEF GoodsStay, BatchInv
  <2>4. CASE WriteOff(c)
    <3>1. batch' = [batch EXCEPT ![call[c].batch].remaining = 0,
                                 ![call[c].batch].writtenOff = TRUE]
      BY <2>4 DEF WriteOff
    <3>2. call[c].batch \in BatchIds
      BY <1>1, <2>4, WriteOffCall
    <3>3. \A b \in BatchIds : /\ batch[b] \in BatchRow
                              /\ batch[b].remaining \in 0..batch[b].qty
                              /\ batch[b].qty \in Nat
      BY DEF BatchInv, BatchRow
    <3>4. ASSUME NEW b \in BatchIds
          PROVE  /\ batch'[b] \in BatchRow
                 /\ batch'[b].remaining \in 0..batch'[b].qty
      <4>1. CASE b = call[c].batch
        <5>1. batch'[b] = [batch[b] EXCEPT !.remaining = 0,
                                           !.writtenOff = TRUE]
          BY <3>1, <4>1 DEF BatchInv
        <5>2. /\ batch'[b] \in BatchRow
              /\ batch'[b].remaining = 0 /\ batch'[b].qty = batch[b].qty
          <6>1. PICK r : r = batch[b]
            OBVIOUS
          <6>2. r \in BatchRow
            BY <3>3, <6>1
          <6>3. batch'[b] = [r EXCEPT !.remaining = 0, !.writtenOff = TRUE]
            BY <5>1, <6>1
          <6>4. batch'[b] \in BatchRow
            <7>1. batch'[b] = [product |-> r.product,
                               expiryDate |-> r.expiryDate, qty |-> r.qty,
                               remaining |-> 0, writtenOff |-> TRUE]
              BY <6>2, <6>3 DEF BatchRow
            <7>2. QED BY <6>2, <7>1 DEF BatchRow
          <6>5. batch'[b].remaining = 0 /\ batch'[b].qty = r.qty
            BY <6>2, <6>3 DEF BatchRow
          <6>6. QED BY <6>1, <6>4, <6>5
        <5>3. QED BY <3>3, <5>2
      <4>2. CASE b # call[c].batch
        <5>1. batch'[b] = batch[b]
          BY <3>1, <4>2 DEF BatchInv
        <5>2. QED BY <3>3, <5>1
      <4>3. QED BY <4>1, <4>2
    <3>5. batch' = [b \in BatchIds |-> batch'[b]]
      BY <3>1 DEF BatchInv
    <3>6. QED BY <3>4, <3>5 DEF BatchInv
  <2>5. ASSUME NEW b \in BatchIds, NEW expiry \in Expiries,
               CreateBatch(c, b, expiry)
        PROVE  BatchInv'
    BY <1>1, <2>5, NewBatch, InsertKeeps DEF CreateBatch
  <2>6. CASE GoodsCome
    <3>1. ASSUME NEW p \in Products, NEW qty \in 1..MaxQty, NEW b \in BatchIds,
                 NEW expiry \in Expiries, ReceiveDated(p, qty, b, expiry)
          PROVE  BatchInv'
      <4>1. qty \in Nat
        BY BoundsAssumption DEF BoundsAssumption
      <4>2. QED BY <3>1, <4>1, InsertKeeps DEF ReceiveDated
    <3>2. ASSUME NEW p, NEW qty, ReceiveUndated(p, qty) PROVE BatchInv'
      BY <3>2 DEF ReceiveUndated, BatchInv
    <3>3. QED BY <2>6, <3>1, <3>2 DEF GoodsCome
  <2>7. QED BY <2>1, <2>2, <2>3, <2>4, <2>5, <2>6, GoodsOfStep
<1>4. QED BY <1>2, <1>3

\* The batches stay in order, whatever requests come together.
THEOREM BatchesAlwaysInOrder == Spec => [](OrdersInv /\ BatchInv)
<1>1. Init => OrdersInv /\ BatchInv
  BY InitOrders, NoBatchesFirst
<1>2. OrdersInv /\ BatchInv /\ [Next]_vars => (OrdersInv /\ BatchInv)'
  BY StepOrders, StepBatches
<1>3. QED BY <1>1, <1>2, PTL DEF Spec

\* A write-off has read a batch of some product, and the history names rows.
MarksInv ==
    /\ \A c \in Callers : call[c].op = "writeOff" =>
          batch[call[c].batch].product \in Products
    /\ stale \subseteq OrderIds \cup Products
    /\ revived \subseteq OrderIds

\* A batch stays a batch of its product.
LEMMA BatchesKeepProducts ==
    ASSUME OrdersInv, BatchInv, [Next]_vars, NEW a \in BatchIds,
           batch[a].product \in Products
    PROVE  batch'[a].product = batch[a].product
<1>1. RowTypes /\ batch \in [BatchIds -> BatchRow] /\ batch[a].product # None
  BY NoneAssumption DEF OrdersInv, MoneyInv, BatchInv, NoneAssumption
<1>2. CASE UNCHANGED vars
  BY <1>2 DEF vars
<1>3. ASSUME NEW b, NEW p, NEW qty, NEW expiry, InsertBatch(b, p, qty, expiry)
      PROVE  batch'[a] = batch[a]
  BY <1>1, <1>3 DEF InsertBatch, NextBatch
<1>4. CASE Next
  <2>1. PICK c \in Callers :
          \/ SingleStep \/ Lock(c) \/ Read(c) \/ LockedWrite(c) \/ Abort(c)
          \/ UnlockedWrite(c)
    BY <1>4 DEF Next
  <2>2. CASE GoodsMove
    BY <2>2, FollowsMove DEF GoodsMove, Moves
  <2>3. CASE GoodsStay
    BY <2>3 DEF GoodsStay
  <2>4. CASE GoodsCome
    <3>1. ASSUME NEW p, NEW qty, NEW b, NEW expiry,
                 ReceiveDated(p, qty, b, expiry)
          PROVE  batch'[a] = batch[a]
      BY <1>3, <3>1 DEF ReceiveDated
    <3>2. ASSUME NEW p, NEW qty, ReceiveUndated(p, qty)
          PROVE  batch'[a] = batch[a]
      BY <3>2 DEF ReceiveUndated
    <3>3. QED BY <2>4, <3>1, <3>2 DEF GoodsCome
  <2>5. CASE WriteOff(c)
    <3>1. batch' = [batch EXCEPT ![call[c].batch].remaining = 0,
                                 ![call[c].batch].writtenOff = TRUE]
      BY <2>5 DEF WriteOff
    <3>2. batch[a] \in BatchRow
      BY <1>1
    <3>3. CASE a = call[c].batch
      <4>1. batch'[a] = [batch[a] EXCEPT !.remaining = 0, !.writtenOff = TRUE]
        BY <1>1, <3>1, <3>3
      <4>2. QED BY <3>2, <4>1 DEF BatchRow
    <3>4. CASE a # call[c].batch
      BY <1>1, <3>1, <3>4
    <3>5. QED BY <3>3, <3>4
  <2>6. ASSUME NEW b \in BatchIds, NEW expiry \in Expiries,
               CreateBatch(c, b, expiry)
        PROVE  batch'[a] = batch[a]
    BY <1>3, <2>6 DEF CreateBatch
  <2>7. QED BY <2>1, <2>2, <2>3, <2>4, <2>5, <2>6, GoodsOfStep
<1>5. QED BY <1>2, <1>4

\* A call becomes a write-off only by reading a batch of some product.
LEMMA WriteOffsBegin ==
    ASSUME RowTypes, [Next]_vars, NEW d \in Callers,
           call'[d].op = "writeOff"
    PROVE  \/ call'[d] = call[d]
           \/ /\ call'[d].batch \in BatchIds
              /\ batch[call'[d].batch].product # None
<1>1. call \in [Callers -> CallState]
  BY DEF RowTypes
<1>2. ASSUME NEW c \in Callers, NEW k, call' = [call EXCEPT ![c] = k],
             k.op # "writeOff"
      PROVE  call'[d] = call[d]
  BY <1>1, <1>2
<1>3. ASSUME NEW c \in Callers, Finish(c) PROVE call'[d] = call[d]
  BY <1>2, <1>3 DEF Finish, Idle
<1>4. ASSUME NEW c \in Callers, Lock(c) PROVE call'[d] = call[d]
  <2>1. ASSUME NEW op \in LockingOps, NEW o, NEW i, LockOrder(c, op, o, i)
        PROVE  call'[d] = call[d]
    <3>1. call' = [call EXCEPT ![c] =
                     [op |-> op, order |-> o, row |-> order[o], item |-> item[o],
                      payment |-> i]]
      BY <2>1 DEF LockOrder
    <3>2. QED BY <1>1, <2>1, <3>1 DEF LockingOps
  <2>2. {"update", "addPayment", "deletePayment", "return"} = LockingOps
    BY DEF LockingOps
  <2>3. QED BY <1>4, <2>1, <2>2
            DEF Lock, UpdateOrderLock, AddPaymentLock, ReturnLock,
                DeletePaymentLock
<1>5. ASSUME NEW c \in Callers, Read(c)
      PROVE  \/ call'[d] = call[d]
             \/ /\ call'[d].batch \in BatchIds
                /\ batch[call'[d].batch].product # None
  <2>1. ASSUME NEW b \in BatchIds, WriteOffRead(c, b)
        PROVE  \/ call'[d] = call[d]
               \/ /\ call'[d].batch \in BatchIds
                  /\ batch[call'[d].batch].product # None
    <3>1. /\ call' = [call EXCEPT ![c] = [op |-> "writeOff", batch |-> b,
                                          remaining |-> batch[b].remaining]]
          /\ batch[b].product # None
      BY <2>1 DEF WriteOffRead, Begin
    <3>2. QED BY <1>1, <2>1, <3>1
  <2>2. ASSUME NEW p, CreateBatchReadStock(c, p) PROVE call'[d] = call[d]
    BY <1>1, <2>2 DEF CreateBatchReadStock, Begin
  <2>3. ASSUME NEW qty, CreateBatchReadTracked(c, qty) PROVE call'[d] = call[d]
    BY <1>1, <2>3 DEF CreateBatchReadTracked
  <2>4. ASSUME NEW x, PayrollCloseRead(c, x) PROVE call'[d] = call[d]
    BY <1>1, <2>4 DEF PayrollCloseRead, Begin
  <2>5. ASSUME NEW x, NEW orders, CreateHandoverRead(c, x, orders)
        PROVE  call'[d] = call[d]
    BY <1>1, <2>5 DEF CreateHandoverRead, Begin
  <2>6. ASSUME NEW o, NEW x, \/ AssignDriverRead(c, o, x) \/ StartRead(c, o, x)
                             \/ CompleteRead(c, o, x, "deliver")
                             \/ CompleteRead(c, o, x, "fail")
        PROVE  call'[d] = call[d]
    BY <1>1, <2>6 DEF AssignDriverRead, StartRead, CompleteRead, Begin
  <2>7. ASSUME NEW x, \/ CancelRead(c, x) \/ DeletePaymentFind(c, x)
                      \/ \E to : UpdateStatusRead(c, x, to)
        PROVE  call'[d] = call[d]
    BY <1>1, <2>7 DEF CancelRead, DeletePaymentFind, UpdateStatusRead, Begin
  <2>8. QED BY <1>5, <2>1, <2>2, <2>3, <2>4, <2>5, <2>6, <2>7 DEF Read
<1>6. ASSUME NEW c \in Callers, LockedWrite(c) PROVE call'[d] = call[d]
  <2>1. \A back, restock, asked, exclude :
           CreateReturn(c, back, restock, asked, exclude) => Finish(c)
    <3> SUFFICES ASSUME NEW back, NEW restock, NEW asked, NEW exclude,
                        CreateReturn(c, back, restock, asked, exclude)
                 PROVE  Finish(c)
      OBVIOUS
    <3>1. Commit(c, call[c].order)
      BY Zenon DEF CreateReturn
    <3>2. QED BY <3>1 DEF Commit
  <2>2. \A want : UpdateOrder(c, want) => Finish(c)
    BY DEF UpdateOrder, Commit
  <2>3. \A i, amount : AddPayment(c, i, amount) => Finish(c)
    BY DEF AddPayment, Commit
  <2>4. DeletePayment(c) => Finish(c)
    BY DEF DeletePayment, Commit
  <2>5. QED BY <1>3, <1>6, <2>1, <2>2, <2>3, <2>4 DEF LockedWrite
<1>7. ASSUME NEW c \in Callers, UnlockedWrite(c) \/ Abort(c)
      PROVE  call'[d] = call[d]
  <2>1. Finish(c)
    BY <1>7 DEF UnlockedWrite, UpdateStatus, Cancel, AssignDriver, Start,
                CompleteDelivered, CompleteFailed, CreateHandover, PayrollClose,
                CreateBatch, WriteOff, FinishUnlocked, Abort
  <2>2. QED BY <1>3, <2>1
<1>8. ASSUME SingleStep PROVE call' = call
  BY <1>8 DEF SingleStep, CreateOrder, CreatePaidOrder, PlaceOrder, AdjustStock,
              ReceiveUndated, ReceiveDated, ReceiveLine, EditProduct, PayrollPay
<1>9. CASE UNCHANGED vars
  BY <1>9 DEF vars
<1>10. QED BY <1>4, <1>5, <1>6, <1>7, <1>8, <1>9 DEF Next

\* Every step keeps it so.
LEMMA StepMarks ==
    ASSUME OrdersInv, BatchInv, MarksInv, [Next]_vars
    PROVE  MarksInv'
<1>1. RowTypes /\ RowTypes' /\ batch \in [BatchIds -> BatchRow]
  BY StepOrders DEF OrdersInv, MoneyInv, BatchInv
<1>2. ASSUME NEW d \in Callers, call'[d].op = "writeOff"
      PROVE  batch'[call'[d].batch].product \in Products
  <2>1. call'[d].batch \in BatchIds
    <3>1. call'[d] \in CallState
      BY <1>1 DEF RowTypes
    <3>2. QED BY <1>2, <3>1 DEF CallState, Idle, LockingOps
  <2>2. batch[call'[d].batch].product \in Products
    <3>1. CASE call'[d] = call[d]
      BY <1>2, <3>1 DEF MarksInv
    <3>2. CASE batch[call'[d].batch].product # None
      BY <1>1, <2>1, <3>2 DEF BatchRow
    <3>3. QED BY <1>1, <1>2, <3>1, <3>2, WriteOffsBegin
  <2>3. QED BY <2>1, <2>2, BatchesKeepProducts
<1>3. ASSUME NEW c \in Callers, UnlockedWrite(c)
      PROVE  /\ stale' \subseteq OrderIds \cup Products
             /\ revived' \subseteq OrderIds
  <2>1. ASSUME NEW rows, rows \subseteq OrderIds \cup Products,
               FinishUnlocked(c, rows)
        PROVE  stale' \subseteq OrderIds \cup Products
    BY <2>1 DEF FinishUnlocked, MarksInv
  <2>2. revived \subseteq OrderIds
    BY DEF MarksInv
  <2>3. ASSUME \/ UpdateStatus(c) \/ Cancel(c) \/ AssignDriver(c) \/ Start(c)
               \/ CompleteDelivered(c) \/ CompleteFailed(c)
        PROVE  /\ stale' \subseteq OrderIds \cup Products
               /\ revived' \subseteq OrderIds
    <3>1. call[c].order \in OrderIds
      BY <1>1, <2>3, CallTypes DEF UpdateStatus, Cancel, AssignDriver, Start,
                                   CompleteDelivered, CompleteFailed
    <3>2. \E rows \in {{}, {call[c].order}} : FinishUnlocked(c, rows)
      BY <2>3 DEF UpdateStatus, Cancel, AssignDriver, Start,
                  CompleteDelivered, CompleteFailed
    <3>3. revived' = revived
      BY <2>3 DEF UpdateStatus, Cancel, AssignDriver, Start,
                  CompleteDelivered, CompleteFailed
    <3>4. QED BY <2>1, <2>2, <3>1, <3>2, <3>3
  <2>4. ASSUME NEW h, CreateHandover(c, h)
        PROVE  /\ stale' \subseteq OrderIds \cup Products
               /\ revived' \subseteq OrderIds
    <3>1. call[c].orders \subseteq OrderIds
      <4>1. call[c] \in CallState /\ call[c].op = "handover"
        BY <1>1, <2>4 DEF RowTypes, CreateHandover
      <4>2. QED BY <4>1 DEF CallState, Idle, LockingOps
    <3>2. /\ FinishUnlocked(c, {o \in call[c].orders :
                                   ~MayHandOver(o, call[c].driver)})
          /\ revived' = revived \cup {o \in call[c].orders :
                                         order[o].orderStatus = "CANCELLED"}
      BY <2>4 DEF CreateHandover
    <3>3. QED BY <2>1, <2>2, <3>1, <3>2
  <2>5. ASSUME NEW y, PayrollClose(c, y)
        PROVE  /\ stale' \subseteq OrderIds \cup Products
               /\ revived' \subseteq OrderIds
    <3>1. call[c].orders \subseteq OrderIds
      <4>1. call[c] \in CallState /\ call[c].op = "payrollClose"
        BY <1>1, <2>5 DEF RowTypes, PayrollClose
      <4>2. QED BY <4>1 DEF CallState, Idle, LockingOps
    <3>2. /\ FinishUnlocked(c, {o \in call[c].orders :
                                   ~Payable(o, call[c].driver)})
          /\ revived' = revived
      BY <2>5 DEF PayrollClose
    <3>3. QED BY <2>1, <2>2, <3>1, <3>2
  <2>6. ASSUME NEW b \in BatchIds, NEW expiry \in Expiries,
               CreateBatch(c, b, expiry)
        PROVE  /\ stale' \subseteq OrderIds \cup Products
               /\ revived' \subseteq OrderIds
    <3>1. call[c].product \in Products
      BY <1>1, <2>6, NewBatch
    <3>2. \E rows \in {{}, {call[c].product}} : FinishUnlocked(c, rows)
      BY <2>6 DEF CreateBatch
    <3>3. revived' = revived
      BY <2>6 DEF CreateBatch
    <3>4. QED BY <2>1, <2>2, <3>1, <3>2, <3>3
  <2>7. ASSUME WriteOff(c)
        PROVE  /\ stale' \subseteq OrderIds \cup Products
               /\ revived' \subseteq OrderIds
    <3>1. batch[call[c].batch].product \in Products
      BY <2>7 DEF WriteOff, MarksInv
    <3>2. \E rows \in {{}, {batch[call[c].batch].product}} :
             FinishUnlocked(c, rows)
      BY <2>7 DEF WriteOff
    <3>3. revived' = revived
      BY <2>7 DEF WriteOff
    <3>4. QED BY <2>1, <2>2, <3>1, <3>2, <3>3
  <2>8. QED BY <1>3, <2>3, <2>4, <2>5, <2>6, <2>7 DEF UnlockedWrite
<1>4. /\ stale' \subseteq OrderIds \cup Products
      /\ revived' \subseteq OrderIds
  BY <1>3, OthersWriteNothingStale DEF MarksInv, history
<1>5. QED BY <1>2, <1>4 DEF MarksInv

\* Every row of every table keeps its columns and their values, whatever
\* requests come together.
THEOREM RowsAlwaysTyped == Spec => []TypeOK
<1> DEFINE Typed == OrdersInv /\ BatchInv /\ MarksInv
<1>1. Init => Typed
  <2>1. Init => MarksInv
    BY DEF Init, Idle, MarksInv
  <2>2. QED BY <2>1, InitOrders, NoBatchesFirst
<1>2. Typed /\ [Next]_vars => Typed'
  BY StepOrders, StepBatches, StepMarks
<1>3. Typed => TypeOK
  BY DEF OrdersInv, MoneyInv, BatchInv, MarksInv, TypeOK
<1> HIDE DEF Typed
<1>4. QED BY <1>1, <1>2, <1>3, PTL DEF Spec

-----------------------------------------------------------------------------
(* Batches and stock, but of products written on a stale check.            *)

\* What a batch of product p tracks, 0 for every other batch.
Tracks(rows, D, p) ==
    [b \in D |-> IF rows[b].product = p /\ ~rows[b].writtenOff
                 THEN rows[b].remaining ELSE 0]

\* What is tracked is the sum over all batches.
LEMMA TrackedIsSum ==
    ASSUME NEW D, NEW T, NEW rows, IsTable(rows, D, T), NEW p
    PROVE  /\ \A b \in D : Tracks(rows, D, p)[b] \in Nat
           /\ TrackedIn(rows, p) \in Nat
           /\ TrackedIn(rows, p) = SumFunctionOnSet(Tracks(rows, D, p), D)
           /\ SumFunction([b \in UsedBatches(rows, p) |-> rows[b].remaining])
                = TrackedIn(rows, p)
<1> DEFINE U == UsedBatches(rows, p)
           f == Avails("out", rows)
           g == Tracks(rows, D, p)
<1>1. DOMAIN rows = D /\ IsFiniteSet(D)
  BY DEF IsTable
<1>2. U \in SUBSET D /\ IsFiniteSet(U)
  BY <1>1, FS_Subset DEF UsedBatches
<1>3. \A b \in D : f[b] \in Nat /\ f[b] = rows[b].remaining
  BY <1>1 DEF Avails, Avail, IsTable
<1>4. \A b \in D : g[b] = IF b \in U THEN f[b] ELSE 0
  BY <1>1, <1>3 DEF Tracks, UsedBatches
<1>5. TotalOf([a \in U |-> rows[a].remaining]) = SumFunctionOnSet(f, U)
  <2>1. ASSUME NEW S \in SUBSET D
        PROVE  /\ TotalOf([a \in S |-> rows[a].remaining])
                    = SumFunctionOnSet(Avails("out", rows), S)
               /\ TotalOf([a \in S |-> Room(rows, a)])
                    = SumFunctionOnSet(Avails("in", rows), S)
    BY TotalIsSum
  <2> HIDE DEF U
  <2>2. QED BY Zenon, <1>2, <2>1
<1>6. SumFunction([a \in U |-> rows[a].remaining]) = TrackedIn(rows, p)
  BY <1>5 DEF TotalOf, TrackedIn
<1> HIDE DEF U, f, g
<1>7. SumFunctionOnSet(f, U) \in Nat
  BY <1>2, <1>3, SumNatural
<1>8. \A b \in D : g[b] \in Nat
  BY <1>3, <1>4
<1>9. SumFunctionOnSet(g, D) = SumFunctionOnSet(g, U)
  <2>1. \A b \in D : g[b] \in Int /\ (b \in D \ U => g[b] = 0)
    BY <1>4, <1>8
  <2>2. QED BY <1>1, <1>2, <2>1, SumPart
<1>10. SumFunctionOnSet(g, U) = SumFunctionOnSet(f, U)
  BY <1>2, <1>4, SumSame
<1>11. TrackedIn(rows, p) = SumFunctionOnSet(f, U)
  BY DEF TrackedIn, f, U
<1>12. QED BY <1>6, <1>7, <1>8, <1>9, <1>10, <1>11 DEF g, U

\* The sum alone.
LEMMA SumOfTracks ==
    ASSUME NEW D, NEW T, NEW rows, IsTable(rows, D, T), NEW p
    PROVE  TrackedIn(rows, p) = SumFunctionOnSet(Tracks(rows, D, p), D)
BY TrackedIsSum

\* When one batch changes, what is tracked changes by what that batch tracks.
LEMMA TrackedChanges ==
    ASSUME NEW D, NEW T, NEW rows, IsTable(rows, D, T),
           NEW after, IsTable(after, D, T), NEW p, NEW b \in D,
           \A a \in D \ {b} : after[a] = rows[a]
    PROVE  TrackedIn(after, p)
             = TrackedIn(rows, p)
                 + (Tracks(after, D, p)[b] - Tracks(rows, D, p)[b])
<1> DEFINE f == Tracks(rows, D, p)
           g == Tracks(after, D, p)
<1>1. \A a \in D : f[a] \in Int /\ g[a] \in Int
  <2>1. \A a \in D : f[a] \in Nat
    BY Zenon, TrackedIsSum
  <2>2. \A a \in D : g[a] \in Nat
    BY Zenon, TrackedIsSum
  <2> HIDE DEF f, g
  <2>3. QED BY <2>1, <2>2
<1>2. \A a \in D \ {b} : g[a] = f[a]
  BY DEF Tracks
<1>3. IsFiniteSet(D)
  BY DEF IsTable
<1>4. /\ TrackedIn(rows, p) = SumFunctionOnSet(f, D)
      /\ TrackedIn(after, p) = SumFunctionOnSet(g, D)
  <2>1. TrackedIn(rows, p) = SumFunctionOnSet(f, D)
    BY SumOfTracks
  <2>2. TrackedIn(after, p) = SumFunctionOnSet(g, D)
    BY SumOfTracks
  <2>3. QED BY <2>1, <2>2
<1> HIDE DEF f, g
<1>5. SumFunctionOnSet(g, D) = SumFunctionOnSet(f, D) + (g[b] - f[b])
  BY <1>1, <1>2, <1>3, SumShifts
<1>6. QED BY Zenon, <1>4, <1>5 DEF f, g

\* The batches of every product together within its stock.
Within == \A p \in Products \ stale : TrackedIn(batch, p) <= product[p].stockQty

\* That is what TrackedWithinStock says, now and after a step.
LEMMA WithinStock ==
    /\ BatchInv => (TrackedWithinStock <=> Within)
    /\ BatchInv' => (TrackedWithinStock' <=> Within')
<1> DEFINE sum(rows, p) ==
               SumFunction([b \in UsedBatches(rows, p) |-> rows[b].remaining])
           S == Products \cup {None}
<1>1. ASSUME NEW rows, IsTable(rows, BatchIds, S)
      PROVE  \A p : sum(rows, p) = TrackedIn(rows, p)
  BY <1>1, TrackedIsSum
<1> HIDE DEF sum
<1>2. ASSUME BatchInv PROVE TrackedWithinStock <=> Within
  <2>1. IsTable(batch, BatchIds, S)
    BY <1>2, BatchesAreTable
  <2>2. \A p : sum(batch, p) = TrackedIn(batch, p)
    BY <1>1, <2>1
  <2>3. \A p : Tracked(p) = sum(batch, p)
    BY DEF Tracked, sum
  <2>4. QED BY <1>2, <2>2, <2>3 DEF TrackedWithinStock, Within, BatchInv
<1>3. ASSUME BatchInv' PROVE TrackedWithinStock' <=> Within'
  <2>1. IsTable(batch', BatchIds, S)
    BY <1>3, BatchesAreTable
  <2>2. \A p : sum(batch', p) = TrackedIn(batch', p)
    BY <1>1, <2>1
  <2>3. \A p : Tracked(p)' = sum(batch', p)
    BY DEF Tracked, sum
  <2>4. QED BY <1>3, <2>2, <2>3 DEF TrackedWithinStock, Within, BatchInv
<1>4. QED BY <1>2, <1>3

\* A movement of goods that are there leaves the batches within the stock.
LEMMA MoveWithin ==
    ASSUME RowTypes, BatchInv, BatchInv', Within, GoodsMove,
           stale \subseteq stale'
    PROVE  Within'
<1> DEFINE S == Products \cup {None}
<1>1. PICK delta \in [Products -> Int] :
        /\ MoveStock(delta)
        /\ BatchesFollow(delta)
        /\ Enough(delta) \/ \A p \in Products : delta[p] >= 0
  BY DEF GoodsMove
<1>2. \A b \in BatchIds : Moves(delta, b)
  BY <1>1, FollowsMove
<1>3. IsTable(batch, BatchIds, S) /\ IsTable(batch', BatchIds, S)
  BY BatchesAreTable
<1>4. ASSUME NEW p \in Products \ stale'
      PROVE  TrackedIn(batch', p) <= product'[p].stockQty
  <2> DEFINE d == delta[p]
             was == TrackedIn(batch, p)
             now == TrackedIn(batch', p)
             stock == product[p].stockQty
  <2>1. product[p] \in ProductRow /\ stock \in Int /\ d \in Int
    BY DEF RowTypes, ProductRow
  <2>2. product'[p].stockQty = stock + d
    <3>1. product'[p] = [product[p] EXCEPT !.stockQty = @ + d]
      BY <1>1 DEF MoveStock
    <3>2. QED BY <2>1, <3>1 DEF ProductRow
  <2>3. stock + d >= 0 \/ d >= 0
    <3>1. CASE Enough(delta)
      BY <2>1, <3>1 DEF Enough
    <3>2. QED BY <1>1, <3>1
  <2>4. \A b \in BatchIds :
          /\ batch'[b].product = batch[b].product
          /\ batch'[b].writtenOff = batch[b].writtenOff
          /\ batch[b].product = p =>
               batch'[b].remaining
                 = batch[b].remaining + Change(batch, p, d, b)
    BY <1>2 DEF Moves
  <2>5. was <= stock
    BY DEF Within
  <2> HIDE DEF d, was, now, stock
  <2>6. /\ was \in Nat /\ now \in Nat
        /\ d < 0 => now = IF was + d < 0 THEN 0 ELSE was + d
        /\ d >= 0 => now <= was + d
    BY <1>3, <2>1, <2>4, TrackedMoves DEF was, now
  <2>7. now <= stock + d
    BY <2>1, <2>3, <2>5, <2>6
  <2>8. QED BY <2>2, <2>7 DEF now
<1>5. QED BY <1>4 DEF Within

\* A new batch adds what it received to what its product tracks.
LEMMA InsertTracks ==
    ASSUME BatchInv, BatchInv', NEW q \in Products, NEW n \in Nat,
           NEW b \in BatchIds, NEW expiry, InsertBatch(b, q, n, expiry),
           NEW p \in Products
    PROVE  /\ TrackedIn(batch, p) \in Nat
           /\ TrackedIn(batch', p)
                = TrackedIn(batch, p) + IF p = q THEN n ELSE 0
<1> DEFINE S == Products \cup {None}
           new == [product |-> q, expiryDate |-> expiry, qty |-> n,
                   remaining |-> n, writtenOff |-> FALSE]
           was == Tracks(batch, BatchIds, p)
           now == Tracks(batch', BatchIds, p)
<1>1. batch' = [batch EXCEPT ![b] = new] /\ batch[b].product = None
  BY DEF InsertBatch, NextBatch
<1>2. IsTable(batch, BatchIds, S) /\ IsTable(batch', BatchIds, S)
  BY BatchesAreTable
<1>3. \A a \in BatchIds \ {b} : batch'[a] = batch[a]
  BY <1>1 DEF BatchInv
<1>4. TrackedIn(batch', p) = TrackedIn(batch, p) + (now[b] - was[b])
  <2> HIDE DEF S
  <2>1. QED BY <1>2, <1>3, TrackedChanges
<1>5. was[b] = 0
  <2>1. batch[b].product # p
    BY <1>1, NoneAssumption DEF NoneAssumption
  <2>2. QED BY <2>1 DEF Tracks
<1>6. now[b] = IF p = q THEN n ELSE 0
  <2>1. batch'[b] = new
    BY <1>1 DEF BatchInv
  <2>2. QED BY <2>1 DEF Tracks
<1>7. TrackedIn(batch, p) \in Nat
  <2> HIDE DEF S
  <2>1. QED BY <1>2, TrackedIsSum
<1> HIDE DEF was, now
<1>8. TrackedIn(batch', p)
        = TrackedIn(batch, p) + ((IF p = q THEN n ELSE 0) - 0)
  BY Zenon, <1>4, <1>5, <1>6
<1>9. QED BY <1>7, <1>8

\* Where its check still holds, a new batch takes stock no batch tracks yet.
LEMMA CreateWithin ==
    ASSUME RowTypes, BatchInv, BatchInv', Within, stale \subseteq stale',
           NEW c \in Callers,
           NEW b \in BatchIds, NEW expiry \in Expiries, CreateBatch(c, b, expiry)
    PROVE  Within'
<1> DEFINE q == call[c].product
           n == call[c].qty
<1>1. q \in Products /\ n \in Nat
  BY NewBatch
<1>2. InsertBatch(b, q, n, expiry) /\ product' = product
  BY DEF CreateBatch
<1>3. q \notin stale' => n <= product[q].stockQty - Tracked(q)
  BY DEF CreateBatch, FinishUnlocked
<1>4. Tracked(q) = TrackedIn(batch, q)
  <2> DEFINE S == Products \cup {None}
  <2>1. IsTable(batch, BatchIds, S)
    BY BatchesAreTable
  <2>2. SumFunction([a \in UsedBatches(batch, q) |-> batch[a].remaining])
          = TrackedIn(batch, q)
    <3> HIDE DEF S, q
    <3>1. QED BY <2>1, TrackedIsSum
  <2>3. QED BY <2>2 DEF Tracked
<1> HIDE DEF q, n
<1>5. ASSUME NEW p \in Products \ stale'
      PROVE  TrackedIn(batch', p) <= product'[p].stockQty
  <2>1. product[p].stockQty \in Int
    BY DEF RowTypes, ProductRow
  <2>2. /\ TrackedIn(batch, p) \in Nat
        /\ TrackedIn(batch', p)
             = TrackedIn(batch, p) + IF p = q THEN n ELSE 0
    BY <1>1, <1>2, InsertTracks
  <2>3. TrackedIn(batch, p) <= product[p].stockQty
    BY DEF Within
  <2>4. p = q => n <= product[p].stockQty - TrackedIn(batch, p)
    BY <1>3, <1>4
  <2>5. TrackedIn(batch', p) <= product[p].stockQty
    BY <1>1, <2>1, <2>2, <2>3, <2>4
  <2>6. QED BY <1>2, <2>5
<1>6. QED BY <1>5 DEF Within

\* A line of a supply adds to the stock at least what it adds to the batches.
LEMMA ReceiveWithin ==
    ASSUME RowTypes, BatchInv, BatchInv', Within, stale \subseteq stale',
           GoodsCome
    PROVE  Within'
<1>1. PICK q \in Products, n \in 1..MaxQty :
        \/ ReceiveUndated(q, n)
        \/ \E b \in BatchIds, expiry \in Expiries : ReceiveDated(q, n, b, expiry)
  BY DEF GoodsCome
<1>2. n \in Nat
  BY BoundsAssumption DEF BoundsAssumption
<1>3. MoveStock(Only(q, n))
  BY <1>1 DEF ReceiveUndated, ReceiveDated, ReceiveLine
<1>4. ASSUME NEW p \in Products \ stale'
      PROVE  TrackedIn(batch', p) <= product'[p].stockQty
  <2>1. product[p] \in ProductRow /\ product[p].stockQty \in Int
    BY DEF RowTypes, ProductRow
  <2>2. product'[p].stockQty = product[p].stockQty + IF p = q THEN n ELSE 0
    <3>1. product'[p] = [product[p] EXCEPT !.stockQty = @ + Only(q, n)[p]]
      BY <1>3 DEF MoveStock
    <3>2. QED BY <2>1, <3>1 DEF ProductRow, Only
  <2>3. /\ TrackedIn(batch, p) \in Nat
        /\ \/ TrackedIn(batch', p) = TrackedIn(batch, p)
           \/ TrackedIn(batch', p)
                = TrackedIn(batch, p) + IF p = q THEN n ELSE 0
    <3>1. CASE ReceiveUndated(q, n)
      <4>1. IsTable(batch, BatchIds, Products \cup {None})
        BY BatchesAreTable
      <4>2. TrackedIn(batch, p) \in Nat
        BY <4>1, TrackedIsSum
      <4>3. QED BY <3>1, <4>2 DEF ReceiveUndated
    <3>2. ASSUME NEW b \in BatchIds, NEW expiry \in Expiries,
                 ReceiveDated(q, n, b, expiry)
          PROVE  /\ TrackedIn(batch, p) \in Nat
                 /\ TrackedIn(batch', p)
                      = TrackedIn(batch, p) + IF p = q THEN n ELSE 0
      BY <1>2, <3>2, InsertTracks DEF ReceiveDated
    <3>3. QED BY <1>1, <3>1, <3>2
  <2>4. TrackedIn(batch, p) <= product[p].stockQty
    BY DEF Within
  <2>5. QED BY <1>2, <2>1, <2>2, <2>3, <2>4
<1>5. QED BY <1>4 DEF Within

\* Where the batch is still as it was read, a write-off takes the same off the
\* stock and off the batch.
LEMMA WriteOffWithin ==
    ASSUME RowTypes, BatchInv, BatchInv', Within, stale \subseteq stale',
           NEW c \in Callers, WriteOff(c)
    PROVE  Within'
<1> DEFINE S == Products \cup {None}
           b == call[c].batch
           q == batch[b].product
           n == batch[b].remaining
           r == call[c].remaining
           asRead == ~batch[b].writtenOff /\ n = r
<1>1. b \in BatchIds /\ r \in Int
  BY WriteOffCall
<1>2. q \notin stale' => asRead
  BY DEF WriteOff, FinishUnlocked
<1>3. batch[b] \in BatchRow /\ n \in Nat
  BY <1>1 DEF BatchInv, BatchRow
<1>4. /\ MoveStock(Only(q, -r))
      /\ batch' = [batch EXCEPT ![b].remaining = 0, ![b].writtenOff = TRUE]
  BY DEF WriteOff
<1>5. IsTable(batch, BatchIds, S) /\ IsTable(batch', BatchIds, S)
  BY BatchesAreTable
<1>6. ASSUME NEW p \in Products \ stale'
      PROVE  TrackedIn(batch', p) <= product'[p].stockQty
  <2> DEFINE was == Tracks(batch, BatchIds, p)
             now == Tracks(batch', BatchIds, p)
             stock == product[p].stockQty
  <2>1. product[p] \in ProductRow /\ stock \in Int
    BY DEF RowTypes, ProductRow
  <2>2. \A a \in BatchIds \ {b} : batch'[a] = batch[a]
    BY <1>4 DEF BatchInv
  <2>3. TrackedIn(batch', p) = TrackedIn(batch, p) + (now[b] - was[b])
    <3> HIDE DEF S, b
    <3>1. QED BY <1>1, <1>5, <2>2, TrackedChanges
  <2>4. was[b] = IF p = q THEN n ELSE 0
    BY <1>1, <1>2 DEF Tracks
  <2>5. now[b] = 0
    <3>1. batch'[b] = [batch[b] EXCEPT !.remaining = 0, !.writtenOff = TRUE]
      BY <1>1, <1>4 DEF BatchInv
    <3>2. batch'[b].writtenOff
      BY <1>3, <3>1 DEF BatchRow
    <3>3. QED BY <1>1, <3>2 DEF Tracks
  <2>6. product'[p].stockQty = stock - IF p = q THEN n ELSE 0
    <3>1. product'[p] = [product[p] EXCEPT !.stockQty = @ + Only(q, -r)[p]]
      BY <1>4 DEF MoveStock
    <3>2. product'[p].stockQty = stock + Only(q, -r)[p]
      BY <2>1, <3>1 DEF ProductRow
    <3>3. Only(q, -r)[p] = IF p = q THEN -r ELSE 0
      BY DEF Only
    <3>4. p = q => n = r
      BY <1>2
    <3> HIDE DEF stock, n, q, r
    <3>5. QED BY <1>1, <1>3, <2>1, <3>2, <3>3, <3>4
  <2>7. TrackedIn(batch, p) \in Nat
    <3> HIDE DEF S
    <3>1. QED BY <1>5, TrackedIsSum
  <2>8. TrackedIn(batch, p) <= stock
    BY DEF Within
  <2> HIDE DEF was, now, n, q, r, stock
  <2>9. TrackedIn(batch', p) = TrackedIn(batch, p) - IF p = q THEN n ELSE 0
    <3>1. TrackedIn(batch', p)
            = TrackedIn(batch, p) + (0 - IF p = q THEN n ELSE 0)
      BY Zenon, <2>3, <2>4, <2>5
    <3>2. QED BY <1>3, <2>7, <3>1
  <2>10. QED BY <1>3, <2>1, <2>6, <2>7, <2>8, <2>9
<1>7. QED BY <1>6 DEF Within

\* The invariant behind the theorem about batches.
TrackedInv ==
    /\ OrdersInv
    /\ BatchInv
    /\ TrackedWithinStock

\* No step lets the batches outgrow the stock.
LEMMA StepTracked == TrackedInv /\ [Next]_vars => TrackedInv'
<1> SUFFICES ASSUME TrackedInv, [Next]_vars PROVE TrackedInv'
  OBVIOUS
<1>1. OrdersInv /\ BatchInv /\ RowTypes
  BY DEF TrackedInv, OrdersInv, MoneyInv
<1>2. OrdersInv' /\ BatchInv' /\ stale \subseteq stale'
  BY <1>1, StepOrders, StepBatches, StaleGrows
<1>3. Within
  BY <1>1, WithinStock DEF TrackedInv
<1>4. ASSUME GoodsStay PROVE Within'
  BY <1>2, <1>3, <1>4 DEF Within, GoodsStay
<1>5. Within'
  <2>1. CASE UNCHANGED vars
    <3>1. GoodsStay
      BY <2>1 DEF vars, GoodsStay
    <3>2. QED BY <1>4, <3>1
  <2>2. CASE Next
    <3>1. PICK c \in Callers :
            \/ SingleStep \/ Lock(c) \/ Read(c) \/ LockedWrite(c) \/ Abort(c)
            \/ UnlockedWrite(c)
      BY <2>2 DEF Next
    <3>2. CASE GoodsMove
      BY <1>1, <1>2, <1>3, <3>2, MoveWithin
    <3>3. CASE GoodsCome
      BY <1>1, <1>2, <1>3, <3>3, ReceiveWithin
    <3>4. CASE WriteOff(c)
      BY <1>1, <1>2, <1>3, <3>4, WriteOffWithin
    <3>5. CASE \E b \in BatchIds, expiry \in Expiries : CreateBatch(c, b, expiry)
      BY <1>1, <1>2, <1>3, <3>5, CreateWithin
    <3>6. QED BY <1>1, <1>4, <3>1, <3>2, <3>3, <3>4, <3>5, GoodsOfStep
  <2>3. QED BY <2>1, <2>2
<1>6. QED BY <1>1, <1>2, <1>5, WithinStock DEF TrackedInv

\* At the start nothing is tracked.
LEMMA NothingTrackedFirst == Init => TrackedInv
<1> SUFFICES ASSUME Init PROVE TrackedInv
  OBVIOUS
<1>1. OrdersInv /\ BatchInv
  BY InitOrders, NoBatchesFirst
<1>2. ASSUME NEW p \in Products
      PROVE  TrackedIn(batch, p) <= product[p].stockQty
  <2> DEFINE f == Tracks(batch, BatchIds, p)
             S == Products \cup {None}
  <2>1. product[p].stockQty = InitialStock /\ InitialStock \in Nat
    BY BoundsAssumption DEF Init, BoundsAssumption
  <2>2. IsTable(batch, BatchIds, S) /\ IsFiniteSet(BatchIds)
    BY <1>1, BatchesAreTable, BatchIdsAssumption DEF BatchIdsAssumption
  <2>3. \A b \in BatchIds : f[b] = 0
    BY NoneAssumption DEF NoneAssumption, Init, NoBatch, Tracks
  <2>4. TrackedIn(batch, p) = SumFunctionOnSet(f, BatchIds)
    <3> HIDE DEF S
    <3>1. QED BY <2>2, SumOfTracks
  <2> HIDE DEF f
  <2>5. SumFunctionOnSet(f, BatchIds) = 0
    BY <2>2, <2>3, SumOfZeros
  <2>6. QED BY <2>1, <2>4, <2>5
<1>3. Within
  BY <1>2 DEF Within
<1>4. QED BY <1>1, <1>3, WithinStock DEF TrackedInv

\* Batches and stock stay in step.
THEOREM TrackedAlways == Spec => []TrackedInv
BY NothingTrackedFirst, StepTracked, PTL DEF Spec

\* The expiry batches of a product never hold more than its stock, through
\* every sale, return, supply, adjustment, new batch and write-off, but after
\* a batch was made of stock sold meanwhile or a batch was written off that had
\* changed meanwhile.
THEOREM TrackedAlwaysWithinStock == Spec => []TrackedWithinStock
<1>1. TrackedInv => TrackedWithinStock
  BY DEF TrackedInv
<1>2. QED BY <1>1, TrackedAlways, PTL

\* So no such product is ever sold below nothing, and none is written off
\* below nothing: what a write-off takes off the stock was in the batch.
THEOREM StockNeverNegative == Spec => []StockNotNegative
<1>1. TrackedInv => StockNotNegative
  <2> SUFFICES ASSUME TrackedInv, NEW p \in Products \ stale
               PROVE  product[p].stockQty >= 0
    BY DEF StockNotNegative
  <2>1. BatchInv /\ RowTypes /\ Within
    BY WithinStock DEF TrackedInv, OrdersInv, MoneyInv
  <2>2. TrackedIn(batch, p) \in Nat
    <3>1. IsTable(batch, BatchIds, Products \cup {None})
      BY <2>1, BatchesAreTable
    <3>2. QED BY <3>1, TrackedIsSum
  <2>3. product[p].stockQty \in Int
    BY <2>1 DEF RowTypes, ProductRow
  <2>4. TrackedIn(batch, p) <= product[p].stockQty
    BY <2>1 DEF Within
  <2>5. QED BY <2>2, <2>3, <2>4
<1>2. QED BY <1>1, TrackedAlways, PTL

-----------------------------------------------------------------------------
(* What an order holds and what was moved for it.                          *)

\* The step moves for order o what the order then holds less or more.
Accounted(o) ==
    \A p \in Products :
        moved'[o][p] + Held(o, p)' = moved[o][p] + Held(o, p)

\* What an order holds is a number.
LEMMA HeldIsWhole ==
    ASSUME RowTypes, NEW o \in OrderIds, NEW p \in Products
    PROVE  /\ moved[o][p] \in Int /\ Held(o, p) \in Int
           /\ item[o][p] \in ItemRow
           /\ item[o][p].qty \in Nat /\ item[o][p].restocked \in Nat
<1>1. item[o][p] \in ItemRow /\ moved[o] \in [Products -> Int]
  BY DEF RowTypes
<1>2. item[o][p].qty \in Nat /\ item[o][p].restocked \in Nat
  BY <1>1 DEF ItemRow
<1>3. QED BY <1>1, <1>2 DEF Held

\* An order that keeps its lines, its movements and its life is balanced.
LEMMA StaysBalanced ==
    ASSUME RowTypes, NEW o \in OrderIds, item'[o] = item[o],
           moved'[o] = moved[o],
           order'[o].orderStatus \in {"ABSENT", "CANCELLED"}
             <=> order[o].orderStatus \in {"ABSENT", "CANCELLED"}
    PROVE  Accounted(o)
<1>1. ASSUME NEW p \in Products PROVE Held(o, p)' = Held(o, p)
  BY DEF Held, Live
<1>2. QED BY <1>1 DEF Accounted

\* Goods that move for one order are counted with it alone.
LEMMA MovedFor ==
    ASSUME RowTypes, NEW o \in OrderIds, NEW delta, MoveForOrder(o, delta)
    PROVE  /\ \A x \in OrderIds \ {o} : moved'[x] = moved[x]
           /\ \A p \in Products : moved'[o][p] = moved[o][p] + delta[p]
<1>1. /\ moved' = [moved EXCEPT ![o] = [p \in Products |-> moved[o][p] + delta[p]]]
      /\ moved \in [OrderIds -> [Products -> Int]]
  BY DEF MoveForOrder, RowTypes
<1>2. QED BY <1>1

\* An order that is placed holds what leaves the shelf.
LEMMA CreateBalanced ==
    ASSUME DeskInv, NEW o \in OrderIds, NEW want \in Baskets,
           \/ CreateOrder(o, want)
           \/ \E i \in PaymentIds : CreatePaidOrder(o, want, i),
           NEW x \in OrderIds
    PROVE  Accounted(x)
<1>1. MoneyInv /\ RowTypes
  BY DEF DeskInv, OrdersInv, MoneyInv
<1>2. /\ ~Exists(o)
      /\ \A y \in OrderIds \ {o} : order'[y] = order[y] /\ item'[y] = item[y]
      /\ item'[o] = NewLines(want)
      /\ order'[o].orderStatus = "NEW"
  BY <1>1, CreateWrites
<1>3. MoveForOrder(o, [q \in Products |-> -want[q]])
  BY DEF CreateOrder, CreatePaidOrder, PlaceOrder
<1>4. CASE x # o
  BY <1>1, <1>2, <1>3, <1>4, MovedFor, StaysBalanced
<1>5. ASSUME NEW p \in Products
      PROVE  moved'[o][p] + Held(o, p)' = moved[o][p] + Held(o, p)
  <2>1. want[p] \in Nat
    BY DEF Baskets, Quantities
  <2>2. moved'[o][p] = moved[o][p] + (-want[p]) /\ moved[o][p] \in Int
    BY <1>1, <1>3, MovedFor, HeldIsWhole
  <2>3. Held(o, p) = 0
    BY <1>2 DEF Held, Live, Exists
  <2>4. NewLines(want)[p].qty = want[p] /\ NewLines(want)[p].restocked = 0
    BY <2>1 DEF NewLines, NoItem
  <2>5. Held(o, p)' = want[p]
    BY <1>2, <2>1, <2>4 DEF Held, Live
  <2>6. QED BY <2>1, <2>2, <2>3, <2>5
<1>6. QED BY <1>4, <1>5 DEF Accounted

\* An order without returns has nothing back on the shelf.
LEMMA NothingRestocked ==
    ASSUME DeskInv, NEW o \in OrderIds, NEW p \in Products,
           item[o][p].returned = 0
    PROVE  item[o][p].restocked = 0 /\ item[o][p].qty \in Nat
<1>1. item[o][p] \in ItemRow
  BY DEF DeskInv, OrdersInv, MoneyInv, RowTypes
<1>2. item[o][p].restocked <= item[o][p].returned
  BY DEF DeskInv, OrdersInv, ReturnsWithinLines
<1>3. QED BY <1>1, <1>2 DEF ItemRow

\* An edit gives back what the order held more than it wants now.
LEMMA UpdateBalanced ==
    ASSUME DeskInv, NEW c \in Callers, NEW want \in Baskets,
           UpdateOrder(c, want), NEW x \in OrderIds
    PROVE  Accounted(x)
<1> DEFINE o == call[c].order
           lines == EditedLines(item[o], want)
<1>1. MoneyInv /\ RowTypes
  BY DEF DeskInv, OrdersInv, MoneyInv
<1>2. /\ o \in OrderIds
      /\ \A y \in OrderIds \ {o} : order'[y] = order[y] /\ item'[y] = item[y]
      /\ SamePlace(o)
      /\ item'[o] = lines
      /\ MayEdit(order[o], item[o])
  BY <1>1, UpdateWrites
<1>3. call[c].item = item[o]
  BY <1>1, UnderLock DEF UpdateOrder, LockingOps
<1>4. MoveForOrder(o, [q \in Products |-> call[c].item[q].qty - want[q]])
  BY DEF UpdateOrder
<1> HIDE DEF o, lines
<1>5. CASE x # o
  BY <1>1, <1>2, <1>4, <1>5, MovedFor, StaysBalanced
<1>6. order[o].orderStatus \notin {"ABSENT", "CANCELLED"}
  BY <1>2 DEF MayEdit, EDITABLE
<1>7. order'[o].orderStatus \notin {"ABSENT", "CANCELLED"}
  BY <1>2, <1>6 DEF SamePlace
<1>8. ASSUME x = o, NEW p \in Products
      PROVE  moved'[x][p] + Held(x, p)' = moved[x][p] + Held(x, p)
  <2>1. want[p] \in Nat
    BY DEF Baskets, Quantities
  <2>2. item[o][p].returned = 0
    BY <1>2 DEF MayEdit
  <2>3. item[o][p].restocked = 0 /\ item[o][p].qty \in Nat
    BY <1>2, <2>2, NothingRestocked
  <2>4. /\ moved'[o][p] = moved[o][p] + (item[o][p].qty - want[p])
        /\ moved[o][p] \in Int
    BY <1>1, <1>2, <1>3, <1>4, MovedFor, HeldIsWhole
  <2>5. Held(x, p) = item[o][p].qty
    BY <1>6, <1>8, <2>3 DEF Held, Live
  <2>6. lines[p].qty = want[p] /\ lines[p].restocked = 0
    <3>1. item[o][p] \in ItemRow
      BY <1>1, <1>2, HeldIsWhole
    <3>2. QED BY <2>1, <2>3, <3>1 DEF lines, EditedLines, NoItem, ItemRow
  <2>7. Held(x, p)' = want[p]
    BY <1>2, <1>7, <1>8, <2>1, <2>6 DEF Held, Live
  <2>8. QED BY <1>8, <2>1, <2>3, <2>4, <2>5, <2>7
<1>9. QED BY <1>5, <1>8 DEF Accounted

\* A cancel gives back all that the order held, if it is still the order that
\* was read.
LEMMA CancelBalanced ==
    ASSUME DeskInv, NEW c \in Callers, Cancel(c), stale \subseteq stale',
           NEW x \in OrderIds, x \notin stale'
    PROVE  Accounted(x)
<1> DEFINE o == call[c].order
<1>1. MoneyInv /\ RowTypes
  BY DEF DeskInv, OrdersInv, MoneyInv
<1>2. call[c].op = "cancel" /\ o \in OrderIds
  BY <1>1, CallTypes DEF Cancel
<1>3. o \notin stale' => MayCancel(o) /\ SameLines(c, o)
  BY StillChecked
<1>4. MoveForOrder(o, [q \in Products |-> call[c].item[q].qty]) /\ item' = item
  BY DEF Cancel
<1>5. order' = [order EXCEPT ![o].orderStatus = "CANCELLED",
                             ![o].assignedDriver = None,
                             ![o].deliveryStatus = "PENDING"]
  BY DEF Cancel
<1> HIDE DEF o
<1>6. order[o] \in OrderRow /\ order \in [OrderIds -> OrderRow]
  BY <1>1, <1>2 DEF RowTypes
<1>7. CASE x # o
  <2>1. order'[x] = order[x]
    BY <1>5, <1>6, <1>7
  <2>2. QED BY <1>1, <1>2, <1>4, <1>7, <2>1, MovedFor, StaysBalanced
<1>8. CASE x = o
  <2>1. MayCancel(o) /\ SameLines(c, o)
    BY <1>3, <1>8
  <2>2. order[o].orderStatus \in EDITABLE /\ order[o].orderStatus # "READY"
    <3>1. order[o].orderStatus \in OrderStatus /\ MayMove(o, "CANCELLED")
      BY <1>6, <2>1 DEF OrderRow, MayCancel
    <3>2. QED BY <1>2, <3>1, Transitions
  <2>3. order[o].returnState = "NONE"
    BY <1>2, <1>8, <2>2 DEF DeskInv, ReturnedWentOut, EDITABLE
  <2>4. order'[o].orderStatus = "CANCELLED"
    BY <1>2, <1>5, <1>6 DEF OrderRow
  <2>5. ASSUME NEW p \in Products
        PROVE  moved'[x][p] + Held(x, p)' = moved[x][p] + Held(x, p)
    <3>1. item[o][p].returned = 0
      BY <1>2, <2>3 DEF DeskInv, OrdersInv, ReturnsWithinLines
    <3>2. item[o][p].restocked = 0 /\ item[o][p].qty \in Nat
      BY <1>2, <3>1, NothingRestocked
    <3>3. /\ moved'[o][p] = moved[o][p] + item[o][p].qty
          /\ moved[o][p] \in Int
      BY <1>1, <1>2, <1>4, <2>1, MovedFor, HeldIsWhole DEF SameLines
    <3>4. Held(x, p) = item[o][p].qty
      BY <1>8, <2>2, <3>2 DEF Held, Live, EDITABLE
    <3>5. Held(x, p)' = 0
      BY <1>8, <2>4 DEF Held, Live
    <3>6. QED BY <1>8, <3>2, <3>3, <3>4, <3>5
  <2>6. QED BY <2>5 DEF Accounted
<1>9. QED BY <1>7, <1>8

\* A return leaves its order where it is and the others alone.
LEMMA ReturnPlaces ==
    ASSUME DeskInv, NEW c \in Callers, NEW back, NEW restock \in BOOLEAN,
           NEW asked, NEW exclude \in BOOLEAN,
           CreateReturn(c, back, restock, asked, exclude)
    PROVE  LET o == call[c].order
           IN  /\ o \in OrderIds /\ SamePlace(o) /\ Finished(order[o])
               /\ \A x \in OrderIds \ {o} :
                     order'[x] = order[x] /\ item'[x] = item[x]
<1> DEFINE o == call[c].order
           refund == Refund(order[o], item[o], back, asked)
<1>1. MoneyInv
  BY DEF DeskInv, OrdersInv
<1>2. /\ o \in OrderIds
      /\ \A y \in OrderIds \ {o} : order'[y] = order[y] /\ item'[y] = item[y]
      /\ SamePlace(o)
      /\ order'[o].returnState = ReturnStateAfter(item[o], back)
      /\ order'[o].excludeFromPayroll = (order[o].excludeFromPayroll \/ exclude)
      /\ ledger' = [ledger EXCEPT ![o].refund = @ + refund]
      /\ Finished(order[o]) /\ (exclude => order[o].payout = None)
  BY <1>1, ReturnWrites
<1>3. QED BY <1>2

\* A return gives back what it puts on the shelf again.
LEMMA ReturnBalanced ==
    ASSUME DeskInv, NEW c \in Callers, NEW back \in Baskets,
           NEW restock \in BOOLEAN, NEW asked, NEW exclude \in BOOLEAN,
           CreateReturn(c, back, restock, asked, exclude),
           stale \subseteq stale', NEW x \in OrderIds, x \notin stale'
    PROVE  Accounted(x)
<1> DEFINE o == call[c].order
           delta == [q \in Products |-> IF restock THEN back[q] ELSE 0]
<1>1. MoneyInv /\ RowTypes
  BY DEF DeskInv, OrdersInv, MoneyInv
<1>2. /\ o \in OrderIds
      /\ \A y \in OrderIds \ {o} : order'[y] = order[y] /\ item'[y] = item[y]
      /\ SamePlace(o)
      /\ item'[o] = ReturnedLines(item[o], back, restock)
      /\ Finished(order[o])
  <2>1. /\ o \in OrderIds /\ SamePlace(o) /\ Finished(order[o])
        /\ \A y \in OrderIds \ {o} : order'[y] = order[y] /\ item'[y] = item[y]
    BY ReturnPlaces
  <2>2. call[c].item = item[o]
    BY <1>1, UnderLock DEF CreateReturn, LockingOps
  <2>3. item' = [item EXCEPT ![o] = ReturnedLines(call[c].item, back, restock)]
    BY DEF CreateReturn
  <2>4. item'[o] = ReturnedLines(item[o], back, restock)
    BY <1>1, <2>1, <2>2, <2>3 DEF RowTypes
  <2>5. QED BY <2>1, <2>4
<1>3. MoveForOrder(o, delta)
  BY DEF CreateReturn
<1>4. ASSUME NEW p \in Products
      PROVE  delta[p] = (IF restock THEN back[p] ELSE 0) /\ delta[p] \in Int
  BY DEF Baskets, Quantities
<1> HIDE DEF o, delta
<1>5. CASE x # o
  BY <1>1, <1>2, <1>3, <1>5, MovedFor, StaysBalanced
<1>6. CASE x = o
  <2>1. order[o].orderStatus = "COMPLETED"
    BY <1>2, <1>6 DEF Finished, DeskInv, DeliveryConsistent
  <2>2. order'[o].orderStatus = "COMPLETED"
    BY <1>2, <2>1 DEF SamePlace
  <2>3. ASSUME NEW p \in Products
        PROVE  moved'[x][p] + Held(x, p)' = moved[x][p] + Held(x, p)
    <3> DEFINE line == item[o][p]
    <3>1. /\ line \in ItemRow /\ line.qty \in Nat /\ line.restocked \in Nat
          /\ moved[o][p] \in Int
      BY <1>1, <1>2, HeldIsWhole
    <3>2. moved'[o][p] = moved[o][p] + delta[p]
      BY <1>1, <1>2, <1>3, MovedFor
    <3>3. Held(x, p) = line.qty - line.restocked
      BY <1>6, <2>1 DEF Held, Live
    <3>4. item'[o][p] = [line EXCEPT !.returned = @ + back[p],
                                     !.restocked = @ + delta[p]]
      <4>1. delta[p] = IF restock THEN back[p] ELSE 0
        BY <1>4
      <4>2. ReturnedLines(item[o], back, restock)[p]
              = [line EXCEPT !.returned = @ + back[p],
                             !.restocked = @ + (IF restock THEN back[p] ELSE 0)]
        BY DEF ReturnedLines
      <4>3. QED BY Zenon, <1>2, <4>1, <4>2
    <3> HIDE DEF line
    <3>5. /\ item'[o][p].qty = line.qty
          /\ item'[o][p].restocked = line.restocked + delta[p]
      BY <3>1, <3>4 DEF ItemRow
    <3>6. Held(x, p)' = line.qty - (line.restocked + delta[p])
      BY <1>6, <2>2, <3>5 DEF Held, Live
    <3>7. delta[p] \in Int
      BY <1>4
    <3>8. QED BY <1>6, <3>1, <3>2, <3>3, <3>6, <3>7
  <2>4. QED BY <2>3 DEF Accounted
<1>7. QED BY <1>5, <1>6

\* The handlers of desk and drivers that move no goods leave a live order
\* alive, if their check still holds.
LEMMA MovesBalanced ==
    ASSUME DeskInv, NEW c \in Callers, stale \subseteq stale',
           \/ UpdateStatus(c) \/ AssignDriver(c) \/ Start(c)
           \/ CompleteDelivered(c) \/ CompleteFailed(c),
           NEW x \in OrderIds, x \notin stale'
    PROVE  Accounted(x)
<1> DEFINE o == call[c].order
<1>1. MoneyInv /\ RowTypes
  BY DEF DeskInv, OrdersInv, MoneyInv
<1>2. order \in [OrderIds -> OrderRow] /\ o \in OrderIds
  <2>1. o \in OrderIds
    BY <1>1, CallTypes DEF UpdateStatus, AssignDriver, Start, CompleteDelivered,
                           CompleteFailed
  <2>2. QED BY <1>1, <2>1 DEF RowTypes
<1>3. item' = item /\ moved' = moved
  BY DEF UpdateStatus, AssignDriver, Start, CompleteDelivered, CompleteFailed
<1>4. ASSUME order'[x].orderStatus \in {"ABSENT", "CANCELLED"}
               <=> order[x].orderStatus \in {"ABSENT", "CANCELLED"}
      PROVE  Accounted(x)
  BY <1>1, <1>3, <1>4, StaysBalanced
<1>5. CASE UpdateStatus(c)
  <2>1. call[c].to \in OrderStatus \ {"ABSENT", "CANCELLED"}
    BY <1>1, <1>5, CallTypes DEF UpdateStatus
  <2>2. order' = [order EXCEPT ![o].orderStatus = call[c].to]
    BY <1>5 DEF UpdateStatus
  <2>3. o \notin stale' => MayMove(o, call[c].to)
    BY <1>5, StillChecked
  <2> HIDE DEF o
  <2>4. CASE x = o
    <3>1. order[o].orderStatus \in EDITABLE
      BY <1>2, <2>1, <2>3, <2>4, Transitions DEF OrderRow
    <3>2. order'[o].orderStatus = call[c].to
      BY <1>2, <2>2 DEF OrderRow
    <3>3. QED BY <1>4, <2>1, <2>4, <3>1, <3>2 DEF EDITABLE
  <2>5. CASE x # o
    <3>1. order'[x] = order[x]
      BY <1>2, <2>2, <2>5
    <3>2. QED BY <1>4, <3>1
  <2>6. QED BY <2>4, <2>5
<1>6. CASE AssignDriver(c) \/ Start(c) \/ CompleteFailed(c)
  <2>1. order'[x].orderStatus = order[x].orderStatus
    BY <1>2, <1>6 DEF AssignDriver, Start, CompleteFailed, OrderRow
  <2>2. QED BY <1>4, <2>1
<1>7. CASE CompleteDelivered(c)
  <2>1. call[c].op = "deliver" /\ call[c].driver \in Drivers
    BY <1>1, <1>7, CallTypes DEF CompleteDelivered
  <2>2. o \notin stale' => MayComplete(o, call[c].driver)
    BY <1>7, StillChecked
  <2>3. order' = [order EXCEPT ![o].orderStatus = "COMPLETED",
                               ![o].deliveryStatus = "DELIVERED"]
    BY <1>7 DEF CompleteDelivered
  <2>4. order[o].orderStatus # "ABSENT"
    BY <1>2, <2>1 DEF DeskInv, OrdersInv, CallsKnown, Known, Exists
  <2> HIDE DEF o
  <2>5. CASE x = o
    <3>1. order[o].assignedDriver # None
      BY <2>1, <2>2, <2>5, NoneAssumption DEF MayComplete, NoneAssumption
    <3>2. order[o].orderStatus # "CANCELLED"
      BY <1>2, <2>5, <3>1 DEF DeskInv, CancelledAtRest
    <3>3. order'[o].orderStatus = "COMPLETED"
      BY <1>2, <2>3 DEF OrderRow
    <3>4. QED BY <1>4, <2>4, <2>5, <3>2, <3>3
  <2>6. CASE x # o
    <3>1. order'[x] = order[x]
      BY <1>2, <2>3, <2>6
    <3>2. QED BY <1>4, <3>1
  <2>7. QED BY <2>5, <2>6
<1>8. QED BY <1>5, <1>6, <1>7

\* A sheet takes up live orders, but for those it revives.
LEMMA HandoverBalanced ==
    ASSUME DeskInv, NEW c \in Callers, NEW h \in HandoverIds,
           CreateHandover(c, h), NEW x \in OrderIds, x \notin revived'
    PROVE  Accounted(x)
<1>1. RowTypes /\ order[x] \in OrderRow
  BY DEF DeskInv, OrdersInv, MoneyInv, RowTypes
<1>2. item' = item /\ moved' = moved
  BY DEF CreateHandover
<1>3. order'[x] = IF x \notin call[c].orders THEN order[x]
                  ELSE [order[x] EXCEPT !.handover = h,
                                        !.orderStatus = "READY",
                                        !.assignedDriver = call[c].driver,
                                        !.deliveryStatus = "ASSIGNED"]
  BY DEF CreateHandover
<1>4. CASE x \in call[c].orders
  <2>1. order[x].orderStatus # "CANCELLED"
    BY <1>4 DEF CreateHandover
  <2>2. order[x].orderStatus # "ABSENT"
    BY <1>4 DEF CreateHandover, DeskInv, OrdersInv, CallsKnown, Known, Exists
  <2>3. order'[x].orderStatus = "READY"
    BY <1>1, <1>3, <1>4 DEF OrderRow
  <2>4. QED BY <1>1, <1>2, <2>1, <2>2, <2>3, StaysBalanced
<1>5. CASE x \notin call[c].orders
  BY <1>1, <1>2, <1>3, <1>5, StaysBalanced
<1>6. QED BY <1>4, <1>5

\* Every step of every handler leaves the orders balanced that are neither
\* written on a stale check nor cancelled and taken up again.
LEMMA StepBalanced ==
    ASSUME DeskInv, [Next]_vars,
           NEW x \in OrderIds, x \notin stale', x \notin revived'
    PROVE  Accounted(x)
<1>1. RowTypes /\ stale \subseteq stale'
  BY StaleGrows DEF DeskInv, OrdersInv, MoneyInv
<1>2. x \in OrderIds /\ x \notin stale' /\ x \notin revived'
  OBVIOUS
<1>3. ASSUME UNCHANGED <<order, item, moved>> PROVE Accounted(x)
  BY <1>1, <1>2, <1>3, StaysBalanced
<1>4. CASE UNCHANGED vars
  BY <1>3, <1>4 DEF vars
<1>5. ASSUME SingleStep PROVE Accounted(x)
  <2>1. ASSUME NEW o \in OrderIds, NEW want \in Baskets,
               \/ CreateOrder(o, want)
               \/ \E i \in PaymentIds : CreatePaidOrder(o, want, i)
        PROVE  Accounted(x)
    BY <1>2, <2>1, CreateBalanced
  <2>2. CASE \/ \E p \in Products, qty \in -MaxQty..MaxQty : AdjustStock(p, qty)
             \/ \E p \in Products, price \in Prices, on \in BOOLEAN :
                   EditProduct(p, price, on)
             \/ \E p \in Products, qty \in 1..MaxQty : ReceiveLine(p, qty)
             \/ \E y \in PayoutIds : PayrollPay(y)
    <3>1. UNCHANGED <<order, item, moved>>
      BY <2>2 DEF AdjustStock, EditProduct, ReceiveLine, PayrollPay
    <3>2. QED BY <1>3, <3>1
  <2>3. QED BY <1>5, <2>1, <2>2 DEF SingleStep, ReceiveUndated, ReceiveDated
<1>6. ASSUME NEW c \in Callers, Lock(c) \/ Read(c) \/ Abort(c)
      PROVE  Accounted(x)
  <2>1. UNCHANGED <<order, item, moved>>
    BY <1>6 DEF Lock, UpdateOrderLock, AddPaymentLock, ReturnLock,
             DeletePaymentLock, Read, UpdateStatusRead, CancelRead,
             DeletePaymentFind, AssignDriverRead, StartRead, CompleteRead,
             CreateHandoverRead, PayrollCloseRead, CreateBatchReadStock,
             CreateBatchReadTracked, WriteOffRead, Abort
  <2>2. QED BY <1>3, <2>1
<1>7. ASSUME NEW c \in Callers, LockedWrite(c) PROVE Accounted(x)
  <2>1. ASSUME NEW want \in Baskets, UpdateOrder(c, want) PROVE Accounted(x)
    BY <1>2, <2>1, UpdateBalanced
  <2>2. ASSUME NEW back \in Baskets, NEW restock \in BOOLEAN,
               NEW asked \in BOOLEAN, NEW exclude \in BOOLEAN,
               CreateReturn(c, back, restock, asked, exclude)
        PROVE  Accounted(x)
    BY <1>1, <1>2, <2>2, ReturnBalanced
  <2>3. ASSUME \/ \E i \in PaymentIds, amount \in Amount :
                     AddPayment(c, i, amount)
               \/ DeletePayment(c)
        PROVE  Accounted(x)
    <3>1. UNCHANGED <<item, moved>> /\ call[c].op \in LockingOps
      BY <2>3 DEF AddPayment, DeletePayment, LockingOps
    <3>2. \E paid : SetPaid(call[c].order, call[c].row, paid)
      BY <2>3 DEF AddPayment, DeletePayment
    <3>3. order'[x].orderStatus = order[x].orderStatus
      BY <1>2, <3>1, <3>2, SetPaidWrites DEF DeskInv, OrdersInv, SamePlace
    <3>4. QED BY <1>1, <1>2, <3>1, <3>3, StaysBalanced
  <2>4. QED BY <1>7, <2>1, <2>2, <2>3 DEF LockedWrite
<1>8. ASSUME NEW c \in Callers, UnlockedWrite(c) PROVE Accounted(x)
  <2>1. CASE \/ UpdateStatus(c) \/ AssignDriver(c) \/ Start(c)
             \/ CompleteDelivered(c) \/ CompleteFailed(c)
    BY <1>1, <1>2, <1>8, <2>1, MovesBalanced
  <2>2. CASE Cancel(c)
    BY <1>1, <1>2, <1>8, <2>2, CancelBalanced
  <2>3. ASSUME NEW h \in HandoverIds, CreateHandover(c, h)
        PROVE  Accounted(x)
    BY <1>2, <1>8, <2>3, HandoverBalanced
  <2>4. ASSUME NEW y \in PayoutIds, PayrollClose(c, y)
        PROVE  Accounted(x)
    <3>1. UNCHANGED <<item, moved>>
      BY <2>4 DEF PayrollClose
    <3>2. \/ order'[x] = order[x]
          \/ order'[x] = [order[x] EXCEPT !.payout = y]
      BY <1>2, <2>4 DEF PayrollClose
    <3>3. order'[x].orderStatus = order[x].orderStatus
      <4>1. order[x] \in OrderRow
        BY <1>1, <1>2 DEF RowTypes
      <4>2. QED BY <3>2, <4>1 DEF OrderRow
    <3>4. QED BY <1>1, <1>2, <3>1, <3>3, StaysBalanced
  <2>5. CASE \/ \E b \in BatchIds, expiry \in Expiries :
                   CreateBatch(c, b, expiry)
             \/ WriteOff(c)
    BY <1>3, <2>5 DEF CreateBatch, WriteOff
  <2>6. QED BY <1>8, <2>1, <2>2, <2>3, <2>4, <2>5 DEF UnlockedWrite
<1>9. QED BY <1>4, <1>5, <1>6, <1>7, <1>8 DEF Next

\* The invariant behind the theorem about goods.
HeldInv == DeskInv /\ GoodsAccountedFor

\* Nothing is held before the first order.
LEMMA NothingHeldFirst == Init => HeldInv
<1> SUFFICES ASSUME Init PROVE HeldInv
  OBVIOUS
<1>1. DeskInv
  BY InitDesk
<1>2. ASSUME NEW o \in OrderIds, NEW p \in Products
      PROVE  moved[o][p] = -Held(o, p)
  <2>1. order[o] = NoOrder
    BY DEF Init
  <2>2. Held(o, p) = 0 /\ moved[o][p] = 0
    BY <2>1 DEF Init, NoOrder, Held, Live
  <2>3. /\ Held(o, p) \in Int /\ moved[o][p] \in Int
        /\ moved[o][p] + Held(o, p) = 0
    BY <2>2
  <2>4. \A m, n \in Int : m + n = 0 => m = -n
    OBVIOUS
  <2>5. QED BY Zenon, <2>3, <2>4
<1>3. QED BY <1>1, <1>2 DEF HeldInv, GoodsAccountedFor

\* Every piece that left for an order is with it or back on the shelf, once,
\* whatever requests come together: but for orders that were written on a check
\* that had ceased to hold, and for cancelled ones that a sheet took up.
THEOREM GoodsAlwaysAccountedFor == Spec => []GoodsAccountedFor
<1>1. HeldInv /\ [Next]_vars => HeldInv'
  <2> SUFFICES ASSUME HeldInv, [Next]_vars PROVE HeldInv'
    OBVIOUS
  <2>1. DeskInv /\ DeskInv'
    BY StepDesk DEF HeldInv
  <2>2. ASSUME NEW o \in OrderIds \ (stale' \cup revived'), NEW p \in Products
        PROVE  moved'[o][p] = -Held(o, p)'
    <3>1. RowTypes /\ RowTypes'
      BY <2>1 DEF DeskInv, OrdersInv, MoneyInv
    <3>2. moved[o][p] = -Held(o, p)
      BY StaleGrows DEF HeldInv, GoodsAccountedFor
    <3>3. moved'[o][p] + Held(o, p)' = moved[o][p] + Held(o, p)
      BY <2>1, StepBalanced DEF Accounted
    <3>4. moved[o][p] \in Int /\ Held(o, p) \in Int
      BY <3>1, HeldIsWhole
    <3>5. moved'[o][p] \in Int /\ Held(o, p)' \in Int
      <4>1. moved' \in [OrderIds -> [Products -> Int]]
            /\ item' \in [OrderIds -> [Products -> ItemRow]]
        BY <3>1 DEF RowTypes
      <4>2. item'[o][p].qty \in Nat /\ item'[o][p].restocked \in Nat
        BY <4>1 DEF ItemRow
      <4>3. QED BY <4>1, <4>2 DEF Held, Live
    <3>6. \A a, b, m, n \in Int : a + b = m + n /\ m = -n => a = -b
      OBVIOUS
    <3>7. QED BY Zenon, <3>2, <3>3, <3>4, <3>5, <3>6
  <2>3. GoodsAccountedFor'
    BY <2>2 DEF GoodsAccountedFor
  <2>4. QED BY <2>1, <2>3 DEF HeldInv
<1>2. HeldInv => GoodsAccountedFor
  BY DEF HeldInv
<1>3. QED BY <1>1, <1>2, NothingHeldFirst, PTL DEF Spec
=============================================================================
