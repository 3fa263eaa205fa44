---------------------------- MODULE OrderProofs -----------------------------
(***************************************************************************)
(* What holds of orders besides their balance, under any interleaving of   *)
(* any number of requests: payments add up, totals match lines, returns    *)
(* stay within lines, prices stay, and the shop implements PaymentAccount. *)
(* The sums of the model are folds; the first part proves what is needed of*)
(* them.  The last parts are about desk, drivers and payroll, which check  *)
(* without a lock: what such a check does not protect is in `stale'.       *)
(***************************************************************************)
EXTENDS ShopProofs

USE OrderIdsAssumption, ProductsAssumption, PaymentIdsAssumption
    DEF OrderIdsAssumption, ProductsAssumption, PaymentIdsAssumption

-----------------------------------------------------------------------------
(* Sums *)

\* What the fold takes from a set.
Pick(s) == CHOOSE x \in s : TRUE

\* One turn of the fold, from a table g of the sums of smaller sets.
SumTurn(f, g, s) == IF s = {} THEN 0 ELSE f[Pick(s)] + g[s \ {Pick(s)}]

\* g holds the sums of f over every subset of S.
SumTable(f, g, S) == g = [s \in SUBSET S |-> SumTurn(f, g, s)]

\* A sum is read off a table of the sums of all subsets.
LEMMA SumOfTable ==
    ASSUME NEW f, NEW S
    PROVE  SumFunctionOnSet(f, S) = (CHOOSE g : SumTable(f, g, S))[S]
BY Zenon DEF SumFunctionOnSet, FoldFunctionOnSet, MapThenFoldSet, SumTable,
             SumTurn, Pick

\* Induction over finite sets: of any subsets of one, some has no other below
\* it.
LEMMA LeastSubset ==
    ASSUME NEW S, IsFiniteSet(S), NEW B \in SUBSET SUBSET S, B # {}
    PROVE  \E T \in B : \A U \in B : U \subseteq T => U = T
<1> DEFINE R == StrictSubsetOrdering(S)
<1>1. IsWellFoundedOn(R, SUBSET S)
  BY FS_StrictSubsetOrderingWellFounded, FS_FiniteSubsetsOfFinite
<1>2. PICK T \in B : \A U \in B : ~ (<<U, T>> \in R)
  <2> HIDE DEF R
  <2>1. QED BY <1>1, WFMin
<1>3. QED BY <1>2 DEF StrictSubsetOrdering

\* What is picked from a set is in it.
LEMMA PickIn == ASSUME NEW s, s # {} PROVE Pick(s) \in s
BY DEF Pick

\* Tables of equal values agree wherever both are defined.
LEMMA TablesAgree ==
    ASSUME NEW S, IsFiniteSet(S), NEW T, S \subseteq T, NEW f, NEW e,
           \A x \in S : f[x] = e[x],
           NEW g, NEW h, SumTable(f, g, S), SumTable(e, h, T)
    PROVE  \A s \in SUBSET S : g[s] = h[s]
<1> DEFINE B == {s \in SUBSET S : g[s] # h[s]}
<1> SUFFICES ASSUME B # {} PROVE FALSE
  OBVIOUS
<1>1. PICK s \in B : \A u \in B : u \subseteq s => u = s
  <2>1. B \in SUBSET SUBSET S
    OBVIOUS
  <2> HIDE DEF B
  <2>2. QED BY <2>1, LeastSubset
<1>2. g[s] = SumTurn(f, g, s) /\ h[s] = SumTurn(e, h, s)
  <2>1. s \in SUBSET S /\ s \in SUBSET T
    BY <1>1
  <2>2. g = [t \in SUBSET S |-> SumTurn(f, g, t)]
    BY Zenon DEF SumTable
  <2>3. h = [t \in SUBSET T |-> SumTurn(e, h, t)]
    BY Zenon DEF SumTable
  <2>a. g[s] = [t \in SUBSET S |-> SumTurn(f, g, t)][s]
    BY Zenon, <2>2
  <2>b. h[s] = [t \in SUBSET T |-> SumTurn(e, h, t)][s]
    BY Zenon, <2>3
  <2>4. QED BY Zenon, <2>1, <2>a, <2>b
<1>3. s # {}
  BY <1>1, <1>2 DEF SumTurn
<1>4. Pick(s) \in s
  BY <1>3, PickIn
<1>5. g[s \ {Pick(s)}] = h[s \ {Pick(s)}]
  BY <1>1, <1>4
<1>6. f[Pick(s)] = e[Pick(s)]
  BY <1>1, <1>4
<1>7. QED BY <1>1, <1>2, <1>3, <1>5, <1>6 DEF SumTurn

\* Every function has such a table on every finite set.
LEMMA SumHasTable ==
    ASSUME NEW S, IsFiniteSet(S), NEW f
    PROVE  \E g : SumTable(f, g, S)
<1> DEFINE B == {T \in SUBSET S : ~ \E g : SumTable(f, g, T)}
<1> SUFFICES ASSUME B # {} PROVE FALSE
  OBVIOUS
<1>1. PICK T \in B : \A U \in B : U \subseteq T => U = T
  <2>1. B \in SUBSET SUBSET S
    OBVIOUS
  <2> HIDE DEF B
  <2>2. QED BY <2>1, LeastSubset
<1> DEFINE table(s) == CHOOSE g : SumTable(f, g, s)
           sum(s) == table(s)[s]
           full == f[Pick(T)] + sum(T \ {Pick(T)})
           g == [s \in SUBSET T |-> IF s = {} THEN 0
                                  ELSE IF s = T THEN full ELSE sum(s)]
<1>2. ASSUME NEW s \in SUBSET T, s # T
      PROVE  SumTable(f, table(s), s)
  <2>1. \E h : SumTable(f, h, s)
    BY <1>1, <1>2
  <2>2. QED BY Zenon, <2>1
<1>3. ASSUME NEW s \in SUBSET T, s # T, s # {}
      PROVE  sum(s) = f[Pick(s)] + sum(s \ {Pick(s)})
  <2>1. SumTable(f, table(s), s)
    BY <1>2, <1>3
  <2>2. Pick(s) \in s
    BY <1>3, PickIn
  <2> DEFINE u == s \ {Pick(s)}
  <2>3. u \in SUBSET T /\ u # T /\ u \subseteq s
    BY <1>3, <2>2
  <2>4. SumTable(f, table(u), u)
    BY <1>2, <2>3
  <2>5. IsFiniteSet(u)
    BY <1>1, <2>3, FS_Subset
  <2> HIDE DEF table, u
  <2>6. table(u)[u] = table(s)[u]
    BY <2>1, <2>3, <2>4, <2>5, TablesAgree
  <2>7. table(s)[s] = SumTurn(f, table(s), s)
    <3>1. table(s) = [t \in SUBSET s |-> SumTurn(f, table(s), t)]
      BY Zenon, <2>1 DEF SumTable
    <3>2. table(s)[s] = [t \in SUBSET s |-> SumTurn(f, table(s), t)][s]
      BY Zenon, <3>1
    <3>3. QED BY Zenon, <3>2
  <2>8. QED BY <1>3, <2>6, <2>7 DEF SumTurn, u
<1> HIDE DEF table, sum, full
<1>4. ASSUME NEW s \in SUBSET T PROVE g[s] = SumTurn(f, g, s)
  <2>1. CASE s = {}
    BY <2>1 DEF SumTurn
  <2>2. CASE s # {}
    <3> DEFINE u == s \ {Pick(s)}
    <3>1. u \in SUBSET T /\ u # T /\ u # s
      BY <2>2, PickIn
    <3>2. g[s] = f[Pick(s)] + sum(u)
      <4>1. CASE s = T
        BY <2>2, <4>1 DEF full
      <4>2. CASE s # T
        BY <2>2, <4>2, <1>3
      <4>3. QED BY <4>1, <4>2
    <3>3. g[u] = sum(u)
      <4>1. CASE u = {}
        <5>1. SumTable(f, table(u), u)
          BY <1>2, <3>1
        <5>2. table(u) = [t \in SUBSET u |-> SumTurn(f, table(u), t)]
          BY Zenon, <5>1 DEF SumTable
        <5>3. table(u)[u] = [t \in SUBSET u |-> SumTurn(f, table(u), t)][u]
          BY Zenon, <5>2
        <5> HIDE DEF u
        <5>4. table(u)[u] = SumTurn(f, table(u), u)
          BY Zenon, <5>3
        <5>5. QED BY <3>1, <4>1, <5>4 DEF SumTurn, sum
      <4>2. CASE u # {}
        BY <3>1, <4>2
      <4>3. QED BY <4>1, <4>2
    <3>4. QED BY <2>2, <3>2, <3>3 DEF SumTurn
  <2>3. QED BY <2>1, <2>2
<1>5. SumTable(f, g, T)
  <2>1. \A s \in SUBSET T : g[s] = SumTurn(f, g, s)
    BY <1>4
  <2>2. DOMAIN g = SUBSET T /\ g = [s \in SUBSET T |-> g[s]]
    OBVIOUS
  <2> HIDE DEF g
  <2>3. [s \in SUBSET T |-> g[s]] = [s \in SUBSET T |-> SumTurn(f, g, s)]
    BY <2>1
  <2>4. QED BY <2>2, <2>3 DEF SumTable
<1>6. QED BY <1>1, <1>5

\* So a sum is what one turn of its fold makes of the sum of the rest.
LEMMA SumTurns ==
    ASSUME NEW S, IsFiniteSet(S), NEW f
    PROVE  SumFunctionOnSet(f, S) =
             IF S = {} THEN 0
             ELSE f[Pick(S)] + SumFunctionOnSet(f, S \ {Pick(S)})
<1> DEFINE table(s) == CHOOSE g : SumTable(f, g, s)
           u == S \ {Pick(S)}
<1>1. IsFiniteSet(u) /\ u \subseteq S
  BY FS_Subset
<1>2. SumTable(f, table(S), S) /\ SumTable(f, table(u), u)
  <2>1. (\E g : SumTable(f, g, S)) /\ (\E g : SumTable(f, g, u))
    BY <1>1, SumHasTable
  <2> HIDE DEF u
  <2>2. QED BY Zenon, <2>1
<1>3. SumFunctionOnSet(f, S) = table(S)[S] /\ SumFunctionOnSet(f, u) = table(u)[u]
  BY Zenon, SumOfTable
<1> HIDE DEF table, u
<1>4. table(u)[u] = table(S)[u]
  BY <1>1, <1>2, TablesAgree
<1>5. table(S) = [t \in SUBSET S |-> SumTurn(f, table(S), t)]
  BY Zenon, <1>2 DEF SumTable
<1>6. table(S)[S] = [t \in SUBSET S |-> SumTurn(f, table(S), t)][S]
  BY Zenon, <1>5
<1>7. table(S)[S] = SumTurn(f, table(S), S)
  BY Zenon, <1>6
<1>8. QED BY <1>3, <1>4, <1>7 DEF SumTurn, u

\* Only the values on the set count.
LEMMA SumSame ==
    ASSUME NEW S, IsFiniteSet(S), NEW f, NEW e, \A x \in S : f[x] = e[x]
    PROVE  SumFunctionOnSet(f, S) = SumFunctionOnSet(e, S)
<1> DEFINE table(h) == CHOOSE g : SumTable(h, g, S)
<1>1. SumTable(f, table(f), S) /\ SumTable(e, table(e), S)
  <2>1. (\E g : SumTable(f, g, S)) /\ (\E g : SumTable(e, g, S))
    BY SumHasTable
  <2>2. QED BY Zenon, <2>1
<1>2. SumFunctionOnSet(f, S) = table(f)[S] /\ SumFunctionOnSet(e, S) = table(e)[S]
  BY Zenon, SumOfTable
<1> HIDE DEF table
<1>3. QED BY <1>1, <1>2, TablesAgree

\* Sums of whole numbers are whole.
LEMMA SumWhole ==
    ASSUME NEW S, IsFiniteSet(S), NEW f, \A x \in S : f[x] \in Int
    PROVE  SumFunctionOnSet(f, S) \in Int
<1> DEFINE B == {T \in SUBSET S : SumFunctionOnSet(f, T) \notin Int}
<1> SUFFICES ASSUME B # {} PROVE FALSE
  OBVIOUS
<1>1. PICK T \in B : \A U \in B : U \subseteq T => U = T
  <2>1. B \in SUBSET SUBSET S
    OBVIOUS
  <2> HIDE DEF B
  <2>2. QED BY <2>1, LeastSubset
<1>2. IsFiniteSet(T)
  BY <1>1, FS_Subset
<1>3. SumFunctionOnSet(f, T) =
        IF T = {} THEN 0 ELSE f[Pick(T)] + SumFunctionOnSet(f, T \ {Pick(T)})
  BY <1>2, SumTurns
<1>4. T # {} /\ Pick(T) \in T
  BY <1>1, <1>3, PickIn
<1>5. SumFunctionOnSet(f, T \ {Pick(T)}) \in Int
  BY <1>1, <1>4
<1>6. QED BY <1>1, <1>3, <1>4, <1>5

\* The order in which a sum takes its elements does not matter.
LEMMA SumWithout ==
    ASSUME NEW S, IsFiniteSet(S), NEW f, \A x \in S : f[x] \in Int, NEW x \in S
    PROVE  SumFunctionOnSet(f, S) = f[x] + SumFunctionOnSet(f, S \ {x})
<1> DEFINE sum(s) == SumFunctionOnSet(f, s)
           B == {T \in SUBSET S : \E y \in T : sum(T) # f[y] + sum(T \ {y})}
<1> SUFFICES ASSUME B # {} PROVE FALSE
  <2>1. S \notin B
    OBVIOUS
  <2>2. QED BY <2>1
<1>1. PICK T \in B : \A U \in B : U \subseteq T => U = T
  <2>1. B \in SUBSET SUBSET S
    OBVIOUS
  <2> HIDE DEF B
  <2>2. QED BY <2>1, LeastSubset
<1>2. PICK y \in T : sum(T) # f[y] + sum(T \ {y})
  BY <1>1
<1>3. \A s \in SUBSET S : IsFiniteSet(s) /\ sum(s) \in Int
  BY FS_Subset, SumWhole
<1> DEFINE p == Pick(T)
<1>4. p \in T
  BY <1>2, PickIn
<1>5. \A s \in SUBSET S : s # {} => sum(s) = f[Pick(s)] + sum(s \ {Pick(s)})
  BY <1>3, SumTurns
<1> HIDE DEF sum, p
<1>6. sum(T) = f[p] + sum(T \ {p})
  BY <1>1, <1>2, <1>5 DEF p
<1>7. p # y
  BY <1>2, <1>6
<1>a. \A U \in SUBSET T : U # T => \A z \in U : sum(U) = f[z] + sum(U \ {z})
  BY <1>1
<1> HIDE DEF B
<1>8. sum(T \ {p}) = f[y] + sum((T \ {p}) \ {y})
  <2>1. T \ {p} \in SUBSET T /\ T \ {p} # T /\ y \in T \ {p}
    BY <1>4, <1>7
  <2>2. QED BY <1>a, <2>1
<1>9. sum(T \ {y}) = f[p] + sum((T \ {y}) \ {p})
  <2>1. T \ {y} \in SUBSET T /\ T \ {y} # T /\ p \in T \ {y}
    BY <1>4, <1>7
  <2>2. QED BY <1>a, <2>1
<1>10. (T \ {p}) \ {y} = (T \ {y}) \ {p}
  OBVIOUS
<1>11. f[p] \in Int /\ f[y] \in Int /\ sum((T \ {p}) \ {y}) \in Int
  <2>1. T \in SUBSET S
    BY <1>1 DEF B
  <2>2. QED BY <1>3, <1>4, <2>1
<1>12. \A a, b, r \in Int : a + (b + r) = b + (a + r)
  OBVIOUS
<1>13. sum(T) = f[y] + sum(T \ {y})
  <2> DEFINE r == sum((T \ {p}) \ {y})
  <2>1. sum(T) = f[p] + (f[y] + r)
    BY <1>6, <1>8
  <2>2. sum(T \ {y}) = f[p] + r
    BY <1>9, <1>10
  <2>3. f[p] + (f[y] + r) = f[y] + (f[p] + r)
    BY <1>11, <1>12
  <2> HIDE DEF r
  <2>4. QED BY <2>1, <2>2, <2>3
<1>14. QED BY <1>2, <1>13

\* A sum of naturals is one.
LEMMA SumNatural ==
    ASSUME NEW S, IsFiniteSet(S), NEW f, \A x \in S : f[x] \in Nat
    PROVE  SumFunctionOnSet(f, S) \in Nat
<1> DEFINE B == {T \in SUBSET S : SumFunctionOnSet(f, T) \notin Nat}
<1> SUFFICES ASSUME B # {} PROVE FALSE
  OBVIOUS
<1>1. PICK T \in B : \A U \in B : U \subseteq T => U = T
  <2>1. B \in SUBSET SUBSET S
    OBVIOUS
  <2> HIDE DEF B
  <2>2. QED BY <2>1, LeastSubset
<1>2. IsFiniteSet(T)
  BY <1>1, FS_Subset
<1>3. SumFunctionOnSet(f, T) =
        IF T = {} THEN 0 ELSE f[Pick(T)] + SumFunctionOnSet(f, T \ {Pick(T)})
  BY <1>2, SumTurns
<1>4. T # {} /\ Pick(T) \in T
  BY <1>1, <1>3, PickIn
<1>5. SumFunctionOnSet(f, T \ {Pick(T)}) \in Nat
  BY <1>1, <1>4
<1>6. QED BY <1>1, <1>3, <1>4, <1>5

\* A sum of nothing but zeros.
LEMMA SumOfZeros ==
    ASSUME NEW S, IsFiniteSet(S), NEW f, \A x \in S : f[x] = 0
    PROVE  SumFunctionOnSet(f, S) = 0
<1> DEFINE B == {T \in SUBSET S : SumFunctionOnSet(f, T) # 0}
<1> SUFFICES ASSUME B # {} PROVE FALSE
  OBVIOUS
<1>1. PICK T \in B : \A U \in B : U \subseteq T => U = T
  <2>1. B \in SUBSET SUBSET S
    OBVIOUS
  <2> HIDE DEF B
  <2>2. QED BY <2>1, LeastSubset
<1>2. IsFiniteSet(T)
  BY <1>1, FS_Subset
<1>3. SumFunctionOnSet(f, T) =
        IF T = {} THEN 0 ELSE f[Pick(T)] + SumFunctionOnSet(f, T \ {Pick(T)})
  BY <1>2, SumTurns
<1>4. T # {} /\ Pick(T) \in T
  BY <1>1, <1>3, PickIn
<1>5. SumFunctionOnSet(f, T \ {Pick(T)}) = 0
  BY <1>1, <1>4
<1>6. QED BY <1>1, <1>3, <1>4, <1>5

\* An order without lines has the total 0.
LEMMA NoLinesNoTotal == OrderTotal([p \in Products |-> NoItem]) = 0
<1> DEFINE f == LineTotals([p \in Products |-> NoItem])
<1>1. DOMAIN f = Products /\ \A p \in Products : f[p] = 0
  BY DEF LineTotals, NoItem
<1> HIDE DEF f
<1>2. SumFunctionOnSet(f, Products) = 0
  BY <1>1, SumOfZeros
<1>3. QED BY <1>1, <1>2 DEF OrderTotal, SumFunction, f

\* A total counts prices and pieces, not what came back.
LEMMA TotalOfPricesAndPieces ==
    ASSUME NEW a, NEW b,
           \A p \in Products : /\ a[p].qty = b[p].qty
                               /\ a[p].priceAtOrder = b[p].priceAtOrder
    PROVE  OrderTotal(a) = OrderTotal(b)
<1>1. LineTotals(a) = LineTotals(b)
  BY DEF LineTotals
<1>2. QED BY <1>1 DEF OrderTotal

\* The amounts in a table of payments.
Amounts(rows) == [i \in PaymentIds |-> rows[i].amount]

\* The payments a table holds as booked for an order.
BookedFor(rows, o) ==
    {i \in PaymentIds : rows[i].state = "booked" /\ rows[i].order = o}

\* The sums PaymentsBooked speaks of are sums over one table of amounts.
LEMMA BookedSum ==
    ASSUME NEW rows, NEW o
    PROVE  LET booked == {i \in PaymentIds : /\ rows[i].state = "booked"
                                            /\ rows[i].order = o}
           IN  SumFunction([i \in booked |-> rows[i].amount])
                 = SumFunctionOnSet(Amounts(rows), BookedFor(rows, o))
<1> DEFINE B == {i \in PaymentIds : rows[i].state = "booked" /\ rows[i].order = o}
           f == [i \in B |-> rows[i].amount]
<1>1. IsFiniteSet(B) /\ B \subseteq PaymentIds
  BY FS_Subset
<1>2. DOMAIN f = B /\ \A i \in B : f[i] = Amounts(rows)[i]
  BY <1>1 DEF Amounts
<1> HIDE DEF B, f
<1>3. SumFunctionOnSet(f, B) = SumFunctionOnSet(Amounts(rows), B)
  BY <1>1, <1>2, SumSame
<1>4. SumFunction(f) = SumFunctionOnSet(f, B)
  BY <1>2 DEF SumFunction
<1>5. B = BookedFor(rows, o)
  BY DEF B, BookedFor
<1>6. SumFunction(f) = SumFunctionOnSet(Amounts(rows), BookedFor(rows, o))
  BY <1>3, <1>4, <1>5
<1>7. QED BY <1>6 DEF f, B

\* What an order has booked; and by how much one step from rows to after
\* changes it for order o, and for no other order.
BookedTotal(rows, o) == SumFunctionOnSet(Amounts(rows), BookedFor(rows, o))

\* What is booked for order o changes by n, for the others not at all.
TotalMoves(rows, after, o, n) ==
    /\ BookedTotal(after, o) = BookedTotal(rows, o) + n
    /\ \A x \in OrderIds \ {o} : BookedTotal(after, x) = BookedTotal(rows, x)

\* A payment booked in an unused row raises the sum of its order by its amount
\* and no other sum.
LEMMA BookingAdds ==
    ASSUME NEW i \in PaymentIds, NEW o \in OrderIds, NEW amount \in Nat
    PROVE  \A rows \in [PaymentIds -> PaymentRow] : \A after :
             (/\ rows[i].state = "free"
              /\ after = [rows EXCEPT ![i] = [state |-> "booked", order |-> o,
                                             amount |-> amount]]) =>
                 TotalMoves(rows, after, o, amount)
<1> SUFFICES
      ASSUME NEW rows \in [PaymentIds -> PaymentRow], rows[i].state = "free",
             NEW after, after = [rows EXCEPT ![i] = [state |-> "booked",
                                            order |-> o, amount |-> amount]]
      PROVE  TotalMoves(rows, after, o, amount)
  OBVIOUS
<1> DEFINE f == Amounts(rows)
           g == Amounts(after)
           B(x) == BookedFor(rows, x)
           C(x) == BookedFor(after, x)
<1>1. /\ \A j \in PaymentIds \ {i} : g[j] = f[j]
      /\ g[i] = amount
      /\ \A j \in PaymentIds : f[j] \in Int /\ g[j] \in Int
  BY DEF Amounts, PaymentRow, NoPayment
<1>2. /\ \A x : IsFiniteSet(B(x)) /\ IsFiniteSet(C(x))
      /\ \A x : i \notin B(x)
      /\ \A x : B(x) \subseteq PaymentIds /\ C(x) \subseteq PaymentIds
      /\ i \in C(o) /\ C(o) \ {i} = B(o)
      /\ \A x \in OrderIds \ {o} : C(x) = B(x)
  <2>1. \A x : B(x) \subseteq PaymentIds /\ C(x) \subseteq PaymentIds
    BY DEF BookedFor
  <2>2. \A x : IsFiniteSet(B(x)) /\ IsFiniteSet(C(x))
    BY <2>1, FS_Subset
  <2>3. /\ after[i].state = "booked" /\ after[i].order = o
        /\ \A j \in PaymentIds \ {i} : after[j] = rows[j]
    OBVIOUS
  <2>4. QED BY <2>1, <2>2, <2>3 DEF BookedFor
<1> HIDE DEF f, g, B, C
<1>3. SumFunctionOnSet(g, C(o)) = g[i] + SumFunctionOnSet(g, C(o) \ {i})
  BY <1>1, <1>2, SumWithout
<1>4. \A x : SumFunctionOnSet(g, B(x)) = SumFunctionOnSet(f, B(x))
  <2>1. \A x : \A j \in B(x) : g[j] = f[j]
    BY <1>1, <1>2
  <2>2. QED BY <1>2, <2>1, SumSame
<1>5. SumFunctionOnSet(f, B(o)) \in Int
  BY <1>1, <1>2, SumWhole
<1>6. SumFunctionOnSet(g, C(o)) = SumFunctionOnSet(f, B(o)) + amount
  <2>1. SumFunctionOnSet(g, C(o) \ {i}) = SumFunctionOnSet(f, B(o))
    BY Zenon, <1>2, <1>4
  <2>2. SumFunctionOnSet(g, C(o)) = amount + SumFunctionOnSet(f, B(o))
    BY <1>1, <1>3, <2>1
  <2>3. QED BY <1>5, <2>2
<1>7. \A x \in OrderIds \ {o} :
         SumFunctionOnSet(g, C(x)) = SumFunctionOnSet(f, B(x))
  BY <1>2, <1>4
<1>8. QED BY <1>6, <1>7 DEF TotalMoves, BookedTotal, f, g, B, C

\* A deleted payment takes its amount out of the sum of its order.
LEMMA DeletingTakes ==
    ASSUME NEW i \in PaymentIds, NEW o \in OrderIds
    PROVE  \A rows \in [PaymentIds -> PaymentRow] : \A after :
             (/\ rows[i].state = "booked" /\ rows[i].order = o
              /\ after = [rows EXCEPT ![i].state = "deleted"]) =>
                 TotalMoves(rows, after, o, -rows[i].amount)
<1> SUFFICES
      ASSUME NEW rows \in [PaymentIds -> PaymentRow], rows[i].state = "booked",
             rows[i].order = o,
             NEW after, after = [rows EXCEPT ![i].state = "deleted"]
      PROVE  TotalMoves(rows, after, o, -rows[i].amount)
  OBVIOUS
<1> DEFINE f == Amounts(rows)
           g == Amounts(after)
           B(x) == BookedFor(rows, x)
           C(x) == BookedFor(after, x)
<1>1. /\ after[i] = [rows[i] EXCEPT !.state = "deleted"]
      /\ \A j \in PaymentIds \ {i} : after[j] = rows[j]
  OBVIOUS
<1>2. rows[i] \in [state : {"booked", "deleted"}, order : OrderIds, amount : Nat]
  BY DEF PaymentRow, NoPayment
<1>3. after[i].amount = rows[i].amount /\ after[i].state = "deleted"
  BY <1>1, <1>2
<1>4. /\ \A j \in PaymentIds : g[j] = f[j]
      /\ \A j \in PaymentIds : f[j] \in Int
      /\ f[i] = rows[i].amount
  BY <1>1, <1>3 DEF Amounts, PaymentRow, NoPayment
<1>5. /\ \A x : B(x) \subseteq PaymentIds /\ C(x) \subseteq PaymentIds
      /\ i \in B(o) /\ C(o) = B(o) \ {i}
      /\ \A x \in OrderIds \ {o} : C(x) = B(x)
  BY <1>1, <1>3 DEF BookedFor
<1>6. \A x : IsFiniteSet(B(x)) /\ IsFiniteSet(C(x))
  BY <1>5, FS_Subset
<1> HIDE DEF f, g, B, C
<1>7. SumFunctionOnSet(f, B(o)) = f[i] + SumFunctionOnSet(f, B(o) \ {i})
  BY <1>4, <1>5, <1>6, SumWithout
<1>8. \A x : SumFunctionOnSet(g, C(x)) = SumFunctionOnSet(f, C(x))
  BY <1>4, <1>5, <1>6, SumSame
<1>9. SumFunctionOnSet(f, C(o)) \in Int
  BY <1>4, <1>5, <1>6, SumWhole
<1>10. SumFunctionOnSet(g, C(o)) = SumFunctionOnSet(f, B(o)) + (-rows[i].amount)
  <2>1. SumFunctionOnSet(f, B(o) \ {i}) = SumFunctionOnSet(g, C(o))
    BY Zenon, <1>5, <1>8
  <2>2. SumFunctionOnSet(f, B(o)) = f[i] + SumFunctionOnSet(g, C(o))
    BY <1>7, <2>1
  <2>3. f[i] \in Int /\ SumFunctionOnSet(g, C(o)) \in Int
    BY <1>4, <1>8, <1>9
  <2>4. QED BY <1>4, <2>2, <2>3
<1>11. \A x \in OrderIds \ {o} :
         SumFunctionOnSet(g, C(x)) = SumFunctionOnSet(f, B(x))
  BY <1>5, <1>8
<1>12. QED BY <1>10, <1>11 DEF TotalMoves, BookedTotal, f, g, B, C

-----------------------------------------------------------------------------
(* What the handlers write.                                                *)

\* One order gets a status, a delivery status and a driver; nothing else of it
\* and no other order changes.
Writes(o, status, delivery, driver) ==
    /\ \A x \in OrderIds \ {o} : order'[x] = order[x]
    /\ order'[o].orderStatus = status
    /\ order'[o].deliveryStatus = delivery
    /\ order'[o].assignedDriver = driver
    /\ order'[o].handover = order[o].handover
    /\ order'[o].payout = order[o].payout
    /\ order'[o].totalAmount = order[o].totalAmount
    /\ order'[o].paidAmount = order[o].paidAmount
    /\ order'[o].returnState = order[o].returnState
    /\ order'[o].excludeFromPayroll = order[o].excludeFromPayroll

\* Each handler that writes one order row without its lock writes just that.
LEMMA OneOrderWrites ==
    ASSUME MoneyInv, NEW c \in Callers
    PROVE  LET o == call[c].order
           IN  /\ UpdateStatus(c) =>
                    Writes(o, call[c].to, order[o].deliveryStatus,
                           order[o].assignedDriver)
               /\ Cancel(c) => Writes(o, "CANCELLED", "PENDING", None)
               /\ AssignDriver(c) =>
                    Writes(o, order[o].orderStatus, "ASSIGNED", call[c].driver)
               /\ Start(c) =>
                    Writes(o, order[o].orderStatus, "ON_THE_WAY",
                           order[o].assignedDriver)
               /\ CompleteDelivered(c) =>
                    Writes(o, "COMPLETED", "DELIVERED", order[o].assignedDriver)
               /\ CompleteFailed(c) =>
                    Writes(o, order[o].orderStatus, "FAILED",
                           order[o].assignedDriver)
<1> DEFINE o == call[c].order
<1>1. order \in [OrderIds -> OrderRow]
  BY DEF MoneyInv, RowTypes
<1>2. call[c].op \in {"updateStatus", "cancel", "assign", "start", "deliver",
                      "fail"} => o \in OrderIds
  BY CallTypes DEF MoneyInv
<1> HIDE DEF o
<1>3. CASE UpdateStatus(c)
  <2>1. order' = [order EXCEPT ![o].orderStatus = call[c].to]
        /\ o \in OrderIds
    BY <1>2, <1>3 DEF UpdateStatus, o
  <2>2. order'[o] = [order[o] EXCEPT !.orderStatus = call[c].to]
        /\ order[o] \in OrderRow
        /\ \A x \in OrderIds \ {o} : order'[x] = order[x]
    BY <1>1, <2>1
  <2>3. Writes(o, call[c].to, order[o].deliveryStatus, order[o].assignedDriver)
    BY <2>2 DEF Writes, OrderRow
  <2>4. QED BY <1>3, <2>3 DEF UpdateStatus, Cancel, AssignDriver, Start,
                              CompleteDelivered, CompleteFailed, o
<1>4. CASE Cancel(c)
  <2>1. order' = [order EXCEPT ![o].orderStatus = "CANCELLED",
                               ![o].assignedDriver = None,
                               ![o].deliveryStatus = "PENDING"]
        /\ o \in OrderIds
    BY <1>2, <1>4 DEF Cancel, o
  <2>2. order'[o] = [order[o] EXCEPT !.orderStatus = "CANCELLED",
                                     !.assignedDriver = None,
                                     !.deliveryStatus = "PENDING"]
        /\ order[o] \in OrderRow
        /\ \A x \in OrderIds \ {o} : order'[x] = order[x]
    BY <1>1, <2>1
  <2>3. Writes(o, "CANCELLED", "PENDING", None)
    BY <2>2 DEF Writes, OrderRow
  <2>4. QED BY <1>4, <2>3 DEF UpdateStatus, Cancel, AssignDriver, Start,
                              CompleteDelivered, CompleteFailed, o
<1>5. CASE AssignDriver(c)
  <2>1. order' = [order EXCEPT ![o].assignedDriver = call[c].driver,
                               ![o].deliveryStatus = "ASSIGNED"]
        /\ o \in OrderIds
    BY <1>2, <1>5 DEF AssignDriver, o
  <2>2. order'[o] = [order[o] EXCEPT !.assignedDriver = call[c].driver,
                                     !.deliveryStatus = "ASSIGNED"]
        /\ order[o] \in OrderRow
        /\ \A x \in OrderIds \ {o} : order'[x] = order[x]
    BY <1>1, <2>1
  <2>3. Writes(o, order[o].orderStatus, "ASSIGNED", call[c].driver)
    BY <2>2 DEF Writes, OrderRow
  <2>4. QED BY <1>5, <2>3 DEF UpdateStatus, Cancel, AssignDriver, Start,
                              CompleteDelivered, CompleteFailed, o
<1>6. CASE Start(c)
  <2>1. order' = [order EXCEPT ![o].deliveryStatus = "ON_THE_WAY"]
        /\ o \in OrderIds
    BY <1>2, <1>6 DEF Start, o
  <2>2. order'[o] = [order[o] EXCEPT !.deliveryStatus = "ON_THE_WAY"]
        /\ order[o] \in OrderRow
        /\ \A x \in OrderIds \ {o} : order'[x] = order[x]
    BY <1>1, <2>1
  <2>3. Writes(o, order[o].orderStatus, "ON_THE_WAY", order[o].assignedDriver)
    BY <2>2 DEF Writes, OrderRow
  <2>4. QED BY <1>6, <2>3 DEF UpdateStatus, Cancel, AssignDriver, Start,
                              CompleteDelivered, CompleteFailed, o
<1>7. CASE CompleteDelivered(c)
  <2>1. order' = [order EXCEPT ![o].orderStatus = "COMPLETED",
                               ![o].deliveryStatus = "DELIVERED"]
        /\ o \in OrderIds
    BY <1>2, <1>7 DEF CompleteDelivered, o
  <2>2. order'[o] = [order[o] EXCEPT !.orderStatus = "COMPLETED",
                                     !.deliveryStatus = "DELIVERED"]
        /\ order[o] \in OrderRow
        /\ \A x \in OrderIds \ {o} : order'[x] = order[x]
    BY <1>1, <2>1
  <2>3. Writes(o, "COMPLETED", "DELIVERED", order[o].assignedDriver)
    BY <2>2 DEF Writes, OrderRow
  <2>4. QED BY <1>7, <2>3 DEF UpdateStatus, Cancel, AssignDriver, Start,
                              CompleteDelivered, CompleteFailed, o
<1>8. CASE CompleteFailed(c)
  <2>1. order' = [order EXCEPT ![o].deliveryStatus = "FAILED"]
        /\ o \in OrderIds
    BY <1>2, <1>8 DEF CompleteFailed, o
  <2>2. order'[o] = [order[o] EXCEPT !.deliveryStatus = "FAILED"]
        /\ order[o] \in OrderRow
        /\ \A x \in OrderIds \ {o} : order'[x] = order[x]
    BY <1>1, <2>1
  <2>3. Writes(o, order[o].orderStatus, "FAILED", order[o].assignedDriver)
    BY <2>2 DEF Writes, OrderRow
  <2>4. QED BY <1>8, <2>3 DEF UpdateStatus, Cancel, AssignDriver, Start,
                              CompleteDelivered, CompleteFailed, o
<1>9. QED BY <1>3, <1>4, <1>5, <1>6, <1>7, <1>8 DEF o

\* The rows a handover sheet and a payroll closing write.
LEMMA ManyOrdersWrite ==
    ASSUME MoneyInv, NEW c \in Callers
    PROVE  LET S == call[c].orders
           IN  /\ \A h \in HandoverIds : CreateHandover(c, h) =>
                    \A o \in OrderIds :
                       IF o \notin S THEN order'[o] = order[o]
                       ELSE order'[o] =
                              [order[o] EXCEPT !.handover = h,
                                  !.orderStatus = "READY",
                                  !.assignedDriver = call[c].driver,
                                  !.deliveryStatus = "ASSIGNED"]
               /\ \A y \in PayoutIds : PayrollClose(c, y) =>
                    \A o \in OrderIds :
                       IF o \notin S THEN order'[o] = order[o]
                       ELSE order'[o] = [order[o] EXCEPT !.payout = y]
  BY DEF CreateHandover, PayrollClose

\* The order stands where it stood: status, delivery, sheet and payout.
SamePlace(o) ==
    /\ order'[o].orderStatus = order[o].orderStatus
    /\ order'[o].deliveryStatus = order[o].deliveryStatus
    /\ order'[o].assignedDriver = order[o].assignedDriver
    /\ order'[o].handover = order[o].handover
    /\ order'[o].payout = order[o].payout

\* A payment and its deletion write amount and status of one order.
LEMMA SetPaidWrites ==
    ASSUME MoneyInv, NEW c \in Callers, call[c].op \in LockingOps
    PROVE  \A paid : SetPaid(call[c].order, call[c].row, paid) =>
             LET o == call[c].order
             IN  /\ \A x \in OrderIds \ {o} : order'[x] = order[x]
                 /\ SamePlace(o)
                 /\ order'[o].totalAmount = order[o].totalAmount
                 /\ order'[o].returnState = order[o].returnState
                 /\ order'[o].excludeFromPayroll = order[o].excludeFromPayroll
                 /\ order'[o].paidAmount = paid
<1> DEFINE o == call[c].order
<1> SUFFICES ASSUME NEW paid, SetPaid(o, call[c].row, paid)
             PROVE  /\ \A x \in OrderIds \ {o} : order'[x] = order[x]
                    /\ SamePlace(o)
                    /\ order'[o].totalAmount = order[o].totalAmount
                    /\ order'[o].returnState = order[o].returnState
                    /\ order'[o].excludeFromPayroll = order[o].excludeFromPayroll
                    /\ order'[o].paidAmount = paid
  OBVIOUS
<1> DEFINE status == StatusFor(paid, call[c].row.totalAmount)
<1>1. o \in OrderIds /\ order \in [OrderIds -> OrderRow]
  BY UnderLock DEF MoneyInv, RowTypes
<1>2. order' = [order EXCEPT ![o].paidAmount = paid, ![o].paymentStatus = status]
  BY DEF SetPaid
<1> HIDE DEF o, status
<1>3. order'[o] = [order[o] EXCEPT !.paidAmount = paid, !.paymentStatus = status]
      /\ order[o] \in OrderRow
      /\ \A x \in OrderIds \ {o} : order'[x] = order[x]
  BY <1>1, <1>2
<1>4. QED BY <1>3 DEF SamePlace, OrderRow

\* An edit writes lines and total of its order.
LEMMA UpdateWrites ==
    ASSUME MoneyInv, NEW c \in Callers, NEW want, UpdateOrder(c, want)
    PROVE  LET o == call[c].order
               lines == EditedLines(item[o], want)
           IN  /\ \A x \in OrderIds \ {o} :
                     order'[x] = order[x] /\ item'[x] = item[x]
               /\ SamePlace(o)
               /\ order'[o].totalAmount = OrderTotal(lines)
               /\ order'[o].paidAmount = order[o].paidAmount
               /\ order'[o].returnState = order[o].returnState
               /\ order'[o].excludeFromPayroll = order[o].excludeFromPayroll
               /\ item'[o] = lines
               /\ MayEdit(order[o], item[o])
               /\ o \in OrderIds /\ Exists(o)
<1> DEFINE o == call[c].order
           lines == EditedLines(item[o], want)
           total == OrderTotal(lines)
           status == StatusFor(order[o].paidAmount, total)
<1>0. call[c].op \in LockingOps
  BY DEF UpdateOrder, LockingOps
<1>1. /\ o \in OrderIds /\ order \in [OrderIds -> OrderRow]
      /\ item \in [OrderIds -> [Products -> ItemRow]]
      /\ call[c].row = order[o] /\ call[c].item = item[o]
  BY <1>0, UnderLock DEF MoneyInv, RowTypes
<1>2. /\ order' = [order EXCEPT ![o].totalAmount = total,
                                ![o].paymentStatus = status]
      /\ item' = [item EXCEPT ![o] = lines]
      /\ MayEdit(order[o], item[o])
  BY <1>1 DEF UpdateOrder
<1>3. Exists(o)
  BY <1>0 DEF MoneyInv, LockedSnapshots
<1> HIDE DEF o, lines, total, status
<1>4. /\ order'[o] = [order[o] EXCEPT !.totalAmount = total,
                                      !.paymentStatus = status]
      /\ order[o] \in OrderRow /\ item'[o] = lines
      /\ \A x \in OrderIds \ {o} : order'[x] = order[x] /\ item'[x] = item[x]
  BY <1>1, <1>2
<1>5. /\ SamePlace(o)
      /\ order'[o].totalAmount = total
      /\ order'[o].paidAmount = order[o].paidAmount
      /\ order'[o].returnState = order[o].returnState
      /\ order'[o].excludeFromPayroll = order[o].excludeFromPayroll
  BY <1>4 DEF SamePlace, OrderRow
<1>6. QED BY <1>1, <1>2, <1>3, <1>4, <1>5 DEF o, lines, total

\* A return writes what came back, what is left of the payment and who is paid.
LEMMA ReturnWrites ==
    ASSUME MoneyInv, NEW c \in Callers, NEW back, NEW restock \in BOOLEAN,
           NEW asked, NEW exclude \in BOOLEAN,
           CreateReturn(c, back, restock, asked, exclude)
    PROVE  LET o == call[c].order
               refund == Refund(order[o], item[o], back, asked)
           IN  /\ \A x \in OrderIds \ {o} :
                     order'[x] = order[x] /\ item'[x] = item[x]
               /\ SamePlace(o)
               /\ order'[o].totalAmount = order[o].totalAmount
               /\ order'[o].paidAmount = IF refund > 0
                                         THEN order[o].paidAmount - refund
                                         ELSE order[o].paidAmount
               /\ order'[o].returnState = ReturnStateAfter(item[o], back)
               /\ order'[o].excludeFromPayroll =
                     (order[o].excludeFromPayroll \/ exclude)
               /\ item'[o] = ReturnedLines(item[o], back, restock)
               /\ ledger' = [ledger EXCEPT ![o].refund = @ + refund]
               /\ WithinLines(item[o], back)
               /\ Finished(order[o]) /\ (exclude => order[o].payout = None)
               /\ o \in OrderIds /\ Exists(o)
<1> DEFINE o == call[c].order
           refund == Refund(order[o], item[o], back, asked)
           paid == order[o].paidAmount - refund
           status == StatusFor(paid, order[o].totalAmount)
           after == ReturnStateAfter(item[o], back)
           lines == ReturnedLines(item[o], back, restock)
<1>0. call[c].op \in LockingOps
  BY DEF CreateReturn, LockingOps
<1>1. /\ o \in OrderIds /\ order \in [OrderIds -> OrderRow]
      /\ item \in [OrderIds -> [Products -> ItemRow]]
      /\ call[c].row = order[o] /\ call[c].item = item[o]
  BY <1>0, UnderLock DEF MoneyInv, RowTypes
<1>2. /\ order' = [order EXCEPT
                     ![o].returnState = after,
                     ![o].excludeFromPayroll = @ \/ exclude,
                     ![o].paidAmount = IF refund > 0 THEN paid ELSE @,
                     ![o].paymentStatus = IF refund > 0 THEN status ELSE @]
      /\ item' = [item EXCEPT ![o] = lines]
      /\ ledger' = [ledger EXCEPT ![o].refund = @ + refund]
      /\ WithinLines(item[o], back)
      /\ Finished(order[o]) /\ (exclude => order[o].payout = None)
  BY <1>1 DEF CreateReturn
<1>3. Exists(o)
  BY <1>0 DEF MoneyInv, LockedSnapshots
<1> HIDE DEF o, lines, refund, paid, status, after
<1>4. /\ order'[o] = [order[o] EXCEPT
                        !.returnState = after,
                        !.excludeFromPayroll = @ \/ exclude,
                        !.paidAmount = IF refund > 0 THEN paid ELSE @,
                        !.paymentStatus = IF refund > 0 THEN status ELSE @]
      /\ order[o] \in OrderRow /\ item'[o] = lines
      /\ \A x \in OrderIds \ {o} : order'[x] = order[x] /\ item'[x] = item[x]
  BY <1>1, <1>2
<1>5. /\ SamePlace(o)
      /\ order'[o].totalAmount = order[o].totalAmount
      /\ order'[o].paidAmount = IF refund > 0 THEN paid ELSE order[o].paidAmount
      /\ order'[o].returnState = after
      /\ order'[o].excludeFromPayroll = (order[o].excludeFromPayroll \/ exclude)
  BY <1>4 DEF SamePlace, OrderRow
<1>6. QED BY <1>1, <1>2, <1>3, <1>4, <1>5
          DEF o, lines, refund, paid, after

\* A new order has its lines at today's prices, and their total.
LEMMA CreateWrites ==
    ASSUME MoneyInv, NEW o \in OrderIds, NEW want,
           \/ CreateOrder(o, want)
           \/ \E i \in PaymentIds : CreatePaidOrder(o, want, i)
    PROVE  /\ ~Exists(o)
           /\ \A x \in OrderIds \ {o} :
                 order'[x] = order[x] /\ item'[x] = item[x]
           /\ item'[o] = NewLines(want)
           /\ order'[o].orderStatus = "NEW"
           /\ order'[o].deliveryStatus = "PENDING"
           /\ order'[o].assignedDriver = None
           /\ order'[o].handover = None /\ order'[o].payout = None
           /\ order'[o].totalAmount = OrderTotal(NewLines(want))
           /\ order'[o].returnState = "NONE"
           /\ order'[o].excludeFromPayroll = FALSE
           /\ call' = call
<1> DEFINE total == OrderTotal(NewLines(want))
           lines == NewLines(want)
<1>1. PlaceOrder(o, want)
  BY DEF CreateOrder, CreatePaidOrder
<1>2. ~Exists(o) /\ item' = [item EXCEPT ![o] = lines] /\ call' = call
  BY <1>1 DEF PlaceOrder
<1>3. /\ order \in [OrderIds -> OrderRow]
      /\ item \in [OrderIds -> [Products -> ItemRow]]
  BY DEF MoneyInv, RowTypes
<1>4. \/ order' = [order EXCEPT ![o] = NewOrder(total)]
      \/ order' = [order EXCEPT ![o] = [NewOrder(total) EXCEPT
                                          !.paidAmount = total,
                                          !.paymentStatus = "PAID"]]
  BY DEF CreateOrder, CreatePaidOrder
<1> HIDE DEF total, lines
<1>5. \/ order'[o] = NewOrder(total)
      \/ order'[o] = [NewOrder(total) EXCEPT !.paidAmount = total,
                                             !.paymentStatus = "PAID"]
  BY <1>3, <1>4
<1>6. /\ \A x \in OrderIds \ {o} : order'[x] = order[x] /\ item'[x] = item[x]
      /\ item'[o] = lines
  BY <1>2, <1>3, <1>4
<1>7. QED BY <1>2, <1>5, <1>6 DEF NewOrder, NoOrder, total, lines

-----------------------------------------------------------------------------
(* OrdersInv is inductive.                                                 *)

\* Money, lines and returns stay as they are, and no order comes or goes.
LinesKept ==
    /\ UNCHANGED <<item, payment, ledger>>
    /\ \A o \in OrderIds :
          /\ order'[o].totalAmount = order[o].totalAmount
          /\ order'[o].returnState = order[o].returnState
          /\ IF Exists(o) THEN order'[o].orderStatus # "ABSENT"
             ELSE order'[o] = order[o]

\* A step that keeps rows, lines, payments and entries keeps what was true of
\* them.
LEMMA KeptStep ==
    ASSUME OrdersInv, LinesKept
    PROVE  (/\ AbsentBlank /\ PaymentsPositive /\ PaymentsBooked
            /\ TotalMatchesLines /\ ReturnsWithinLines)'
<1>1. AbsentBlank'
  BY DEF OrdersInv, AbsentBlank, LinesKept, Exists
<1>2. PaymentsPositive' /\ PaymentsBooked'
  BY DEF OrdersInv, PaymentsPositive, PaymentsBooked, LinesKept
<1>3. TotalMatchesLines' /\ ReturnsWithinLines'
  BY DEF OrdersInv, TotalMatchesLines, ReturnsWithinLines, LinesKept
<1>4. QED BY <1>1, <1>2, <1>3

\* Known of what a request remembers, after the step.
KnownAfter(r) ==
    /\ r.op \in {"updateStatus", "cancel", "assign", "start", "deliver", "fail"}
           => order'[r.order].orderStatus # "ABSENT"
    /\ r.op \in {"handover", "payrollClose"} =>
           \A o \in r.orders : order'[o].orderStatus # "ABSENT"
    /\ r.op \in {"foundPayment", "deletePayment"} =>
           /\ payment'[r.payment].state # "free"
           /\ payment'[r.payment].order = r.order

\* What requests know stays known while orders and payments only come.
LEMMA KnownStep ==
    ASSUME OrdersInv, NEW c \in Callers,
           \A o \in OrderIds : Exists(o) => order'[o].orderStatus # "ABSENT",
           \A i \in PaymentIds : payment[i].state # "free" =>
               payment'[i].state # "free" /\ payment'[i].order = payment[i].order
    PROVE  \A r : call' = [call EXCEPT ![c] = r] /\ KnownAfter(r) => CallsKnown'
<1> SUFFICES ASSUME NEW r, call' = [call EXCEPT ![c] = r], KnownAfter(r),
                    NEW d \in Callers
             PROVE  Known(call[d])'
  BY DEF CallsKnown
<1>1. call \in [Callers -> CallState]
  BY DEF OrdersInv, MoneyInv, RowTypes
<1>2. CASE d = c
  <2>1. call'[d] = r
    BY <1>1, <1>2
  <2>2. QED BY <2>1 DEF Known, KnownAfter, Exists
<1>3. CASE d # c
  <2>1. call'[d] = call[d] /\ Known(call[d])
    BY <1>1, <1>3 DEF OrdersInv, CallsKnown
  <2>2. /\ call[d].op \in {"updateStatus", "cancel", "assign", "start",
                           "deliver", "fail"} => call[d].order \in OrderIds
        /\ call[d].op \in {"handover", "payrollClose"} =>
              call[d].orders \subseteq OrderIds
        /\ call[d].op \in {"foundPayment", "deletePayment"} =>
              call[d].payment \in PaymentIds
    BY CallTypes DEF OrdersInv, MoneyInv
  <2>3. QED BY <2>1, <2>2 DEF Known, Exists
<1>4. QED BY <1>2, <1>3

\* A request that has ended knows nothing.
LEMMA KnowsIdle == KnownAfter(Idle)
BY DEF KnownAfter, Idle

\* The part of the invariant that is about orders and payments.
OrdersRest ==
    /\ AbsentBlank
    /\ CallsKnown
    /\ PaymentsPositive
    /\ PaymentsBooked
    /\ TotalMatchesLines
    /\ ReturnsWithinLines

\* A step of a request that keeps the lines and then knows what it may know.
LEMMA KeptCallStep ==
    ASSUME OrdersInv, NEW c \in Callers, LinesKept
    PROVE  \A r : call' = [call EXCEPT ![c] = r] /\ KnownAfter(r) => OrdersRest'
<1>1. \A o \in OrderIds : Exists(o) => order'[o].orderStatus # "ABSENT"
  BY DEF LinesKept
<1>2. \A i \in PaymentIds : payment[i].state # "free" =>
           payment'[i].state # "free" /\ payment'[i].order = payment[i].order
  BY DEF LinesKept
<1>3. \A r : call' = [call EXCEPT ![c] = r] /\ KnownAfter(r) => CallsKnown'
  BY <1>1, <1>2, KnownStep
<1>4. QED BY <1>3, KeptStep DEF OrdersRest

\* A step that touches neither orders nor payments and ends its request, or
\* belongs to none.
LEMMA AsideKeeps ==
    ASSUME OrdersInv, UNCHANGED <<order, item, payment, ledger>>
    PROVE  /\ \A c \in Callers : Finish(c) => OrdersRest'
           /\ UNCHANGED call => OrdersRest'
<1>1. LinesKept
  BY DEF LinesKept, Exists
<1>2. ASSUME UNCHANGED call PROVE OrdersRest'
  <2>1. CallsKnown'
    BY <1>2 DEF OrdersInv, CallsKnown, Known, Exists
  <2>2. QED BY <1>1, <2>1, KeptStep DEF OrdersRest
<1>3. QED BY <1>1, <1>2, KeptCallStep, KnowsIdle DEF Finish

\* A request that takes the lock of an order keeps what is true of orders.
LEMMA LockRest ==
    ASSUME OrdersInv, NEW c \in Callers, Lock(c)
    PROVE  OrdersRest'
<1>1. UNCHANGED <<order, item, product, payment, ledger, moved, batch, payout,
                  sheet>>
  BY DEF Lock, UpdateOrderLock, AddPaymentLock, ReturnLock, DeletePaymentLock
<1>2. LinesKept
  BY <1>1 DEF LinesKept, Exists
<1>3. ASSUME NEW o \in OrderIds, NEW op \in {"update", "addPayment", "return"},
             LockOrder(c, op, o, None)
      PROVE  OrdersRest'
  <2> DEFINE r == [op |-> op, order |-> o, row |-> order[o], item |-> item[o],
                   payment |-> None]
  <2>1. call' = [call EXCEPT ![c] = r]
    BY <1>3 DEF LockOrder
  <2>2. KnownAfter(r)
    BY DEF KnownAfter
  <2> HIDE DEF r
  <2>3. QED BY <1>2, <2>1, <2>2, KeptCallStep
<1>4. CASE DeletePaymentLock(c)
  <2> DEFINE o == call[c].order
             i == call[c].payment
             r == [op |-> "deletePayment", order |-> o, row |-> order[o],
                   item |-> item[o], payment |-> i]
  <2>1. call' = [call EXCEPT ![c] = r]
    BY <1>4 DEF LockOrder, DeletePaymentLock
  <2>2. payment[i].state # "free" /\ payment[i].order = o
    BY <1>4 DEF DeletePaymentLock, OrdersInv, CallsKnown, Known
  <2>3. KnownAfter(r)
    BY <1>1, <2>2 DEF KnownAfter
  <2> HIDE DEF r
  <2>4. QED BY <1>2, <2>1, <2>3, KeptCallStep
<1>5. QED BY <1>3, <1>4 DEF Lock, UpdateOrderLock, AddPaymentLock, ReturnLock

\* Whoever has a driver exists.
LEMMA DrivenExists ==
    ASSUME OrdersInv, NEW o \in OrderIds, order[o].assignedDriver \in Drivers
    PROVE  Exists(o)
<1>1. ~Exists(o) => order[o].assignedDriver = None
  BY DEF OrdersInv, AbsentBlank, NoOrder
<1>2. None \notin Drivers
  BY NoneAssumption DEF NoneAssumption
<1>3. QED BY <1>1, <1>2

\* A request that reads an order without its lock keeps what is true of
\* orders, and remembers only orders that exist.
LEMMA ReadRest ==
    ASSUME OrdersInv, NEW c \in Callers, Read(c)
    PROVE  OrdersRest'
<1>1. UNCHANGED <<order, item, product, payment, ledger, moved, batch, payout,
                  sheet, lock>>
  BY DEF Read, UpdateStatusRead, CancelRead, DeletePaymentFind,
         AssignDriverRead, StartRead, CompleteRead, CreateHandoverRead,
         PayrollCloseRead, CreateBatchReadStock, CreateBatchReadTracked,
         WriteOffRead
<1>2. LinesKept
  BY <1>1 DEF LinesKept, Exists
<1>a. \A r : call' = [call EXCEPT ![c] = r] /\ KnownAfter(r) => OrdersRest'
  BY <1>2, KeptCallStep
<1>4. ASSUME NEW o \in OrderIds, NEW to \in OrderStatus,
             UpdateStatusRead(c, o, to)
      PROVE  OrdersRest'
  <2> DEFINE r == [op |-> "updateStatus", order |-> o, to |-> to]
  <2>1. /\ call' = [call EXCEPT ![c] = r] /\ Exists(o)
        /\ r.op = "updateStatus" /\ r.order = o
    BY <1>4 DEF UpdateStatusRead, MayMove, Begin
  <2> HIDE DEF r
  <2>2. KnownAfter(r)
    BY <1>1, <2>1 DEF KnownAfter, Exists
  <2>3. QED BY <1>a, <2>1, <2>2
<1>5. ASSUME NEW o \in OrderIds, CancelRead(c, o) PROVE OrdersRest'
  <2> DEFINE r == [op |-> "cancel", order |-> o, item |-> item[o]]
  <2>1. /\ call' = [call EXCEPT ![c] = r] /\ Exists(o)
        /\ r.op = "cancel" /\ r.order = o
    BY <1>5 DEF CancelRead, MayCancel, MayMove, Begin
  <2> HIDE DEF r
  <2>2. KnownAfter(r)
    BY <1>1, <2>1 DEF KnownAfter, Exists
  <2>3. QED BY <1>a, <2>1, <2>2
<1>6. ASSUME NEW i \in PaymentIds, DeletePaymentFind(c, i) PROVE OrdersRest'
  <2> DEFINE r == [op |-> "foundPayment", order |-> payment[i].order,
                   payment |-> i]
  <2>1. call' = [call EXCEPT ![c] = r]
    BY <1>6 DEF DeletePaymentFind, Begin
  <2>2. KnownAfter(r)
    BY <1>1, <1>6 DEF KnownAfter, DeletePaymentFind
  <2> HIDE DEF r
  <2>3. QED BY <1>a, <2>1, <2>2
<1>7. ASSUME NEW o \in OrderIds, NEW d \in Drivers,
             \/ AssignDriverRead(c, o, d) \/ StartRead(c, o, d)
             \/ CompleteRead(c, o, d, "deliver") \/ CompleteRead(c, o, d, "fail")
      PROVE  OrdersRest'
  <2>1. Exists(o)
    BY <1>7, DrivenExists DEF AssignDriverRead, ASSIGNABLE, StartRead, MayStart,
                              CompleteRead, MayComplete, Exists
  <2>2. PICK op \in {"assign", "start", "deliver", "fail"} :
           call' = [call EXCEPT ![c] = [op |-> op, order |-> o, driver |-> d]]
    BY <1>7 DEF AssignDriverRead, StartRead, CompleteRead, Begin
  <2> DEFINE r == [op |-> op, order |-> o, driver |-> d]
  <2>3. r.op = op /\ r.order = o /\ call' = [call EXCEPT ![c] = r]
    BY <2>2
  <2> HIDE DEF r
  <2>4. KnownAfter(r)
    BY <1>1, <2>1, <2>3 DEF KnownAfter, Exists
  <2>5. QED BY <1>a, <2>3, <2>4
<1>8. ASSUME NEW op \in {"handover", "payrollClose"}, NEW d,
             NEW S \in SUBSET OrderIds, \A o \in S : Exists(o),
             call' = [call EXCEPT ![c] = [op |-> op, driver |-> d, orders |-> S]]
      PROVE  OrdersRest'
  <2> DEFINE r == [op |-> op, driver |-> d, orders |-> S]
  <2>1. KnownAfter(r)
    BY <1>1, <1>8 DEF KnownAfter, Exists
  <2> HIDE DEF r
  <2>2. QED BY <1>8, <1>a, <2>1 DEF r
<1>9. ASSUME NEW d \in Drivers, NEW S \in SUBSET OrderIds,
             CreateHandoverRead(c, d, S)
      PROVE  OrdersRest'
  BY <1>8, <1>9 DEF CreateHandoverRead, MayHandOver, Begin
<1>10. ASSUME NEW d \in Drivers, PayrollCloseRead(c, d) PROVE OrdersRest'
  <2> DEFINE S == {o \in OrderIds : Payable(o, d)}
  <2>1. \A o \in S : Exists(o)
    BY DrivenExists DEF Payable
  <2>2. call' = [call EXCEPT ![c] = [op |-> "payrollClose", driver |-> d,
                                     orders |-> S]]
    BY <1>10 DEF PayrollCloseRead, Begin
  <2>3. S \in SUBSET OrderIds
    OBVIOUS
  <2> HIDE DEF S
  <2>4. QED BY <1>8, <2>1, <2>2, <2>3
<1>11. ASSUME NEW op \in {"createBatch", "insertBatch", "writeOff"}, NEW r,
              r.op = op, call' = [call EXCEPT ![c] = r]
       PROVE  OrdersRest'
  <2>1. KnownAfter(r)
    BY <1>11 DEF KnownAfter
  <2>2. QED BY <1>11, <1>a, <2>1
<1>12. ASSUME NEW p \in Products, CreateBatchReadStock(c, p) PROVE OrdersRest'
  BY <1>11, <1>12 DEF CreateBatchReadStock, Begin
<1>13. ASSUME NEW qty \in 1..MaxQty, CreateBatchReadTracked(c, qty)
       PROVE  OrdersRest'
  BY <1>11, <1>13 DEF CreateBatchReadTracked
<1>14. ASSUME NEW b \in BatchIds, WriteOffRead(c, b) PROVE OrdersRest'
  BY <1>11, <1>14 DEF WriteOffRead, Begin
<1>15. QED BY <1>4, <1>5, <1>6, <1>7, <1>9, <1>10, <1>12, <1>13, <1>14 DEF Read

\* A step that writes one existing order keeps its lines, and ends its request.
LEMMA OneOrderKept ==
    ASSUME OrdersInv, NEW c \in Callers,
           \/ UpdateStatus(c) \/ Cancel(c) \/ AssignDriver(c) \/ Start(c)
           \/ CompleteDelivered(c) \/ CompleteFailed(c)
    PROVE  LinesKept /\ Finish(c)
<1> DEFINE o == call[c].order
<1>1. call[c].op \in {"updateStatus", "cancel", "assign", "start", "deliver",
                      "fail"}
      /\ UNCHANGED <<item, payment, ledger>> /\ Finish(c)
  BY DEF UpdateStatus, Cancel, AssignDriver, Start, CompleteDelivered,
         CompleteFailed, FinishUnlocked
<1>2. o \in OrderIds /\ Exists(o)
  BY <1>1, CallTypes DEF OrdersInv, MoneyInv, CallsKnown, Known
<1>3. MoneyInv
  BY DEF OrdersInv
<1>4. /\ \A x \in OrderIds \ {o} : order'[x] = order[x]
      /\ order'[o].totalAmount = order[o].totalAmount
      /\ order'[o].returnState = order[o].returnState
      /\ order'[o].orderStatus # "ABSENT"
  <2>1. call[c].op = "updateStatus" => call[c].to # "ABSENT"
    BY <1>3, CallTypes DEF MoneyInv
  <2>2. UpdateStatus(c) => call[c].op = "updateStatus"
    BY DEF UpdateStatus
  <2> HIDE DEF o
  <2>3. PICK status, delivery, driver :
           Writes(o, status, delivery, driver) /\ status # "ABSENT"
    BY <1>2, <1>3, <2>1, <2>2, OneOrderWrites DEF Exists, o
  <2>4. QED BY <2>3 DEF Writes
<1> HIDE DEF o
<1>5. LinesKept
  BY <1>1, <1>2, <1>4 DEF LinesKept, Exists
<1>6. QED BY <1>1, <1>5

\* So does one that writes many existing orders.
LEMMA ManyOrdersKept ==
    ASSUME OrdersInv, NEW c \in Callers,
           \/ \E h \in HandoverIds : CreateHandover(c, h)
           \/ \E y \in PayoutIds : PayrollClose(c, y)
    PROVE  LinesKept /\ Finish(c)
<1> DEFINE S == call[c].orders
<1>1. call[c].op \in {"handover", "payrollClose"}
      /\ UNCHANGED <<item, payment, ledger>> /\ Finish(c)
  BY DEF CreateHandover, PayrollClose, FinishUnlocked
<1>2. S \subseteq OrderIds /\ \A o \in S : Exists(o)
  BY <1>1, CallTypes DEF OrdersInv, MoneyInv, CallsKnown, Known
<1>a. MoneyInv
  BY DEF OrdersInv
<1>3. \A o \in OrderIds \ S : order'[o] = order[o]
  BY <1>a, ManyOrdersWrite
<1>4. ASSUME NEW o \in S
      PROVE  /\ order'[o].totalAmount = order[o].totalAmount
             /\ order'[o].returnState = order[o].returnState
             /\ order'[o].orderStatus # "ABSENT"
  <2>1. order[o] \in OrderRow /\ order[o].orderStatus # "ABSENT" /\ o \in OrderIds
    BY <1>2 DEF OrdersInv, MoneyInv, RowTypes, Exists
  <2>2. \/ \E h \in HandoverIds : order'[o] =
              [order[o] EXCEPT !.handover = h, !.orderStatus = "READY",
                               !.assignedDriver = call[c].driver,
                               !.deliveryStatus = "ASSIGNED"]
        \/ \E y \in PayoutIds : order'[o] = [order[o] EXCEPT !.payout = y]
    <3>1. ASSUME NEW h \in HandoverIds, CreateHandover(c, h)
          PROVE  order'[o] = [order[o] EXCEPT !.handover = h,
                                !.orderStatus = "READY",
                                !.assignedDriver = call[c].driver,
                                !.deliveryStatus = "ASSIGNED"]
      BY <1>a, <2>1, <3>1, ManyOrdersWrite
    <3>2. ASSUME NEW y \in PayoutIds, PayrollClose(c, y)
          PROVE  order'[o] = [order[o] EXCEPT !.payout = y]
      <4>1. \A x \in OrderIds :
               IF x \notin S THEN order'[x] = order[x]
               ELSE order'[x] = [order[x] EXCEPT !.payout = y]
        BY <1>a, <3>2, ManyOrdersWrite
      <4>2. QED BY <2>1, <4>1
    <3>3. QED BY <3>1, <3>2
  <2>3. QED BY <2>1, <2>2 DEF OrderRow
<1> HIDE DEF S
<1>5. LinesKept
  BY <1>1, <1>2, <1>3, <1>4 DEF LinesKept, Exists
<1>6. QED BY <1>1, <1>5

\* A commit without a lock keeps the lines, and ends its request.
LEMMA UnlockedKept ==
    ASSUME OrdersInv, NEW c \in Callers, UnlockedWrite(c)
    PROVE  LinesKept /\ Finish(c)
<1>1. CASE \/ \E b \in BatchIds, expiry \in Expiries : CreateBatch(c, b, expiry)
           \/ WriteOff(c)
  <2>1. UNCHANGED <<order, item, payment, ledger>> /\ Finish(c)
    BY <1>1 DEF CreateBatch, WriteOff, FinishUnlocked
  <2>2. QED BY <2>1 DEF LinesKept, Exists
<1>2. QED BY <1>1, OneOrderKept, ManyOrdersKept DEF UnlockedWrite

\* Lines and totals of the orders that stay, when one order is written whose
\* total is that of its lines.
LEMMA TotalsStep ==
    ASSUME TotalMatchesLines, NEW o \in OrderIds,
           \A x \in OrderIds \ {o} : order'[x] = order[x] /\ item'[x] = item[x],
           order'[o].totalAmount = OrderTotal(item'[o])
    PROVE  TotalMatchesLines'
BY DEF TotalMatchesLines

\* The returns of one order are consistent.
ReturnsOk(row, lines) ==
    /\ \A p \in Products : /\ lines[p].returned <= lines[p].qty
                           /\ lines[p].restocked <= lines[p].returned
    /\ row.returnState = "NONE" <=> \A p \in Products : lines[p].returned = 0
    /\ row.returnState = "FULL" =>
           \A p \in Products : lines[p].returned = lines[p].qty
    /\ row.returnState = "PARTIAL" =>
           \E p \in Products : lines[p].returned < lines[p].qty

\* ReturnsWithinLines speaks of one order at a time.
LEMMA ReturnsAre ==
    /\ ReturnsWithinLines <=> \A o \in OrderIds : ReturnsOk(order[o], item[o])
    /\ ReturnsWithinLines' <=> \A o \in OrderIds : ReturnsOk(order'[o], item'[o])
BY DEF ReturnsWithinLines, ReturnsOk

\* A payment that has been used keeps its order.
UsedStay ==
    \A i \in PaymentIds : payment[i].state # "free" =>
        payment'[i].state # "free" /\ payment'[i].order = payment[i].order

\* PaymentsBooked, of this state and the next, as sums over one table.
LEMMA BookedAre ==
    /\ PaymentsBooked <=>
          \A o \in OrderIds : BookedTotal(payment, o) = ledger[o].income
    /\ PaymentsBooked' <=>
          \A o \in OrderIds : BookedTotal(payment', o) = ledger'[o].income
BY Zenon, BookedSum DEF PaymentsBooked, BookedTotal

\* Booking a payment keeps payments and entries in step.
LEMMA BookPaymentRest ==
    ASSUME OrdersInv, NEW i \in PaymentIds, NEW o \in OrderIds
    PROVE  \A amount \in Nat \ {0} : BookPayment(i, o, amount) =>
               PaymentsPositive' /\ PaymentsBooked' /\ UsedStay
<1> SUFFICES ASSUME NEW amount \in Nat \ {0}, BookPayment(i, o, amount)
             PROVE  PaymentsPositive' /\ PaymentsBooked' /\ UsedStay
  OBVIOUS
<1>1. /\ payment \in [PaymentIds -> PaymentRow]
      /\ ledger \in [OrderIds -> [income : Int, refund : Nat]]
  BY DEF OrdersInv, MoneyInv, RowTypes
<1>2. /\ payment[i].state = "free"
      /\ payment' = [payment EXCEPT ![i] = [state |-> "booked", order |-> o,
                                           amount |-> amount]]
      /\ ledger' = [ledger EXCEPT ![o].income = @ + amount]
  BY DEF BookPayment, FreePayments
<1>3. PaymentsPositive' /\ UsedStay
  BY <1>1, <1>2 DEF OrdersInv, PaymentsPositive, UsedStay
<1>4. TotalMoves(payment, payment', o, amount)
  BY <1>1, <1>2, BookingAdds
<1>5. /\ ledger'[o].income = ledger[o].income + amount
      /\ \A x \in OrderIds \ {o} : ledger'[x] = ledger[x]
  <2>1. ledger'[o] = [ledger[o] EXCEPT !.income = @ + amount]
    BY <1>1, <1>2
  <2>2. QED BY <1>1, <1>2, <2>1
<1>6. PaymentsBooked'
  BY <1>4, <1>5, BookedAre DEF OrdersInv, TotalMoves
<1>7. QED BY <1>3, <1>6

\* A new order has no payment, no entry and no return, and its own total.
LEMMA CreateRest ==
    ASSUME OrdersInv, NEW c \in Callers, call[c] = Idle, NEW o \in OrderIds,
           NEW want \in Baskets,
           \/ CreateOrder(o, want)
           \/ \E i \in PaymentIds : CreatePaidOrder(o, want, i)
    PROVE  OrdersRest'
<1>1. /\ ~Exists(o)
      /\ \A x \in OrderIds \ {o} :
            order'[x] = order[x] /\ item'[x] = item[x]
      /\ item'[o] = NewLines(want)
      /\ order'[o].orderStatus = "NEW"
      /\ order'[o].totalAmount = OrderTotal(NewLines(want))
      /\ order'[o].returnState = "NONE"
      /\ call' = call
  BY CreateWrites DEF OrdersInv
<1>2. \A x \in OrderIds \ {o} : ledger'[x] = ledger[x]
  BY DEF CreateOrder, CreatePaidOrder, BookPayment, OrdersInv, MoneyInv, RowTypes
<1>3. AbsentBlank'
  BY <1>1, <1>2 DEF OrdersInv, AbsentBlank, Exists
<1>4. TotalMatchesLines'
  BY <1>1, TotalsStep DEF OrdersInv
<1>5. ReturnsWithinLines'
  <2>1. want \in [Products -> Nat]
    BY DEF Baskets, Quantities
  <2>2. \A p \in Products : /\ NewLines(want)[p].returned = 0
                            /\ NewLines(want)[p].restocked = 0
                            /\ NewLines(want)[p].qty \in Nat
    BY <2>1 DEF NewLines, NoItem
  <2>3. ReturnsOk(order'[o], item'[o])
    BY <1>1, <2>2 DEF ReturnsOk
  <2>4. QED BY <1>1, <2>3, ReturnsAre DEF OrdersInv
<1>6. PaymentsPositive' /\ PaymentsBooked' /\ UsedStay
  <2>1. CASE CreateOrder(o, want)
    <3>1. payment' = payment /\ ledger' = ledger
      BY <2>1 DEF CreateOrder
    <3>2. QED BY <3>1 DEF OrdersInv, PaymentsPositive, PaymentsBooked, UsedStay
  <2>2. ASSUME NEW i \in PaymentIds, CreatePaidOrder(o, want, i)
        PROVE  PaymentsPositive' /\ PaymentsBooked' /\ UsedStay
    <3> DEFINE total == OrderTotal(NewLines(want))
    <3>1. total \in Nat \ {0} /\ BookPayment(i, o, total)
      BY <2>2 DEF CreatePaidOrder, PlaceOrder, Amount
    <3> HIDE DEF total
    <3>2. QED BY <3>1, BookPaymentRest
  <2>3. QED BY <2>1, <2>2
<1>7. CallsKnown'
  <2>1. call' = [call EXCEPT ![c] = Idle]
    BY <1>1 DEF OrdersInv, MoneyInv, RowTypes
  <2>2. \A x \in OrderIds : Exists(x) => order'[x].orderStatus # "ABSENT"
    BY <1>1 DEF Exists
  <2>3. QED BY <1>6, <2>1, <2>2, KnownStep, KnowsIdle DEF UsedStay
<1>8. QED BY <1>3, <1>4, <1>5, <1>6, <1>7 DEF OrdersRest

\* A request that writes under the lock what is paid keeps the rest, if the
\* payments it leaves are in step with the entries.
LEMMA SetPaidRest ==
    ASSUME OrdersInv, NEW c \in Callers, call[c].op \in LockingOps,
           PaymentsPositive', PaymentsBooked', UsedStay,
           Finish(c), item' = item,
           \A x \in OrderIds \ {call[c].order} : ledger'[x] = ledger[x]
    PROVE  \A paid : SetPaid(call[c].order, call[c].row, paid) => OrdersRest'
<1> DEFINE o == call[c].order
<1> SUFFICES ASSUME NEW paid, SetPaid(o, call[c].row, paid)
             PROVE  OrdersRest'
  OBVIOUS
<1>1. MoneyInv
  BY DEF OrdersInv
<1>2. o \in OrderIds /\ Exists(o)
  BY <1>1, UnderLock DEF MoneyInv, LockedSnapshots
<1>3. /\ \A x \in OrderIds \ {o} : order'[x] = order[x]
      /\ order'[o].orderStatus = order[o].orderStatus
      /\ order'[o].totalAmount = order[o].totalAmount
      /\ order'[o].returnState = order[o].returnState
  BY <1>1, SetPaidWrites DEF SamePlace
<1> HIDE DEF o
<1>4. AbsentBlank'
  BY <1>2, <1>3 DEF OrdersInv, AbsentBlank, Exists, o
<1>5. TotalMatchesLines' /\ ReturnsWithinLines'
  BY <1>3 DEF OrdersInv, TotalMatchesLines, ReturnsWithinLines
<1>6. \A x \in OrderIds : Exists(x) => order'[x].orderStatus # "ABSENT"
  BY <1>2, <1>3 DEF Exists
<1>7. CallsKnown'
  BY <1>6, KnownStep, KnowsIdle DEF UsedStay, Finish
<1>8. QED BY <1>4, <1>5, <1>7 DEF OrdersRest

\* A payment under the lock books what it adds to the order.
LEMMA AddPaymentRest ==
    ASSUME OrdersInv, NEW c \in Callers, NEW i \in PaymentIds,
           NEW amount \in Amount, AddPayment(c, i, amount)
    PROVE  OrdersRest'
<1> DEFINE o == call[c].order
<1>1. call[c].op \in LockingOps /\ MoneyInv
  BY DEF AddPayment, LockingOps, OrdersInv
<1>2. o \in OrderIds /\ Exists(o)
  BY <1>1, UnderLock DEF MoneyInv, LockedSnapshots
<1>3. /\ BookPayment(i, o, amount) /\ amount \in Nat \ {0}
      /\ SetPaid(o, call[c].row, call[c].row.paidAmount + amount)
      /\ Finish(c) /\ item' = item
  BY DEF AddPayment, Commit, Amount
<1>4. PaymentsPositive' /\ PaymentsBooked' /\ UsedStay
  BY <1>2, <1>3, BookPaymentRest
<1>5. \A x \in OrderIds \ {o} : ledger'[x] = ledger[x]
  BY <1>2, <1>3 DEF BookPayment, OrdersInv, MoneyInv, RowTypes
<1>6. QED BY <1>1, <1>2, <1>3, <1>4, <1>5, SetPaidRest

\* A deletion under the lock takes the payment out of the order's entries.
LEMMA DeletePaymentRest ==
    ASSUME OrdersInv, NEW c \in Callers, DeletePayment(c)
    PROVE  OrdersRest'
<1> DEFINE o == call[c].order
           i == call[c].payment
<1>1. call[c].op \in LockingOps /\ MoneyInv /\ call[c].op = "deletePayment"
  BY DEF DeletePayment, LockingOps, OrdersInv
<1>2. /\ o \in OrderIds /\ Exists(o) /\ i \in PaymentIds
      /\ payment[i].order = o
  BY <1>1, UnderLock, CallTypes
     DEF MoneyInv, LockedSnapshots, OrdersInv, CallsKnown, Known
<1>3. /\ payment[i].state = "booked"
      /\ payment' = [payment EXCEPT ![i].state = "deleted"]
      /\ ledger' = [ledger EXCEPT ![o].income = @ - payment[i].amount]
      /\ SetPaid(o, call[c].row, call[c].row.paidAmount - payment[i].amount)
      /\ Finish(c) /\ item' = item
  BY DEF DeletePayment, Commit, StillBooked
<1>4. /\ payment \in [PaymentIds -> PaymentRow]
      /\ ledger \in [OrderIds -> [income : Int, refund : Nat]]
  BY DEF OrdersInv, MoneyInv, RowTypes
<1> HIDE DEF o, i
<1>5. PaymentsPositive' /\ UsedStay
  <2>1. payment[i] \in [state : {"booked", "deleted"}, order : OrderIds,
                        amount : Nat]
    BY <1>2, <1>3, <1>4 DEF PaymentRow, NoPayment
  <2>2. /\ payment'[i] = [payment[i] EXCEPT !.state = "deleted"]
        /\ \A j \in PaymentIds \ {i} : payment'[j] = payment[j]
    BY <1>2, <1>3, <1>4
  <2>3. /\ payment'[i].state = "deleted"
        /\ payment'[i].order = payment[i].order
        /\ payment'[i].amount = payment[i].amount
    BY <2>1, <2>2
  <2>4. QED BY <1>3, <2>2, <2>3 DEF OrdersInv, PaymentsPositive, UsedStay
<1>6. TotalMoves(payment, payment', o, -payment[i].amount)
  BY <1>2, <1>3, <1>4, DeletingTakes
<1>7. /\ ledger'[o].income = ledger[o].income - payment[i].amount
      /\ \A x \in OrderIds \ {o} : ledger'[x] = ledger[x]
  <2>1. ledger'[o] = [ledger[o] EXCEPT !.income = @ - payment[i].amount]
    BY <1>2, <1>3, <1>4
  <2>2. QED BY <1>2, <1>3, <1>4, <2>1
<1>8. PaymentsBooked'
  <2>1. ledger[o].income \in Int /\ payment[i].amount \in Int
    BY <1>2, <1>4 DEF PaymentRow, NoPayment
  <2>2. QED BY <1>2, <1>6, <1>7, <2>1, BookedAre DEF OrdersInv, TotalMoves
<1>9. QED BY <1>1, <1>3, <1>5, <1>7, <1>8, SetPaidRest DEF o

\* A step that writes lines and total of one existing order keeps the rest, if
\* total and returns fit the lines.
LEMMA LinesStep ==
    ASSUME OrdersInv, NEW c \in Callers, Finish(c), payment' = payment,
           NEW o \in OrderIds, Exists(o),
           \A x \in OrderIds \ {o} :
               order'[x] = order[x] /\ item'[x] = item[x] /\ ledger'[x] = ledger[x],
           order'[o].orderStatus = order[o].orderStatus,
           order'[o].totalAmount = OrderTotal(item'[o]),
           ledger'[o].income = ledger[o].income,
           ReturnsOk(order'[o], item'[o])
    PROVE  OrdersRest'
<1>1. AbsentBlank'
  BY DEF OrdersInv, AbsentBlank, Exists
<1>2. PaymentsPositive' /\ UsedStay
  BY DEF OrdersInv, PaymentsPositive, UsedStay
<1>3. PaymentsBooked'
  BY DEF OrdersInv, PaymentsBooked
<1>4. TotalMatchesLines'
  BY TotalsStep DEF OrdersInv
<1>5. ReturnsWithinLines'
  BY ReturnsAre DEF OrdersInv
<1>6. CallsKnown'
  <2>1. \A x \in OrderIds : Exists(x) => order'[x].orderStatus # "ABSENT"
    BY DEF Exists
  <2>2. QED BY <1>2, <2>1, KnownStep, KnowsIdle DEF UsedStay, Finish
<1>7. QED BY <1>1, <1>2, <1>3, <1>4, <1>5, <1>6 DEF OrdersRest

\* An edit changes only orders nothing came back from, and their total with
\* their lines.
LEMMA UpdateOrderRest ==
    ASSUME OrdersInv, NEW c \in Callers, NEW want \in Baskets,
           UpdateOrder(c, want)
    PROVE  OrdersRest'
<1> DEFINE o == call[c].order
           lines == EditedLines(item[o], want)
<1>1. MoneyInv
  BY DEF OrdersInv
<1>2. /\ \A x \in OrderIds \ {o} : order'[x] = order[x] /\ item'[x] = item[x]
      /\ order'[o].orderStatus = order[o].orderStatus
      /\ order'[o].totalAmount = OrderTotal(lines)
      /\ order'[o].returnState = order[o].returnState
      /\ item'[o] = lines
      /\ MayEdit(order[o], item[o])
      /\ o \in OrderIds /\ Exists(o)
  BY <1>1, UpdateWrites DEF SamePlace
<1>3. Finish(c) /\ payment' = payment /\ ledger' = ledger
  BY DEF UpdateOrder, Commit
<1>4. ASSUME NEW p \in Products
      PROVE  /\ item[o][p].returned = 0 /\ item[o][p].restocked = 0
             /\ lines[p].returned = 0 /\ lines[p].restocked = 0
             /\ 0 <= lines[p].qty
  <2>1. want[p] \in Nat
    BY DEF Baskets, Quantities
  <2>2. item[o][p] \in ItemRow /\ item[o][p].restocked <= item[o][p].returned
    BY <1>2 DEF OrdersInv, MoneyInv, RowTypes, ReturnsWithinLines
  <2>3. item[o][p].returned = 0
    BY <1>2 DEF MayEdit
  <2>4. item[o][p].restocked = 0
    BY <2>2, <2>3 DEF ItemRow
  <2>5. lines[p].returned = 0 /\ lines[p].restocked = 0 /\ 0 <= lines[p].qty
    BY <2>1, <2>2, <2>3, <2>4 DEF EditedLines, ItemRow, NoItem
  <2>6. QED BY <2>3, <2>4, <2>5
<1>5. order[o].returnState = "NONE"
  BY <1>2, <1>4 DEF OrdersInv, ReturnsWithinLines
<1> HIDE DEF o, lines
<1>6. ReturnsOk(order'[o], item'[o])
  BY <1>2, <1>4, <1>5 DEF ReturnsOk
<1>7. QED BY <1>2, <1>3, <1>6, LinesStep

\* A return raises what came back of every line, no line above what it holds,
\* and says FULL when all lines are there.
LEMMA CreateReturnRest ==
    ASSUME OrdersInv, NEW c \in Callers, NEW back \in Baskets,
           NEW restock \in BOOLEAN, NEW asked \in BOOLEAN,
           NEW exclude \in BOOLEAN,
           CreateReturn(c, back, restock, asked, exclude)
    PROVE  OrdersRest'
<1> DEFINE o == call[c].order
           refund == Refund(order[o], item[o], back, asked)
           lines == ReturnedLines(item[o], back, restock)
           after == ReturnStateAfter(item[o], back)
<1>1. MoneyInv
  BY DEF OrdersInv
<1>2. /\ \A x \in OrderIds \ {o} : order'[x] = order[x] /\ item'[x] = item[x]
      /\ order'[o].orderStatus = order[o].orderStatus
      /\ order'[o].totalAmount = order[o].totalAmount
      /\ order'[o].returnState = after
      /\ item'[o] = lines
      /\ ledger' = [ledger EXCEPT ![o].refund = @ + refund]
      /\ WithinLines(item[o], back)
      /\ o \in OrderIds /\ Exists(o)
  BY <1>1, ReturnWrites DEF SamePlace
<1>3. Finish(c) /\ payment' = payment
  BY DEF CreateReturn, Commit
<1>4. back \in [Products -> Nat] /\ \E p \in Products : back[p] > 0
  BY DEF Baskets, Quantities
<1>5. ledger \in [OrderIds -> [income : Int, refund : Nat]]
      /\ item[o] \in [Products -> ItemRow]
  BY <1>2 DEF OrdersInv, MoneyInv, RowTypes
<1>6. ASSUME NEW p \in Products
      PROVE  /\ lines[p].qty = item[o][p].qty
             /\ lines[p].priceAtOrder = item[o][p].priceAtOrder
             /\ lines[p].returned = item[o][p].returned + back[p]
             /\ lines[p].returned \in Nat /\ lines[p].qty \in Nat
             /\ lines[p].returned <= lines[p].qty
             /\ lines[p].restocked <= lines[p].returned
             /\ back[p] > 0 => lines[p].returned # 0
  <2>1. item[o][p] \in ItemRow /\ back[p] \in Nat
        /\ item[o][p].restocked <= item[o][p].returned
        /\ item[o][p].returned + back[p] <= item[o][p].qty
    BY <1>2, <1>4, <1>5 DEF OrdersInv, ReturnsWithinLines, WithinLines
  <2> DEFINE n == IF restock THEN back[p] ELSE 0
  <2>2. n \in Nat /\ n <= back[p]
    BY <2>1
  <2>3. lines[p] = [item[o][p] EXCEPT !.returned = @ + back[p],
                                      !.restocked = @ + n]
    BY DEF ReturnedLines
  <2> HIDE DEF n, lines
  <2>4. /\ lines[p].qty = item[o][p].qty
        /\ lines[p].priceAtOrder = item[o][p].priceAtOrder
        /\ lines[p].returned = item[o][p].returned + back[p]
        /\ lines[p].restocked = item[o][p].restocked + n
    BY <2>1, <2>3 DEF ItemRow
  <2>5. /\ item[o][p].returned \in Nat /\ item[o][p].restocked \in Nat
        /\ item[o][p].qty \in Nat
    BY <2>1 DEF ItemRow
  <2>6. QED BY <2>1, <2>2, <2>4, <2>5
<1>7. /\ after \in {"FULL", "PARTIAL"}
      /\ after = "FULL" <=>
            \A p \in Products : item[o][p].returned + back[p] >= item[o][p].qty
  BY DEF ReturnStateAfter
<1>8. order'[o].totalAmount = OrderTotal(item'[o])
  <2> HIDE DEF o, lines, after, refund
  <2>1. OrderTotal(lines) = OrderTotal(item[o])
    BY <1>6, TotalOfPricesAndPieces
  <2>2. order[o].totalAmount = OrderTotal(item[o])
    BY <1>2 DEF OrdersInv, TotalMatchesLines
  <2>3. QED BY <1>2, <2>1, <2>2
<1>9. /\ ledger'[o].income = ledger[o].income
      /\ \A x \in OrderIds \ {o} : ledger'[x] = ledger[x]
  <2>1. ledger'[o] = [ledger[o] EXCEPT !.refund = @ + refund]
    BY <1>2, <1>5
  <2>2. QED BY <1>2, <1>5, <2>1
<1> HIDE DEF o, lines, after, refund
<1>10. ReturnsOk(order'[o], item'[o])
  <2>1. \E p \in Products : lines[p].returned # 0
    BY <1>4, <1>6
  <2>2. after = "FULL" => \A p \in Products : lines[p].returned = lines[p].qty
    BY <1>6, <1>7
  <2>3. after # "FULL" => \E p \in Products : lines[p].returned < lines[p].qty
    <3>1. SUFFICES ASSUME after # "FULL"
                   PROVE  \E p \in Products : lines[p].returned < lines[p].qty
      OBVIOUS
    <3>2. PICK p \in Products :
             ~(item[o][p].returned + back[p] >= item[o][p].qty)
      BY <1>7, <3>1
    <3>3. lines[p].returned < lines[p].qty
      BY <1>6, <3>2
    <3>4. QED BY <3>3
  <2>4. QED BY <1>2, <1>6, <1>7, <2>1, <2>2, <2>3 DEF ReturnsOk
<1>11. QED BY <1>2, <1>3, <1>8, <1>9, <1>10, LinesStep

\* Every step keeps the part of the invariant that is about orders.
LEMMA StepRest ==
    ASSUME OrdersInv, [Next]_vars
    PROVE  OrdersRest'
<1>1. CASE UNCHANGED vars
  BY <1>1, AsideKeeps DEF vars
<1>2. ASSUME NEW c \in Callers, call[c] = Idle, SingleStep PROVE OrdersRest'
  <2>1. ASSUME NEW p \in Products, NEW qty \in -MaxQty..MaxQty,
               AdjustStock(p, qty)
        PROVE  OrdersRest'
    BY <2>1, AsideKeeps DEF AdjustStock
  <2>2. ASSUME NEW p \in Products, NEW price \in Prices, NEW on \in BOOLEAN,
               EditProduct(p, price, on)
        PROVE  OrdersRest'
    BY <2>2, AsideKeeps DEF EditProduct
  <2>3. ASSUME NEW y \in PayoutIds, PayrollPay(y) PROVE OrdersRest'
    BY <2>3, AsideKeeps DEF PayrollPay
  <2>4. ASSUME NEW p \in Products, NEW qty \in 1..MaxQty, ReceiveLine(p, qty)
        PROVE  OrdersRest'
    BY <2>4, AsideKeeps DEF ReceiveLine
  <2>5. QED BY <1>2, <2>1, <2>2, <2>3, <2>4, CreateRest
            DEF SingleStep, ReceiveUndated, ReceiveDated
<1>3. ASSUME NEW c \in Callers, LockedWrite(c) PROVE OrdersRest'
  BY <1>3, UpdateOrderRest, AddPaymentRest, DeletePaymentRest, CreateReturnRest
     DEF LockedWrite
<1>4. ASSUME NEW c \in Callers, UnlockedWrite(c) PROVE OrdersRest'
  BY <1>4, UnlockedKept, KeptCallStep, KnowsIdle DEF Finish
<1>5. ASSUME NEW c \in Callers, Abort(c) PROVE OrdersRest'
  BY <1>5, AsideKeeps DEF Abort
<1>6. QED BY <1>1, <1>2, <1>3, <1>4, <1>5, LockRest, ReadRest DEF Next

-----------------------------------------------------------------------------
(* The theorems.                                                           *)

\* Before the first request there is nothing to add up.
LEMMA InitOrders == Init => OrdersInv
<1> SUFFICES ASSUME Init PROVE OrdersInv
  OBVIOUS
<1>1. MoneyInv
  BY InitMoney
<1>2. /\ \A o \in OrderIds : /\ order[o] = NoOrder
                             /\ item[o] = [p \in Products |-> NoItem]
                             /\ ledger[o] = [income |-> 0, refund |-> 0]
      /\ \A i \in PaymentIds : payment[i] = NoPayment
      /\ \A c \in Callers : call[c] = Idle
  BY DEF Init
<1>3. AbsentBlank /\ PaymentsPositive
  BY <1>2 DEF AbsentBlank, PaymentsPositive, NoPayment
<1>4. CallsKnown
  BY <1>2 DEF CallsKnown, Known, Idle
<1>5. PaymentsBooked
  <2>1. ASSUME NEW o \in OrderIds
        PROVE  BookedTotal(payment, o) = ledger[o].income
    <3>1. BookedFor(payment, o) = {}
      BY <1>2 DEF BookedFor, NoPayment
    <3>2. SumFunctionOnSet(Amounts(payment), {}) = 0
      BY SumOfZeros, FS_EmptySet
    <3>3. QED BY <1>2, <3>1, <3>2 DEF BookedTotal
  <2>2. QED BY <2>1, BookedAre
<1>6. TotalMatchesLines
  BY <1>2, NoLinesNoTotal DEF TotalMatchesLines, NoOrder
<1>7. ReturnsWithinLines
  BY <1>2 DEF ReturnsWithinLines, NoOrder, NoItem
<1>8. QED BY <1>1, <1>3, <1>4, <1>5, <1>6, <1>7 DEF OrdersInv

\* Every step of every handler keeps the invariant.
LEMMA StepOrders == OrdersInv /\ [Next]_vars => OrdersInv'
<1> SUFFICES ASSUME OrdersInv, [Next]_vars PROVE OrdersInv'
  OBVIOUS
<1>1. MoneyInv' /\ OrdersRest'
  BY StepMoney, StepRest DEF OrdersInv
<1>2. QED BY <1>1 DEF OrdersInv, OrdersRest

\* Every reachable state has consistent orders.
THEOREM OrdersAlways == Spec => []OrdersInv
BY InitOrders, StepOrders, PTL DEF Spec

\* The payments booked for an order are its income, for any number of requests
\* that book and delete payments at one time.
THEOREM PaymentsAlwaysBooked == Spec => []PaymentsBooked
<1>1. OrdersInv => PaymentsBooked
  BY DEF OrdersInv
<1>2. QED BY <1>1, OrdersAlways, PTL

\* The total of an order is that of its lines at their snapshot prices.
THEOREM TotalAlwaysMatchesLines == Spec => []TotalMatchesLines
<1>1. OrdersInv => TotalMatchesLines
  BY DEF OrdersInv
<1>2. QED BY <1>1, OrdersAlways, PTL

\* No number of concurrent returns gives back more than a line holds.
THEOREM ReturnsAlwaysWithinLines == Spec => []ReturnsWithinLines
<1>1. OrdersInv => ReturnsWithinLines
  BY DEF OrdersInv
<1>2. QED BY <1>1, OrdersAlways, PTL

-----------------------------------------------------------------------------
(* The shop implements the account.                                        *)

\* The amount and the status that an order shows are those of its account.
LEMMA ShowsNow == MoneyInv => Account!Shows
<1> SUFFICES ASSUME MoneyInv, NEW o \in OrderIds
             PROVE  /\ order[o].paidAmount = ledger[o].income - ledger[o].refund
                    /\ order[o].paymentStatus \in Account!Status(o)
  BY DEF Account!Shows, Account!Paid
<1> DEFINE paid == order[o].paidAmount
           total == order[o].totalAmount
           status == order[o].paymentStatus
<1>1. /\ paid = ledger[o].income - ledger[o].refund
      /\ paid <= total
      /\ status = StatusFor(paid, total)
           \/ (total = 0 /\ paid = 0 /\ status = "UNPAID")
  BY DEF MoneyInv, LedgerAgrees, NeverOverpaid, PayStatusDerived
<1>2. paid \in Int /\ total \in Int
  BY DEF MoneyInv, RowTypes, OrderRow, Amount
<1>3. Account!Paid(o) = paid
  BY <1>1 DEF Account!Paid
<1>4. Account!Status(o) =
        CASE paid >= total /\ (paid > 0 \/ total > 0) -> {"PAID"}
          [] paid >= total /\ paid <= 0 /\ total <= 0 -> {"PAID", "UNPAID"}
          [] paid < total /\ paid > 0 -> {"PARTIAL"}
          [] paid < total /\ paid <= 0 -> {"UNPAID"}
  BY <1>3 DEF Account!Status
<1> HIDE DEF paid, total, status
<1>5. status \in Account!Status(o)
  BY <1>1, <1>2, <1>4 DEF StatusFor
<1>6. QED BY <1>1, <1>5 DEF paid, status

\* After a step, too, an order of a sound shop is shown as its account says.
LEMMA ShowsNext == MoneyInv' => Account!Shows'
BY ShowsNow, PTL

\* A step that leaves totals and entries alone changes no account, or sets the
\* total of one to what it is.
LEMMA SameAccounts ==
    ASSUME OrdersInv, MoneyInv',
           \A o \in OrderIds :
              /\ order'[o].totalAmount = order[o].totalAmount
              /\ ledger'[o].income = ledger[o].income
              /\ ledger'[o].refund = ledger[o].refund
              /\ IF Exists(o) THEN order'[o].orderStatus # "ABSENT"
                 ELSE order'[o] = order[o]
    PROVE  [Account!Next]_(Account!accountVars)
<1>1. /\ {o \in OrderIds : order'[o].orderStatus # "ABSENT"}
            = {o \in OrderIds : Exists(o)}
      /\ [o \in OrderIds |-> order'[o].totalAmount]
            = [o \in OrderIds |-> order[o].totalAmount]
      /\ [o \in OrderIds |-> ledger'[o].income]
            = [o \in OrderIds |-> ledger[o].income]
      /\ [o \in OrderIds |-> ledger'[o].refund]
            = [o \in OrderIds |-> ledger[o].refund]
  BY DEF Exists
<1>2. ASSUME NEW o \in OrderIds, Exists(o) PROVE Account!Next
  <2>1. Account!Shows'
    BY ShowsNext
  <2>2. ledger[o].income - ledger[o].refund <= order'[o].totalAmount
    BY DEF OrdersInv, MoneyInv, LedgerAgrees, NeverOverpaid
  <2>3. Account!Operate(o)
    BY <1>1, <1>2, <2>2
       DEF Account!Operate, Account!Retotal, Account!Paid, Exists
  <2>4. QED BY <2>1, <2>3 DEF Account!Next
<1>3. CASE \A o \in OrderIds : ~Exists(o)
  <2>1. \A o \in OrderIds : order'[o] = order[o]
    BY <1>3
  <2>2. QED BY <1>1, <2>1 DEF Account!accountVars, Exists
<1>4. QED BY <1>2, <1>3

\* A new order opens an account; what is paid at once is nothing or all.
LEMMA CreateOpens ==
    ASSUME OrdersInv, MoneyInv', NEW o \in OrderIds, NEW want \in Baskets,
           \/ CreateOrder(o, want)
           \/ \E i \in PaymentIds : CreatePaidOrder(o, want, i)
    PROVE  Account!Next
<1> DEFINE total == OrderTotal(NewLines(want))
<1>1. /\ ~Exists(o)
      /\ \A x \in OrderIds \ {o} : order'[x] = order[x]
      /\ order'[o].orderStatus = "NEW"
      /\ order'[o].totalAmount = total
  BY CreateWrites DEF OrdersInv
<1>2. ledger \in [OrderIds -> [income : Int, refund : Nat]]
      /\ ledger[o] = [income |-> 0, refund |-> 0] /\ total \in Int
  BY <1>1 DEF OrdersInv, MoneyInv, RowTypes, AbsentBlank, CreateOrder,
          CreatePaidOrder, PlaceOrder, Amount
<1> HIDE DEF total
<1>3. /\ \A x \in OrderIds \ {o} : ledger'[x] = ledger[x]
      /\ ledger'[o].refund = 0
      /\ ledger'[o].income \in {0, total}
  <2>1. CASE CreateOrder(o, want)
    BY <1>2, <2>1 DEF CreateOrder
  <2>2. ASSUME NEW i \in PaymentIds, CreatePaidOrder(o, want, i)
        PROVE  <1>3!1 /\ <1>3!2 /\ <1>3!3
    <3>1. ledger' = [ledger EXCEPT ![o].income = @ + total]
      BY <2>2 DEF CreatePaidOrder, BookPayment, total
    <3>2. ledger'[o] = [ledger[o] EXCEPT !.income = @ + total]
      BY <1>2, <3>1
    <3>3. QED BY <1>2, <3>1, <3>2
  <2>3. QED BY <2>1, <2>2
<1>4. /\ {x \in OrderIds : order'[x].orderStatus # "ABSENT"}
            = {x \in OrderIds : Exists(x)} \cup {o}
      /\ [x \in OrderIds |-> order'[x].totalAmount]
            = [[x \in OrderIds |-> order[x].totalAmount] EXCEPT ![o] = total]
      /\ [x \in OrderIds |-> ledger'[x].refund]
            = [x \in OrderIds |-> ledger[x].refund]
      /\ [x \in OrderIds |-> ledger'[x].income]
            = [[x \in OrderIds |-> ledger[x].income]
                  EXCEPT ![o] = ledger'[o].income]
  <2>1. {x \in OrderIds : order'[x].orderStatus # "ABSENT"}
            = {x \in OrderIds : Exists(x)} \cup {o}
    BY <1>1 DEF Exists
  <2>2. \A x \in OrderIds : ledger'[x].refund = ledger[x].refund
    BY <1>2, <1>3
  <2>3. [x \in OrderIds |-> order'[x].totalAmount]
            = [[x \in OrderIds |-> order[x].totalAmount] EXCEPT ![o] = total]
    BY <1>1
  <2>4. [x \in OrderIds |-> ledger'[x].income]
            = [[x \in OrderIds |-> ledger[x].income]
                  EXCEPT ![o] = ledger'[o].income]
    BY <1>3
  <2>5. QED BY <2>1, <2>2, <2>3, <2>4
<1>5. Account!Operate(o)
  BY <1>1, <1>3, <1>4 DEF Account!Operate, Account!Open, Exists
<1>6. QED BY <1>5, ShowsNext DEF Account!Next

\* A payment under the lock collects what is due at most.
LEMMA AddPaymentCollects ==
    ASSUME OrdersInv, MoneyInv', NEW c \in Callers, NEW i \in PaymentIds,
           NEW amount \in Amount, AddPayment(c, i, amount)
    PROVE  Account!Next
<1>1. call[c].op \in LockingOps /\ MoneyInv
  BY DEF AddPayment, LockingOps, OrdersInv
<1>o. PICK o \in OrderIds : o = call[c].order
  BY <1>1, UnderLock
<1>2. /\ o \in OrderIds /\ Exists(o)
      /\ ledger \in [OrderIds -> [income : Int, refund : Nat]]
      /\ order[o].totalAmount \in Int
  BY <1>1, <1>o DEF MoneyInv, LockedSnapshots, RowTypes, OrderRow, Amount
<1>3. /\ amount \in Nat \ {0}
      /\ ledger' = [ledger EXCEPT ![o].income = @ + amount]
      /\ SetPaid(o, call[c].row, call[c].row.paidAmount + amount)
  BY <1>o DEF AddPayment, BookPayment, Amount
<1>4. /\ \A x \in OrderIds \ {o} : order'[x] = order[x]
      /\ order'[o].orderStatus = order[o].orderStatus
      /\ order'[o].totalAmount = order[o].totalAmount
  BY <1>1, <1>o, <1>3, SetPaidWrites DEF SamePlace
<1>5. /\ \A x \in OrderIds \ {o} : ledger'[x] = ledger[x]
      /\ ledger'[o].income = ledger[o].income + amount
      /\ ledger'[o].refund = ledger[o].refund
  <2>1. ledger'[o] = [ledger[o] EXCEPT !.income = @ + amount]
    BY <1>2, <1>3
  <2>2. QED BY <1>2, <1>3, <2>1
<1>6. (ledger[o].income - ledger[o].refund) + amount <= order[o].totalAmount
  <2>1. /\ order'[o].paidAmount = ledger'[o].income - ledger'[o].refund
        /\ order'[o].paidAmount <= order'[o].totalAmount
    BY <1>2 DEF MoneyInv, LedgerAgrees, NeverOverpaid
  <2>2. ledger[o].income \in Int /\ ledger[o].refund \in Int
    BY <1>2
  <2>3. QED BY <1>2, <1>3, <1>4, <1>5, <2>1, <2>2
<1>7. /\ {x \in OrderIds : order'[x].orderStatus # "ABSENT"}
            = {x \in OrderIds : Exists(x)}
      /\ [x \in OrderIds |-> order'[x].totalAmount]
            = [x \in OrderIds |-> order[x].totalAmount]
      /\ [x \in OrderIds |-> ledger'[x].refund]
            = [x \in OrderIds |-> ledger[x].refund]
      /\ [x \in OrderIds |-> ledger'[x].income]
            = [[x \in OrderIds |-> ledger[x].income] EXCEPT ![o] =
                  @ + (ledger'[o].income - ledger[o].income)]
  <2>1. ledger'[o].income =
          ledger[o].income + (ledger'[o].income - ledger[o].income)
    BY <1>2, <1>3, <1>5
  <2>2. \A x \in OrderIds : order'[x].orderStatus # "ABSENT" <=> Exists(x)
    BY <1>2, <1>4 DEF Exists
  <2>3. \A x \in OrderIds : /\ order'[x].totalAmount = order[x].totalAmount
                            /\ ledger'[x].refund = ledger[x].refund
    BY <1>2, <1>4, <1>5
  <2>4. \A x \in OrderIds \ {o} : ledger'[x].income = ledger[x].income
    BY <1>5
  <2>5. QED BY <2>1, <2>2, <2>3, <2>4
<1>8. /\ ledger'[o].income - ledger[o].income > 0
      /\ (ledger[o].income - ledger[o].refund)
             + (ledger'[o].income - ledger[o].income) <= order[o].totalAmount
  <2>1. ledger[o].income \in Int
    BY <1>2
  <2>2. ledger'[o].income - ledger[o].income = amount /\ amount > 0
    BY <1>3, <1>5, <2>1
  <2>3. QED BY <1>6, <2>2
<1>9. Account!Operate(o)
  <2> DEFINE C == [x \in OrderIds |-> ledger[x].income]
             D == [x \in OrderIds |-> ledger'[x].income]
             n == D[o] - C[o]
  <2>1. /\ D[o] = ledger'[o].income
        /\ C[o] = ledger[o].income
        /\ n > 0
        /\ (ledger[o].income - ledger[o].refund) + n <= order[o].totalAmount
    BY <1>2, <1>8
  <2>2. D = [C EXCEPT ![o] = @ + n]
    BY <1>2, <1>7
  <2>3. o \in {x \in OrderIds : Exists(x)}
    BY <1>2
  <2>4. (C[o] - [x \in OrderIds |-> ledger[x].refund][o]) + n
          <= [x \in OrderIds |-> order[x].totalAmount][o]
    BY <1>2, <2>1
  <2> HIDE DEF n
  <2>5. Account!Collect(o, n)
    BY <1>7, <2>1, <2>2, <2>3, <2>4 DEF Account!Collect, Account!Paid, Exists
  <2>6. QED BY <2>5 DEF Account!Operate, Account!Collect, n
<1>10. QED BY <1>2, <1>9, ShowsNext DEF Account!Next

\* A deletion under the lock takes out what had been collected.
LEMMA DeletePaymentVoids ==
    ASSUME OrdersInv, OrdersRest', MoneyInv', NEW c \in Callers,
           DeletePayment(c)
    PROVE  Account!Next
<1> DEFINE i == call[c].payment
<1>1. call[c].op \in LockingOps /\ MoneyInv /\ call[c].op = "deletePayment"
  BY DEF DeletePayment, LockingOps, OrdersInv
<1>o. PICK o \in OrderIds : o = call[c].order
  BY <1>1, UnderLock
<1>2. /\ o \in OrderIds /\ Exists(o) /\ i \in PaymentIds
      /\ ledger \in [OrderIds -> [income : Int, refund : Nat]]
  BY <1>1, <1>o, CallTypes DEF MoneyInv, LockedSnapshots, RowTypes
<1>3. /\ payment[i].state = "booked"
      /\ ledger' = [ledger EXCEPT ![o].income = @ - payment[i].amount]
      /\ payment' = [payment EXCEPT ![i].state = "deleted"]
      /\ SetPaid(o, call[c].row, call[c].row.paidAmount - payment[i].amount)
  BY <1>o DEF DeletePayment, StillBooked
<1>4. /\ \A x \in OrderIds \ {o} : order'[x] = order[x]
      /\ order'[o].orderStatus = order[o].orderStatus
      /\ order'[o].totalAmount = order[o].totalAmount
  BY <1>1, <1>o, <1>3, SetPaidWrites DEF SamePlace
<1>5. payment[i].amount \in Nat /\ payment[i].amount > 0
  BY <1>2, <1>3
     DEF OrdersInv, MoneyInv, RowTypes, PaymentRow, NoPayment, PaymentsPositive
<1> HIDE DEF i
<1>6. /\ \A x \in OrderIds \ {o} : ledger'[x] = ledger[x]
      /\ ledger'[o].income = ledger[o].income - payment[i].amount
      /\ ledger'[o].refund = ledger[o].refund
  <2>1. ledger'[o] = [ledger[o] EXCEPT !.income = @ - payment[i].amount]
    BY <1>2, <1>3
  <2>2. QED BY <1>2, <1>3, <2>1
<1>7. ledger'[o].income \in Nat
  <2>1. ledger'[o].income = BookedTotal(payment', o)
    BY BookedAre DEF OrdersRest
  <2>2. payment' \in [PaymentIds -> PaymentRow]
    BY DEF MoneyInv, RowTypes
  <2>3. \A j \in PaymentIds : Amounts(payment')[j] \in Nat
    BY <2>2 DEF Amounts, PaymentRow, NoPayment
  <2>4. /\ IsFiniteSet(BookedFor(payment', o))
        /\ BookedFor(payment', o) \subseteq PaymentIds
    BY FS_Subset DEF BookedFor
  <2>5. QED BY <2>1, <2>3, <2>4, SumNatural DEF BookedTotal
<1>8. Account!Operate(o)
  <2> DEFINE C == [x \in OrderIds |-> ledger[x].income]
             D == [x \in OrderIds |-> ledger'[x].income]
             n == C[o] - D[o]
  <2>1. ledger[o].income \in Int
    BY <1>2
  <2>2. C[o] = ledger[o].income /\ D[o] = ledger'[o].income
    OBVIOUS
  <2>3. n > 0 /\ n <= C[o] /\ D[o] = C[o] - n
    BY <1>5, <1>6, <1>7, <2>1, <2>2
  <2>4. /\ D = [C EXCEPT ![o] = @ - n]
        /\ {x \in OrderIds : order'[x].orderStatus # "ABSENT"}
              = {x \in OrderIds : Exists(x)}
        /\ [x \in OrderIds |-> order'[x].totalAmount]
              = [x \in OrderIds |-> order[x].totalAmount]
        /\ [x \in OrderIds |-> ledger'[x].refund]
              = [x \in OrderIds |-> ledger[x].refund]
        /\ o \in {x \in OrderIds : Exists(x)}
    <3>1. D = [C EXCEPT ![o] = @ - n]
      BY <1>2, <1>6, <2>3
    <3>2. \A x \in OrderIds : order'[x].orderStatus # "ABSENT" <=> Exists(x)
      BY <1>2, <1>4, <1>6 DEF Exists
    <3>3. \A x \in OrderIds : /\ order'[x].totalAmount = order[x].totalAmount
                              /\ ledger'[x].refund = ledger[x].refund
      BY <1>2, <1>4, <1>6
    <3>4. o \in {x \in OrderIds : Exists(x)}
      BY <1>2, <1>4
    <3> HIDE DEF n, C, D
    <3>5. QED BY <3>1, <3>2, <3>3, <3>4
  <2> HIDE DEF n
  <2>5. Account!Void(o, n)
    BY <2>3, <2>4 DEF Account!Void, Exists
  <2>6. QED BY <2>5 DEF Account!Operate, Account!Void, n
<1>9. QED BY <1>8, ShowsNext DEF Account!Next

\* An edit sets a new total that covers what is paid.
LEMMA UpdateRetotals ==
    ASSUME OrdersInv, MoneyInv', NEW c \in Callers, NEW want,
           UpdateOrder(c, want)
    PROVE  Account!Next
<1>1. MoneyInv
  BY DEF OrdersInv
<1>o. PICK o \in OrderIds : o = call[c].order
  BY <1>1, UpdateWrites
<1>2. /\ \A x \in OrderIds \ {o} : order'[x] = order[x]
      /\ order'[o].orderStatus = order[o].orderStatus
      /\ order'[o].paidAmount = order[o].paidAmount
      /\ Exists(o)
  BY <1>1, <1>o, UpdateWrites DEF SamePlace
<1>3. ledger' = ledger
  BY DEF UpdateOrder
<1>4. ledger[o].income - ledger[o].refund <= order'[o].totalAmount
  BY <1>1, <1>2 DEF MoneyInv, LedgerAgrees, NeverOverpaid
<1>5. Account!Operate(o)
  <2> DEFINE T == [x \in OrderIds |-> order[x].totalAmount]
             U == [x \in OrderIds |-> order'[x].totalAmount]
             n == U[o]
  <2>1. /\ U = [T EXCEPT ![o] = n]
        /\ {x \in OrderIds : order'[x].orderStatus # "ABSENT"}
              = {x \in OrderIds : Exists(x)}
        /\ o \in {x \in OrderIds : Exists(x)}
    BY <1>2 DEF Exists
  <2>2. [x \in OrderIds |-> ledger[x].income][o]
          - [x \in OrderIds |-> ledger[x].refund][o] <= n
    BY <1>4
  <2> HIDE DEF n
  <2>3. Account!Retotal(o, n)
    BY <1>3, <2>1, <2>2 DEF Account!Retotal, Account!Paid, Exists
  <2>4. QED BY <2>3 DEF Account!Operate, Account!Retotal, n
<1>6. QED BY <1>5, ShowsNext DEF Account!Next

\* A return refunds at most what is paid, or nothing.
LEMMA ReturnRefunds ==
    ASSUME OrdersInv, MoneyInv', NEW c \in Callers, NEW back \in Baskets,
           NEW restock \in BOOLEAN, NEW asked \in BOOLEAN,
           NEW exclude \in BOOLEAN,
           CreateReturn(c, back, restock, asked, exclude)
    PROVE  [Account!Next]_(Account!accountVars)
<1>1. MoneyInv /\ call[c].op \in LockingOps
  BY DEF OrdersInv, CreateReturn, LockingOps
<1>o. PICK o \in OrderIds : o = call[c].order
  BY <1>1, UnderLock
<1> DEFINE refund == Refund(order[o], item[o], back, asked)
<1>2. /\ \A x \in OrderIds \ {o} : order'[x] = order[x]
      /\ order'[o].orderStatus = order[o].orderStatus
      /\ order'[o].totalAmount = order[o].totalAmount
      /\ order'[o].paidAmount = IF refund > 0
                                THEN order[o].paidAmount - refund
                                ELSE order[o].paidAmount
      /\ ledger' = [ledger EXCEPT ![o].refund = @ + refund]
      /\ Exists(o)
  BY <1>1, <1>o, ReturnWrites DEF SamePlace
<1>3. ledger \in [OrderIds -> [income : Int, refund : Nat]]
  BY DEF OrdersInv, MoneyInv, RowTypes
<1>4. /\ refund \in Nat
      /\ refund > 0 => refund <= order[o].paidAmount
  <2>1. order[o].paidAmount \in Int
    BY DEF OrdersInv, MoneyInv, RowTypes, OrderRow
  <2>2. call[c].item = item[o]
    BY <1>1, <1>o, UnderLock
  <2>3. ReturnValue(item[o], back) \in Amount
    BY <2>2 DEF CreateReturn
  <2>4. ReturnValue(item[o], back) \in Nat
    BY <2>3 DEF Amount
  <2>5. QED BY <2>1, <2>4 DEF Refund
<1> HIDE DEF refund
<1>5. /\ \A x \in OrderIds \ {o} : ledger'[x] = ledger[x]
      /\ ledger'[o].income = ledger[o].income
      /\ ledger'[o].refund = ledger[o].refund + refund
  <2>1. ledger'[o] = [ledger[o] EXCEPT !.refund = @ + refund]
    BY <1>2, <1>3
  <2>2. QED BY <1>2, <1>3, <2>1
<1>6. CASE refund = 0
  <2>1. ledger'[o].refund = ledger[o].refund
    BY <1>3, <1>5, <1>6
  <2>2. QED BY <1>2, <1>5, <2>1, SameAccounts DEF Exists
<1>7. CASE refund > 0
  <2> DEFINE R == [x \in OrderIds |-> ledger[x].refund]
             S == [x \in OrderIds |-> ledger'[x].refund]
             n == S[o] - R[o]
  <2>1. R[o] \in Int /\ R[o] = ledger[o].refund /\ S[o] = ledger'[o].refund
    BY <1>3
  <2>2. n = refund /\ S[o] = R[o] + n
    BY <1>4, <1>5, <2>1
  <2>3. ledger[o].income - ledger[o].refund = order[o].paidAmount
    BY <1>1 DEF MoneyInv, LedgerAgrees
  <2>4. n > 0 /\ n <= [x \in OrderIds |-> ledger[x].income][o] - R[o]
    BY <1>4, <1>7, <2>2, <2>3
  <2>a. \A x \in OrderIds \ {o} : S[x] = R[x]
    BY <1>5
  <2>b. S = [R EXCEPT ![o] = @ + n]
    BY <2>2, <2>a
  <2>5. /\ {x \in OrderIds : order'[x].orderStatus # "ABSENT"}
              = {x \in OrderIds : Exists(x)}
        /\ [x \in OrderIds |-> order'[x].totalAmount]
              = [x \in OrderIds |-> order[x].totalAmount]
        /\ [x \in OrderIds |-> ledger'[x].income]
              = [x \in OrderIds |-> ledger[x].income]
        /\ o \in {x \in OrderIds : Exists(x)}
    BY <1>2, <1>5 DEF Exists
  <2> HIDE DEF n
  <2>6. Account!Refund(o, n)
    BY <2>4, <2>b, <2>5 DEF Account!Refund, Account!Paid, Exists
  <2>7. Account!Operate(o)
    BY <2>6 DEF Account!Operate, Account!Refund, n
  <2>8. QED BY <2>7, ShowsNext DEF Account!Next
<1>8. QED BY <1>4, <1>6, <1>7

\* Every step of the shop is a step of the account or changes no account.
LEMMA StepAccounts ==
    ASSUME OrdersInv, OrdersInv', [Next]_vars
    PROVE  [Account!Next]_(Account!accountVars)
<1>1. MoneyInv' /\ OrdersRest'
  BY DEF OrdersInv, OrdersRest
<1>2. ASSUME LinesKept PROVE [Account!Next]_(Account!accountVars)
  BY <1>1, <1>2, SameAccounts DEF LinesKept
<1>3. ASSUME UNCHANGED <<order, item, payment, ledger>> PROVE LinesKept
  BY <1>3 DEF LinesKept, Exists
<1>4. CASE UNCHANGED vars
  BY <1>2, <1>3, <1>4 DEF vars
<1>5. ASSUME NEW c \in Callers, Lock(c) \/ Read(c) \/ Abort(c)
      PROVE  [Account!Next]_(Account!accountVars)
  <2>1. UNCHANGED <<order, item, payment, ledger>>
    BY <1>5 DEF Lock, UpdateOrderLock, AddPaymentLock, ReturnLock,
             DeletePaymentLock, Read, UpdateStatusRead, CancelRead,
             DeletePaymentFind, AssignDriverRead, StartRead, CompleteRead,
             CreateHandoverRead, PayrollCloseRead, CreateBatchReadStock,
             CreateBatchReadTracked, WriteOffRead, Abort
  <2>2. QED BY <1>2, <1>3, <2>1
<1>6. ASSUME NEW c \in Callers, UnlockedWrite(c)
      PROVE  [Account!Next]_(Account!accountVars)
  BY <1>2, <1>6, UnlockedKept
<1>7. ASSUME NEW c \in Callers, LockedWrite(c)
      PROVE  [Account!Next]_(Account!accountVars)
  BY <1>1, <1>7, UpdateRetotals, AddPaymentCollects, DeletePaymentVoids,
     ReturnRefunds DEF LockedWrite
<1>8. ASSUME SingleStep PROVE [Account!Next]_(Account!accountVars)
  <2>1. CASE \/ \E p \in Products, qty \in -MaxQty..MaxQty : AdjustStock(p, qty)
             \/ \E p \in Products, price \in Prices, on \in BOOLEAN :
                   EditProduct(p, price, on)
             \/ \E y \in PayoutIds : PayrollPay(y)
             \/ \E p \in Products, qty \in 1..MaxQty : ReceiveLine(p, qty)
    <3>1. UNCHANGED <<order, item, payment, ledger>>
      BY <2>1 DEF AdjustStock, EditProduct, PayrollPay, ReceiveLine
    <3>2. QED BY <1>2, <1>3, <3>1
  <2>2. QED BY <1>1, <1>8, <2>1, CreateOpens
            DEF SingleStep, ReceiveUndated, ReceiveDated
<1>9. QED BY <1>4, <1>5, <1>6, <1>7, <1>8 DEF Next

\* The handlers that lock the order look atomic: under any interleaving, the
\* money of orders behaves as accounts on which each operation is one step.
THEOREM ShopImplementsAccount == Spec => ImplementsAccount
<1>1. Init => Account!Init
  <2> SUFFICES ASSUME Init PROVE Account!Init
    OBVIOUS
  <2>1. Account!Shows
    BY InitMoney, ShowsNow
  <2>2. \A o \in OrderIds : /\ order[o] = NoOrder
                            /\ ledger[o] = [income |-> 0, refund |-> 0]
    BY DEF Init
  <2>3. QED BY <2>1, <2>2 DEF Account!Init, Exists, NoOrder
<1>2. OrdersInv /\ OrdersInv' /\ [Next]_vars
        => [Account!Next]_(Account!accountVars)
  BY StepAccounts
<1>3. QED BY <1>1, <1>2, OrdersAlways, PTL
          DEF Spec, ImplementsAccount, Account!Spec

-----------------------------------------------------------------------------
(* Snapshot prices.                                                        *)

\* A line that stays keeps its price in this step.
PricesStay ==
    \A o \in OrderIds, p \in Products :
        (item[o][p].qty > 0 /\ item'[o][p].qty > 0) =>
            item'[o][p].priceAtOrder = item[o][p].priceAtOrder

\* No step gives another price to a line that stays.
LEMMA StepPrices ==
    ASSUME OrdersInv, [Next]_vars
    PROVE  PricesStay
<1>1. MoneyInv
  BY DEF OrdersInv
<1>2. ASSUME item' = item PROVE PricesStay
  BY <1>2 DEF PricesStay
<1>3. ASSUME NEW o \in OrderIds, \A x \in OrderIds \ {o} : item'[x] = item[x],
             \A p \in Products : item[o][p].qty > 0 /\ item'[o][p].qty > 0 =>
                 item'[o][p].priceAtOrder = item[o][p].priceAtOrder
      PROVE  PricesStay
  BY <1>3 DEF PricesStay
<1>4. ASSUME NEW c \in Callers, Lock(c) \/ Read(c) \/ Abort(c)
      PROVE  PricesStay
  <2>1. item' = item
    BY <1>4 DEF Lock, UpdateOrderLock, AddPaymentLock, ReturnLock,
             DeletePaymentLock, Read, UpdateStatusRead, CancelRead,
             DeletePaymentFind, AssignDriverRead, StartRead, CompleteRead,
             CreateHandoverRead, PayrollCloseRead, CreateBatchReadStock,
             CreateBatchReadTracked, WriteOffRead, Abort
  <2>2. QED BY <1>2, <2>1
<1>5. ASSUME NEW c \in Callers, NEW want \in Baskets, UpdateOrder(c, want)
      PROVE  PricesStay
  <2>1. PICK o \in OrderIds : o = call[c].order
    BY <1>1, <1>5, UpdateWrites
  <2>2. /\ \A x \in OrderIds \ {o} : item'[x] = item[x]
        /\ item'[o] = EditedLines(item[o], want)
    BY <1>1, <1>5, <2>1, UpdateWrites
  <2>3. ASSUME NEW p \in Products, item[o][p].qty > 0, item'[o][p].qty > 0
        PROVE  item'[o][p].priceAtOrder = item[o][p].priceAtOrder
    <3>1. item[o][p] \in ItemRow
      BY <1>1 DEF MoneyInv, RowTypes
    <3>2. \/ item'[o][p] = NoItem
          \/ item'[o][p] = [item[o][p] EXCEPT !.qty = want[p]]
      BY <2>2, <2>3 DEF EditedLines
    <3>3. QED BY <2>3, <3>1, <3>2 DEF ItemRow, NoItem
  <2>4. QED BY <1>3, <2>2, <2>3
<1>6. ASSUME NEW c \in Callers, NEW back \in Baskets, NEW restock \in BOOLEAN,
             NEW asked \in BOOLEAN, NEW exclude \in BOOLEAN,
             CreateReturn(c, back, restock, asked, exclude)
      PROVE  PricesStay
  <2>1. PICK o \in OrderIds : o = call[c].order
    BY <1>1, <1>6, UnderLock DEF CreateReturn, LockingOps
  <2>2. /\ \A x \in OrderIds \ {o} : item'[x] = item[x]
        /\ item'[o] = ReturnedLines(item[o], back, restock)
    <3>1. item' = [item EXCEPT ![o] = ReturnedLines(call[c].item, back, restock)]
      BY <1>6, <2>1 DEF CreateReturn
    <3>2. call[c].item = item[o] /\ item \in [OrderIds -> [Products -> ItemRow]]
      BY <1>1, <1>6, <2>1, UnderLock
         DEF CreateReturn, LockingOps, MoneyInv, RowTypes
    <3>3. QED BY <3>1, <3>2
  <2>3. ASSUME NEW p \in Products
        PROVE  item'[o][p].priceAtOrder = item[o][p].priceAtOrder
    <3>1. item[o][p] \in ItemRow
      BY <1>1 DEF MoneyInv, RowTypes
    <3>2. item'[o][p] = [item[o][p] EXCEPT
              !.returned = @ + back[p],
              !.restocked = @ + (IF restock THEN back[p] ELSE 0)]
      BY <2>2 DEF ReturnedLines
    <3>3. QED BY <3>1, <3>2 DEF ItemRow
  <2>4. QED BY <1>3, <2>2, <2>3
<1>7. ASSUME NEW c \in Callers, LockedWrite(c) PROVE PricesStay
  <2>1. ASSUME NEW i \in PaymentIds, NEW amount \in Amount,
               AddPayment(c, i, amount)
        PROVE  PricesStay
    BY <1>2, <2>1 DEF AddPayment
  <2>2. CASE DeletePayment(c)
    BY <1>2, <2>2 DEF DeletePayment
  <2>3. QED BY <1>5, <1>6, <1>7, <2>1, <2>2 DEF LockedWrite
<1>8. ASSUME NEW c \in Callers, UnlockedWrite(c) PROVE PricesStay
  BY <1>2, <1>8, UnlockedKept DEF LinesKept
<1>9. ASSUME SingleStep PROVE PricesStay
  <2>1. ASSUME NEW o \in OrderIds, NEW want \in Baskets,
               \/ CreateOrder(o, want)
               \/ \E i \in PaymentIds : CreatePaidOrder(o, want, i)
        PROVE  PricesStay
    <3>1. /\ ~Exists(o)
          /\ \A x \in OrderIds \ {o} : item'[x] = item[x]
      BY <1>1, <2>1, CreateWrites
    <3>2. \A p \in Products : item[o][p].qty = 0
      BY <3>1 DEF OrdersInv, AbsentBlank, NoItem
    <3>3. QED BY <1>3, <3>1, <3>2
  <2>2. CASE \/ \E p \in Products, qty \in -MaxQty..MaxQty : AdjustStock(p, qty)
             \/ \E p \in Products, price \in Prices, on \in BOOLEAN :
                   EditProduct(p, price, on)
             \/ \E y \in PayoutIds : PayrollPay(y)
             \/ \E p \in Products, qty \in 1..MaxQty : ReceiveLine(p, qty)
    BY <1>2, <2>2 DEF AdjustStock, EditProduct, PayrollPay, ReceiveLine
  <2>3. QED BY <1>9, <2>1, <2>2 DEF SingleStep, ReceiveUndated, ReceiveDated
<1>10. QED BY <1>2, <1>4, <1>7, <1>8, <1>9 DEF Next, vars

\* However prices change and orders are edited, a line keeps the price it was
\* ordered at.
THEOREM SnapshotPricesAlwaysKept == Spec => SnapshotPricesKept
<1>1. OrdersInv /\ [Next]_vars => [PricesStay]_vars
  BY StepPrices
<1>2. QED BY <1>1, OrdersAlways, PTL DEF Spec, SnapshotPricesKept, PricesStay

-----------------------------------------------------------------------------
(* One order at a time.                                                    *)

USE NoneAssumption, BoundsAssumption DEF NoneAssumption, BoundsAssumption

\* What DeskInv says of one order whose checks held, but of its payout.
DeskOrder(row) ==
    /\ row.deliveryStatus = "PENDING" <=> row.assignedDriver = None
    /\ row.deliveryStatus = "DELIVERED" => row.orderStatus = "COMPLETED"
    /\ row.excludeFromPayroll => row.payout = None
    /\ row.orderStatus = "CANCELLED" =>
           row.assignedDriver = None /\ row.paidAmount <= 0
    /\ row.returnState # "NONE" => row.orderStatus \in {"READY", "COMPLETED"}

\* The orders that may be missing in a payout that counts them.
Doubtful == OrderIds \cap stale

\* Each payout counts the orders that carry its id.
PayoutsCount ==
    \A y \in PayoutIds :
        /\ Cardinality(Carried(y)) <= payout[y].deliveredCount
        /\ payout[y].deliveredCount <= Cardinality(Carried(y) \cup Doubtful)

\* DeskInv, of this state and the next, one order at a time.
LEMMA DeskParts ==
    /\ DeskInv <=>
         /\ OrdersInv /\ PayoutsCount /\ UnusedPayouts
         /\ \A o \in OrderIds \ stale : DeskOrder(order[o])
    /\ DeskInv' <=>
         /\ OrdersInv' /\ PayoutsCount' /\ UnusedPayouts'
         /\ \A o \in OrderIds \ stale' : DeskOrder(order'[o])
BY DEF DeskInv, DeliveryConsistent, PayoutMatchesOrders, CancelledAtRest,
       ReturnedWentOut, DeskOrder, PayoutsCount, Doubtful

\* The step leaves order o as DeskInv wants it, and in the payout it is in.
Sound(o) ==
    /\ o \notin stale' => DeskOrder(order'[o])
    /\ order'[o].payout = order[o].payout

\* An order that is not touched.
LEMMA Untouched ==
    ASSUME DeskInv, NEW o \in OrderIds, order'[o] = order[o],
           stale \subseteq stale'
    PROVE  Sound(o)
BY DeskParts DEF Sound

\* What a write without a lock leaves out of `stale' has passed its check.
LEMMA StillChecked ==
    ASSUME NEW c \in Callers
    PROVE  LET o == call[c].order
               d == call[c].driver
           IN  /\ UpdateStatus(c) /\ o \notin stale' => MayMove(o, call[c].to)
               /\ Cancel(c) /\ o \notin stale' =>
                    MayCancel(o) /\ SameLines(c, o)
               /\ AssignDriver(c) /\ o \notin stale' =>
                    order[o].orderStatus \in ASSIGNABLE
               /\ Start(c) /\ o \notin stale' => MayStart(o, d)
               /\ CompleteDelivered(c) /\ o \notin stale' => MayComplete(o, d)
               /\ CompleteFailed(c) /\ o \notin stale' => MayComplete(o, d)
               /\ \A h, x : CreateHandover(c, h) /\ x \in call[c].orders
                              /\ x \notin stale' => MayHandOver(x, d)
               /\ \A y, x : PayrollClose(c, y) /\ x \in call[c].orders
                              /\ x \notin stale' => Payable(x, d)
<1> DEFINE o == call[c].order
           d == call[c].driver
<1>1. UpdateStatus(c) /\ o \notin stale' => MayMove(o, call[c].to)
  BY DEF UpdateStatus, FinishUnlocked
<1>2. Cancel(c) /\ o \notin stale' => MayCancel(o) /\ SameLines(c, o)
  BY DEF Cancel, FinishUnlocked
<1>3. AssignDriver(c) /\ o \notin stale' => order[o].orderStatus \in ASSIGNABLE
  BY DEF AssignDriver, FinishUnlocked
<1>4. Start(c) /\ o \notin stale' => MayStart(o, d)
  BY DEF Start, FinishUnlocked
<1>5. CompleteDelivered(c) /\ o \notin stale' => MayComplete(o, d)
  BY DEF CompleteDelivered, FinishUnlocked
<1>6. CompleteFailed(c) /\ o \notin stale' => MayComplete(o, d)
  BY DEF CompleteFailed, FinishUnlocked
<1>7. \A h, x : CreateHandover(c, h) /\ x \in call[c].orders /\ x \notin stale'
                  => MayHandOver(x, d)
  BY DEF CreateHandover, FinishUnlocked
<1>8. \A y, x : PayrollClose(c, y) /\ x \in call[c].orders /\ x \notin stale'
                  => Payable(x, d)
  BY DEF PayrollClose, FinishUnlocked
<1>9. QED BY <1>1, <1>2, <1>3, <1>4, <1>5, <1>6, <1>7, <1>8

\* A step that is not the end of a request without a lock adds nothing to the
\* history.
LEMMA OthersWriteNothingStale ==
    ASSUME [Next]_vars, \A c \in Callers : ~UnlockedWrite(c)
    PROVE  UNCHANGED history
<1>1. ASSUME NEW c \in Callers, Lock(c) \/ Read(c) \/ Abort(c)
      PROVE  UNCHANGED history
  BY <1>1 DEF Lock, UpdateOrderLock, AddPaymentLock, ReturnLock,
              DeletePaymentLock, LockOrder, Read, Begin, UpdateStatusRead,
              CancelRead, DeletePaymentFind, AssignDriverRead, StartRead,
              CompleteRead, CreateHandoverRead, PayrollCloseRead,
              CreateBatchReadStock, CreateBatchReadTracked, WriteOffRead,
              Abort, history
<1>2. ASSUME NEW c \in Callers, LockedWrite(c) PROVE UNCHANGED history
  <2>1. \A o : Commit(c, o) => UNCHANGED history
    BY DEF Commit
  <2>2. \A want : UpdateOrder(c, want) => \E o : Commit(c, o)
    BY DEF UpdateOrder
  <2>3. \A i, amount : AddPayment(c, i, amount) => \E o : Commit(c, o)
    BY DEF AddPayment
  <2>4. DeletePayment(c) => \E o : Commit(c, o)
    BY DEF DeletePayment
  <2>5. \A back, restock, asked, exclude :
           CreateReturn(c, back, restock, asked, exclude) => \E o : Commit(c, o)
    <3> SUFFICES ASSUME NEW back, NEW restock, NEW asked, NEW exclude,
                        CreateReturn(c, back, restock, asked, exclude)
                 PROVE  \E o : Commit(c, o)
      OBVIOUS
    <3>1. Commit(c, call[c].order)
      BY Zenon DEF CreateReturn
    <3>2. QED BY <3>1
  <2>6. QED BY <1>2, <2>1, <2>2, <2>3, <2>4, <2>5 DEF LockedWrite
<1>3. ASSUME SingleStep PROVE UNCHANGED history
  BY <1>3 DEF SingleStep, CreateOrder, CreatePaidOrder, PlaceOrder, AdjustStock,
              ReceiveUndated, ReceiveDated, ReceiveLine, EditProduct,
              PayrollPay, history
<1>4. QED BY <1>1, <1>2, <1>3 DEF Next, vars, history

\* The history only grows.
LEMMA StaleGrows ==
    ASSUME [Next]_vars
    PROVE  stale \subseteq stale' /\ revived \subseteq revived'
<1>1. ASSUME NEW c \in Callers, UnlockedWrite(c)
      PROVE  stale \subseteq stale' /\ revived \subseteq revived'
  BY <1>1 DEF UnlockedWrite, UpdateStatus, Cancel, AssignDriver, Start,
              CompleteDelivered, CompleteFailed, CreateHandover, PayrollClose,
              CreateBatch, WriteOff, FinishUnlocked
<1>2. QED BY <1>1, OthersWriteNothingStale DEF history

\* What a transition of an order's status comes from and leads to.
LEMMA Transitions ==
    ASSUME NEW o \in OrderIds, NEW to, MayMove(o, to),
           order[o].orderStatus \in OrderStatus
    PROVE  /\ order[o].orderStatus \in EDITABLE
           /\ order[o].orderStatus = "READY" => to = "COMPLETED"
<1>1. /\ order[o].orderStatus \in OrderStatus \ {"ABSENT"}
      /\ to \in ALLOWED_TRANSITIONS[order[o].orderStatus]
  BY DEF MayMove, Exists
<1>2. /\ ALLOWED_TRANSITIONS["COMPLETED"] = {}
      /\ ALLOWED_TRANSITIONS["CANCELLED"] = {}
      /\ ALLOWED_TRANSITIONS["READY"] = {"COMPLETED"}
  BY DEF ALLOWED_TRANSITIONS
<1>3. QED BY <1>1, <1>2 DEF OrderStatus, EDITABLE

\* The handlers that write one order without its lock.
LEMMA OneOrderSound ==
    ASSUME DeskInv, NEW c \in Callers, NEW x \in OrderIds,
           stale \subseteq stale',
           \/ UpdateStatus(c) \/ Cancel(c) \/ AssignDriver(c) \/ Start(c)
           \/ CompleteDelivered(c) \/ CompleteFailed(c)
    PROVE  Sound(x)
<1> DEFINE o == call[c].order
<1>1. MoneyInv /\ RowTypes
  BY DEF DeskInv, OrdersInv, MoneyInv
<1>2. o \in OrderIds
  BY <1>1, CallTypes DEF UpdateStatus, Cancel, AssignDriver, Start,
                         CompleteDelivered, CompleteFailed
<1>3. /\ o \notin stale' => DeskOrder(order[o])
      /\ order[o] \in OrderRow
  BY <1>1, <1>2, DeskParts DEF RowTypes
<1>4. call[c].op \in {"assign", "start", "deliver", "fail"} =>
         call[c].driver # None
  BY <1>1, CallTypes
<1> HIDE DEF o
<1>5. ASSUME NEW s, NEW v, NEW d, Writes(o, s, v, d),
             o \notin stale' => DeskOrder(order'[o])
      PROVE  Sound(x)
  <2>1. CASE x = o
    BY <1>5, <2>1 DEF Sound, Writes
  <2>2. CASE x # o
    BY <1>5, <2>2, Untouched DEF Writes
  <2>3. QED BY <2>1, <2>2
<1>6. CASE UpdateStatus(c)
  <2>1. Writes(o, call[c].to, order[o].deliveryStatus, order[o].assignedDriver)
    BY <1>1, <1>6, OneOrderWrites DEF o
  <2>2. ASSUME o \notin stale' PROVE DeskOrder(order'[o])
    <3>1. MayMove(o, call[c].to)
      BY <1>6, <2>2, StillChecked DEF o
    <3>2. call[c].to \in OrderStatus \ {"ABSENT", "CANCELLED"}
      BY <1>1, <1>6, CallTypes DEF UpdateStatus
    <3>3. /\ order[o].orderStatus \in EDITABLE
          /\ order[o].orderStatus = "READY" => call[c].to = "COMPLETED"
      BY <1>2, <1>3, <3>1, Transitions DEF OrderRow
    <3>4. QED BY <1>3, <2>1, <2>2, <3>2, <3>3 DEF DeskOrder, Writes, EDITABLE
  <2>3. QED BY <1>5, <2>1, <2>2
<1>7. CASE Cancel(c)
  <2>1. Writes(o, "CANCELLED", "PENDING", None)
    BY <1>1, <1>7, OneOrderWrites DEF o
  <2>2. ASSUME o \notin stale' PROVE DeskOrder(order'[o])
    <3>1. MayMove(o, "CANCELLED") /\ order[o].paidAmount <= 0
      BY <1>7, <2>2, StillChecked DEF MayCancel, o
    <3>2. order[o].orderStatus \in EDITABLE \ {"READY"}
      BY <1>2, <1>3, <3>1, Transitions DEF OrderRow
    <3>3. QED BY <1>3, <2>1, <2>2, <3>1, <3>2 DEF DeskOrder, Writes, EDITABLE
  <2>3. QED BY <1>5, <2>1, <2>2
<1>8. CASE AssignDriver(c)
  <2>1. Writes(o, order[o].orderStatus, "ASSIGNED", call[c].driver)
    BY <1>1, <1>8, OneOrderWrites DEF o
  <2>2. ASSUME o \notin stale' PROVE DeskOrder(order'[o])
    <3>1. order[o].orderStatus \in ASSIGNABLE
      BY <1>8, <2>2, StillChecked DEF o
    <3>2. call[c].driver # None
      BY <1>4, <1>8 DEF AssignDriver
    <3>3. QED BY <1>3, <2>1, <2>2, <3>1, <3>2 DEF DeskOrder, Writes, ASSIGNABLE
  <2>3. QED BY <1>5, <2>1, <2>2
<1>9. CASE Start(c)
  <2>1. Writes(o, order[o].orderStatus, "ON_THE_WAY", order[o].assignedDriver)
    BY <1>1, <1>9, OneOrderWrites DEF o
  <2>2. ASSUME o \notin stale' PROVE DeskOrder(order'[o])
    <3>1. MayStart(o, call[c].driver) /\ call[c].driver # None
      BY <1>4, <1>9, <2>2, StillChecked DEF Start, o
    <3>2. QED BY <1>3, <2>1, <2>2, <3>1 DEF DeskOrder, Writes, MayStart
  <2>3. QED BY <1>5, <2>1, <2>2
<1>10. CASE CompleteDelivered(c)
  <2>1. Writes(o, "COMPLETED", "DELIVERED", order[o].assignedDriver)
    BY <1>1, <1>10, OneOrderWrites DEF o
  <2>2. ASSUME o \notin stale' PROVE DeskOrder(order'[o])
    <3>1. MayComplete(o, call[c].driver) /\ call[c].driver # None
      BY <1>4, <1>10, <2>2, StillChecked DEF CompleteDelivered, o
    <3>2. QED BY <1>3, <2>1, <2>2, <3>1 DEF DeskOrder, Writes, MayComplete
  <2>3. QED BY <1>5, <2>1, <2>2
<1>11. CASE CompleteFailed(c)
  <2>1. Writes(o, order[o].orderStatus, "FAILED", order[o].assignedDriver)
    BY <1>1, <1>11, OneOrderWrites DEF o
  <2>2. ASSUME o \notin stale' PROVE DeskOrder(order'[o])
    <3>1. MayComplete(o, call[c].driver) /\ call[c].driver # None
      BY <1>4, <1>11, <2>2, StillChecked DEF CompleteFailed, o
    <3>2. QED BY <1>3, <2>1, <2>2, <3>1 DEF DeskOrder, Writes, MayComplete
  <2>3. QED BY <1>5, <2>1, <2>2
<1>12. QED BY <1>6, <1>7, <1>8, <1>9, <1>10, <1>11

\* A sheet takes over orders that are on no sheet yet.
LEMMA HandoverSound ==
    ASSUME DeskInv, NEW c \in Callers, NEW h \in HandoverIds,
           stale \subseteq stale', CreateHandover(c, h), NEW x \in OrderIds
    PROVE  Sound(x)
<1> DEFINE S == call[c].orders
           d == call[c].driver
<1>1. MoneyInv /\ RowTypes
  BY DEF DeskInv, OrdersInv, MoneyInv
<1>2. d \in Drivers
  BY <1>1, CallTypes DEF CreateHandover
<1>3. (x \notin stale' => DeskOrder(order[x])) /\ order[x] \in OrderRow
  BY <1>1, DeskParts DEF RowTypes
<1>4. IF x \notin S THEN order'[x] = order[x]
      ELSE order'[x] = [order[x] EXCEPT !.handover = h,
                           !.orderStatus = "READY",
                           !.assignedDriver = d,
                           !.deliveryStatus = "ASSIGNED"]
  BY <1>1, ManyOrdersWrite
<1> HIDE DEF S, d
<1>5. CASE x \notin S
  BY <1>4, <1>5, Untouched
<1>6. CASE x \in S
  <2>1. /\ order'[x].orderStatus = "READY"
        /\ order'[x].assignedDriver = d
        /\ order'[x].deliveryStatus = "ASSIGNED"
        /\ order'[x].payout = order[x].payout
        /\ order'[x].excludeFromPayroll = order[x].excludeFromPayroll
        /\ order'[x].returnState = order[x].returnState
    BY <1>3, <1>4, <1>6 DEF OrderRow
  <2>2. x \notin stale' => DeskOrder(order'[x])
    BY <1>2, <1>3, <2>1 DEF DeskOrder
  <2>3. QED BY <2>1, <2>2 DEF Sound
<1>7. QED BY <1>5, <1>6

\* A new order starts at the desk.
LEMMA CreateSound ==
    ASSUME DeskInv, NEW o \in OrderIds, NEW want, stale \subseteq stale',
           \/ CreateOrder(o, want)
           \/ \E i \in PaymentIds : CreatePaidOrder(o, want, i),
           NEW x \in OrderIds
    PROVE  Sound(x)
<1>1. MoneyInv /\ RowTypes
  BY DEF DeskInv, OrdersInv, MoneyInv
<1>2. CASE x # o
  BY <1>1, <1>2, CreateWrites, Untouched
<1>3. CASE x = o
  <2>1. ~Exists(o)
    BY <1>1, CreateWrites
  <2>2. order[o] = NoOrder
    BY <2>1 DEF DeskInv, OrdersInv, AbsentBlank
  <2>3. order[o].payout = None
    BY <2>2 DEF NoOrder
  <2>4. /\ order'[o].orderStatus = "NEW"
        /\ order'[o].deliveryStatus = "PENDING"
        /\ order'[o].assignedDriver = None
        /\ order'[o].payout = None
        /\ order'[o].returnState = "NONE"
        /\ order'[o].excludeFromPayroll = FALSE
    BY <1>1, CreateWrites
  <2>5. QED BY <1>3, <2>3, <2>4 DEF Sound, DeskOrder
<1>4. QED BY <1>2, <1>3

\* An edit writes neither status nor driver.
LEMMA UpdateSound ==
    ASSUME DeskInv, NEW c \in Callers, NEW want, UpdateOrder(c, want),
           stale \subseteq stale', NEW x \in OrderIds
    PROVE  Sound(x)
<1> DEFINE o == call[c].order
<1>1. MoneyInv
  BY DEF DeskInv, OrdersInv
<1>2. /\ o \in OrderIds
      /\ \A y \in OrderIds \ {o} : order'[y] = order[y]
      /\ SamePlace(o)
      /\ order'[o].paidAmount = order[o].paidAmount
      /\ order'[o].returnState = order[o].returnState
      /\ order'[o].excludeFromPayroll = order[o].excludeFromPayroll
  BY <1>1, UpdateWrites
<1> HIDE DEF o
<1>3. CASE x # o
  BY <1>2, <1>3, Untouched
<1>4. CASE x = o
  <2>1. o \notin stale' => DeskOrder(order[o])
    BY <1>2, DeskParts
  <2>2. QED BY <1>2, <1>4, <2>1 DEF Sound, DeskOrder, SamePlace
<1>5. QED BY <1>3, <1>4

\* A payment is refused for a cancelled order; a deletion lowers what is paid.
LEMMA SetPaidSound ==
    ASSUME DeskInv, NEW c \in Callers, call[c].op \in LockingOps,
           NEW x \in OrderIds, stale \subseteq stale'
    PROVE  \A paid \in Int :
             (/\ SetPaid(call[c].order, call[c].row, paid)
              /\ \/ order[call[c].order].orderStatus # "CANCELLED"
                 \/ paid <= order[call[c].order].paidAmount) => Sound(x)
<1> DEFINE o == call[c].order
<1> SUFFICES ASSUME NEW paid \in Int, SetPaid(o, call[c].row, paid),
                    \/ order[o].orderStatus # "CANCELLED"
                    \/ paid <= order[o].paidAmount
             PROVE  Sound(x)
  OBVIOUS
<1>1. MoneyInv /\ RowTypes
  BY DEF DeskInv, OrdersInv, MoneyInv
<1>2. /\ o \in OrderIds
      /\ \A y \in OrderIds \ {o} : order'[y] = order[y]
      /\ SamePlace(o)
      /\ order'[o].paidAmount = paid
      /\ order'[o].returnState = order[o].returnState
      /\ order'[o].excludeFromPayroll = order[o].excludeFromPayroll
  BY <1>1, SetPaidWrites, UnderLock
<1> HIDE DEF o
<1>3. CASE x # o
  BY <1>2, <1>3, Untouched
<1>4. CASE x = o
  <2>1. /\ o \notin stale' => DeskOrder(order[o])
        /\ order[o].paidAmount \in Int
    BY <1>1, <1>2, DeskParts DEF RowTypes, OrderRow
  <2>2. ASSUME o \notin stale'
        PROVE  order'[o].orderStatus = "CANCELLED" => order'[o].paidAmount <= 0
    BY <1>2, <2>1, <2>2 DEF DeskOrder, SamePlace
  <2>3. o \notin stale' => DeskOrder(order'[o])
    BY <1>2, <1>4, <2>1, <2>2 DEF DeskOrder, SamePlace
  <2>4. QED BY <1>2, <1>4, <2>3 DEF Sound, SamePlace
<1>5. QED BY <1>3, <1>4

\* So payments and their deletions are sound.
LEMMA PaymentsSound ==
    ASSUME DeskInv, NEW c \in Callers, NEW x \in OrderIds,
           stale \subseteq stale',
           \/ \E i \in PaymentIds, amount \in Amount : AddPayment(c, i, amount)
           \/ DeletePayment(c)
    PROVE  Sound(x)
<1> DEFINE o == call[c].order
<1>1. MoneyInv /\ RowTypes
  BY DEF DeskInv, OrdersInv, MoneyInv
<1>2. /\ call[c].op \in LockingOps
      /\ o \in OrderIds /\ call[c].row = order[o] /\ order[o] \in OrderRow
  BY <1>1, UnderLock DEF AddPayment, DeletePayment, LockingOps, RowTypes
<1>3. ASSUME NEW i \in PaymentIds, NEW amount \in Amount,
             AddPayment(c, i, amount)
      PROVE  Sound(x)
  <2>1. /\ SetPaid(o, call[c].row, order[o].paidAmount + amount)
        /\ order[o].orderStatus # "CANCELLED"
    BY <1>2, <1>3 DEF AddPayment
  <2>2. order[o].paidAmount + amount \in Int
    BY <1>2 DEF OrderRow, Amount
  <2>3. QED BY <1>2, <2>1, <2>2, SetPaidSound
<1>4. CASE DeletePayment(c)
  <2> DEFINE n == payment[call[c].payment].amount
  <2>1. SetPaid(o, call[c].row, order[o].paidAmount - n)
    BY <1>2, <1>4 DEF DeletePayment
  <2>2. n \in Nat
    BY <1>1, <1>4, CallTypes DEF DeletePayment, RowTypes, PaymentRow, NoPayment
  <2>3. order[o].paidAmount \in Int
    BY <1>2 DEF OrderRow
  <2> HIDE DEF n
  <2>4. /\ order[o].paidAmount - n \in Int
        /\ order[o].paidAmount - n <= order[o].paidAmount
    BY <2>2, <2>3
  <2>5. QED BY <1>2, <2>1, <2>4, SetPaidSound
<1>5. QED BY <1>3, <1>4

\* A return is taken of an order that is out, and never of a cancelled one.
LEMMA ReturnSound ==
    ASSUME DeskInv, NEW c \in Callers, NEW back, NEW restock \in BOOLEAN,
           NEW asked, NEW exclude \in BOOLEAN, stale \subseteq stale',
           CreateReturn(c, back, restock, asked, exclude), NEW x \in OrderIds
    PROVE  Sound(x)
<1> DEFINE o == call[c].order
           refund == Refund(order[o], item[o], back, asked)
<1>1. MoneyInv
  BY DEF DeskInv, OrdersInv
<1>2. /\ o \in OrderIds
      /\ \A y \in OrderIds \ {o} : order'[y] = order[y]
      /\ SamePlace(o)
      /\ order'[o].returnState = ReturnStateAfter(item[o], back)
      /\ order'[o].excludeFromPayroll = (order[o].excludeFromPayroll \/ exclude)
      /\ ledger' = [ledger EXCEPT ![o].refund = @ + refund]
      /\ Finished(order[o]) /\ (exclude => order[o].payout = None)
  BY <1>1, ReturnWrites
<1> HIDE DEF o, refund
<1>3. CASE x # o
  BY <1>2, <1>3, Untouched
<1>4. CASE x = o
  <2>1. o \notin stale' => DeskOrder(order[o])
    BY <1>2, DeskParts
  <2>2. o \notin stale' => order[o].orderStatus = "COMPLETED"
    BY <1>2, <2>1 DEF Finished, DeskOrder
  <2>3. o \notin stale' => DeskOrder(order'[o])
    BY <1>2, <2>1, <2>2 DEF DeskOrder, SamePlace
  <2>4. QED BY <1>2, <1>4, <2>3 DEF Sound, SamePlace
<1>5. QED BY <1>3, <1>4

-----------------------------------------------------------------------------
(* Payouts.                                                                *)

\* Fewer orders, smaller number.
LEMMA Fewer ==
    \A A, B \in SUBSET OrderIds : A \subseteq B =>
        /\ Cardinality(A) <= Cardinality(B)
        /\ Cardinality(A) \in Nat /\ Cardinality(B) \in Nat
<1> SUFFICES ASSUME NEW A \in SUBSET OrderIds, NEW B \in SUBSET OrderIds,
                    A \subseteq B
             PROVE  /\ Cardinality(A) <= Cardinality(B)
                    /\ Cardinality(A) \in Nat /\ Cardinality(B) \in Nat
  OBVIOUS
<1>1. IsFiniteSet(A) /\ IsFiniteSet(B)
  BY FS_Subset
<1>2. Cardinality(A) <= Cardinality(B)
  BY <1>1, FS_Subset
<1>3. QED BY <1>1, <1>2, FS_CardinalityType

\* What the orders that carry the id of a payout are after the step.
CarriedAfter(y) == {o \in OrderIds : order'[o].payout = y}

\* A payout keeps its count while it loses only orders that are in doubt, and
\* wins none.
LEMMA CountStays ==
    ASSUME DeskInv, stale \subseteq stale', NEW y \in PayoutIds,
           payout'[y].deliveredCount = payout[y].deliveredCount,
           CarriedAfter(y) \subseteq Carried(y),
           Carried(y) \subseteq CarriedAfter(y) \cup stale'
    PROVE  /\ Cardinality(CarriedAfter(y)) <= payout'[y].deliveredCount
           /\ payout'[y].deliveredCount
                 <= Cardinality(CarriedAfter(y) \cup (OrderIds \cap stale'))
<1> DEFINE n == payout[y].deliveredCount
           A == Carried(y)
           B == CarriedAfter(y)
           D == OrderIds \cap stale'
<1>1. /\ Cardinality(A) <= n /\ n <= Cardinality(A \cup Doubtful)
      /\ n \in Int
  <2>1. PayoutsCount
    BY DeskParts
  <2>2. payout[y] \in PayoutRow
    BY DEF DeskInv, OrdersInv, MoneyInv, RowTypes
  <2>3. QED BY <2>1, <2>2 DEF PayoutsCount, PayoutRow
<1>2. /\ A \subseteq OrderIds /\ B \subseteq OrderIds
      /\ A \cup Doubtful \subseteq OrderIds
      /\ B \cup D \subseteq OrderIds
  BY DEF Carried, CarriedAfter, Doubtful
<1>3. A \cup Doubtful \subseteq B \cup D
  BY <1>2 DEF Doubtful
<1> HIDE DEF n, A, B, D
<1>4. /\ Cardinality(B) <= Cardinality(A)
      /\ Cardinality(B) \in Nat /\ Cardinality(A) \in Nat
  BY <1>2, Fewer DEF A, B
<1>5. /\ Cardinality(A \cup Doubtful) <= Cardinality(B \cup D)
      /\ Cardinality(A \cup Doubtful) \in Nat
      /\ Cardinality(B \cup D) \in Nat
  BY <1>2, <1>3, Fewer
<1>6. Cardinality(B) <= n /\ n <= Cardinality(B \cup D)
  BY <1>1, <1>4, <1>5
<1>7. QED BY <1>6 DEF n, B, D

\* Where no order changes its payout and no payout its count, they agree.
LEMMA CountsStay ==
    ASSUME DeskInv, stale \subseteq stale',
           \A o \in OrderIds : order'[o].payout = order[o].payout,
           \A y \in PayoutIds :
              /\ payout'[y].deliveredCount = payout[y].deliveredCount
              /\ payout'[y].status = "NONE" => payout[y].status = "NONE"
    PROVE  PayoutsCount' /\ UnusedPayouts'
<1>1. \A y \in PayoutIds : CarriedAfter(y) = Carried(y)
  BY DEF CarriedAfter, Carried
<1>2. PayoutsCount'
  BY <1>1, CountStays DEF PayoutsCount, Carried, CarriedAfter, Doubtful
<1>3. UnusedPayouts'
  BY DEF DeskInv, UnusedPayouts
<1>4. QED BY <1>2, <1>3

\* A payout counts the orders it is written into; those that were in another
\* one by then are in doubt.
LEMMA PayrollCounts ==
    ASSUME DeskInv, NEW c \in Callers, NEW y \in PayoutIds,
           stale \subseteq stale', PayrollClose(c, y)
    PROVE  /\ PayoutsCount' /\ UnusedPayouts'
           /\ \A o \in OrderIds \ stale' : DeskOrder(order'[o])
<1> DEFINE S == call[c].orders
           d == call[c].driver
<1>1. /\ MoneyInv /\ RowTypes /\ PayoutsCount
      /\ \A o \in OrderIds \ stale' : DeskOrder(order[o])
  BY DeskParts DEF DeskInv, OrdersInv, MoneyInv
<1>2. /\ S \subseteq OrderIds
      /\ \A o \in S \ stale' : Payable(o, d)
      /\ payout[y].status = "NONE"
  <2>1. S \subseteq OrderIds /\ payout[y].status = "NONE"
    BY <1>1, CallTypes DEF PayrollClose
  <2>2. QED BY <2>1, StillChecked
<1>3. payout' = [payout EXCEPT ![y] = [driver |-> d, status |-> "PENDING",
                                       deliveredCount |-> Cardinality(S)]]
  BY DEF PayrollClose
<1>4. \A o \in OrderIds : IF o \notin S THEN order'[o] = order[o]
                          ELSE order'[o] = [order[o] EXCEPT !.payout = y]
  BY <1>1, ManyOrdersWrite
<1> HIDE DEF S, d
<1>5. ASSUME NEW o \in OrderIds
      PROVE  /\ order'[o].payout = IF o \in S THEN y ELSE order[o].payout
             /\ order'[o].orderStatus = order[o].orderStatus
             /\ order'[o].deliveryStatus = order[o].deliveryStatus
             /\ order'[o].assignedDriver = order[o].assignedDriver
             /\ order'[o].paidAmount = order[o].paidAmount
             /\ order'[o].returnState = order[o].returnState
             /\ order'[o].excludeFromPayroll = order[o].excludeFromPayroll
  <2>1. order[o] \in OrderRow
    BY <1>1 DEF RowTypes
  <2>2. QED BY <1>4, <2>1 DEF OrderRow
<1>6. ASSUME NEW o \in OrderIds \ stale'
      PROVE  DeskOrder(order'[o])
  <2>1. DeskOrder(order[o])
    BY <1>1
  <2>2. order'[o].excludeFromPayroll => order'[o].payout = None
    BY <1>2, <1>5, <2>1 DEF DeskOrder, Payable
  <2>3. QED BY <1>5, <2>1, <2>2 DEF DeskOrder
<1>7. Carried(y) = {}
  <2>1. payout[y].deliveredCount = 0
    BY <1>1, <1>2 DEF DeskInv, UnusedPayouts
  <2>2. Carried(y) \subseteq OrderIds
    BY DEF Carried
  <2>3. Cardinality(Carried(y)) <= 0 /\ Cardinality(Carried(y)) \in Nat
    BY <1>1, <2>1, <2>2, Fewer DEF PayoutsCount
  <2>4. Cardinality(Carried(y)) = 0
    BY <2>3
  <2>5. QED BY <2>2, <2>4, FS_Subset, FS_EmptySet
<1>8. ASSUME NEW z \in PayoutIds
      PROVE  /\ Cardinality(CarriedAfter(z)) <= payout'[z].deliveredCount
             /\ payout'[z].deliveredCount
                   <= Cardinality(CarriedAfter(z) \cup (OrderIds \cap stale'))
  <2>1. CASE z = y
    <3>1. payout'[z].deliveredCount = Cardinality(S)
      BY <1>1, <1>3, <2>1 DEF RowTypes
    <3>2. \A o \in OrderIds : order'[o].payout = y <=> o \in S
      BY <1>5, <1>7 DEF Carried
    <3>3. CarriedAfter(z) = S
      BY <1>2, <2>1, <3>2 DEF CarriedAfter
    <3>4. /\ S \in SUBSET OrderIds /\ S \cup (OrderIds \cap stale') \in SUBSET OrderIds
          /\ S \subseteq S \cup (OrderIds \cap stale')
      BY <1>2
    <3>5. /\ Cardinality(S) <= Cardinality(S \cup (OrderIds \cap stale'))
          /\ Cardinality(S) \in Nat
      BY <3>4, Fewer
    <3>6. QED BY <3>1, <3>3, <3>5
  <2>2. CASE z # y
    <3>1. payout'[z] = payout[z]
      BY <1>1, <1>3, <2>2 DEF RowTypes
    <3>2. CarriedAfter(z) \subseteq Carried(z)
      BY <1>5, <2>2 DEF Carried, CarriedAfter
    <3>3. ASSUME NEW o \in Carried(z), o \notin stale'
          PROVE  o \in CarriedAfter(z)
      <4>1. o \in OrderIds /\ order[o].payout = z /\ z # None
        BY DEF Carried
      <4>2. o \notin S
        BY <1>2, <3>3, <4>1 DEF Payable
      <4>3. QED BY <1>5, <4>1, <4>2 DEF CarriedAfter
    <3>4. Carried(z) \subseteq CarriedAfter(z) \cup stale'
      BY <3>3
    <3>5. QED BY <3>1, <3>2, <3>4, CountStays
  <2>3. QED BY <2>1, <2>2
<1>9. PayoutsCount'
  BY <1>8 DEF PayoutsCount, Carried, CarriedAfter, Doubtful
<1>10. UnusedPayouts'
  <2>1. \A z \in PayoutIds \ {y} : payout'[z] = payout[z]
    BY <1>1, <1>3 DEF RowTypes
  <2>2. payout'[y].status = "PENDING"
    BY <1>1, <1>3 DEF RowTypes
  <2>3. QED BY <2>1, <2>2 DEF DeskInv, UnusedPayouts
<1>11. QED BY <1>6, <1>9, <1>10

-----------------------------------------------------------------------------
(* Every step.                                                             *)

\* Steps that keep every order sound, and every count.
LEMMA AllSound ==
    ASSUME DeskInv, OrdersInv', stale \subseteq stale',
           \A o \in OrderIds : Sound(o),
           \A y \in PayoutIds :
              /\ payout'[y].deliveredCount = payout[y].deliveredCount
              /\ payout'[y].status = "NONE" => payout[y].status = "NONE"
    PROVE  DeskInv'
BY CountsStay, DeskParts DEF Sound

\* Every step of every handler keeps the invariant.
LEMMA StepDesk ==
    ASSUME DeskInv, [Next]_vars
    PROVE  DeskInv'
<1>1. OrdersInv' /\ stale \subseteq stale'
  BY StepOrders, StaleGrows DEF DeskInv
<1>2. ASSUME UNCHANGED <<order, payout>>
      PROVE  DeskInv'
  <2>1. \A o \in OrderIds : Sound(o)
    BY <1>1, <1>2, Untouched
  <2>2. QED BY <1>1, <1>2, <2>1, AllSound
<1>3. ASSUME payout' = payout, \A o \in OrderIds : Sound(o)
      PROVE  DeskInv'
  BY <1>1, <1>3, AllSound
<1>4. CASE UNCHANGED vars
  BY <1>2, <1>4 DEF vars
<1>5. ASSUME SingleStep PROVE DeskInv'
  <2>1. ASSUME NEW o \in OrderIds, NEW want \in Baskets,
               \/ CreateOrder(o, want)
               \/ \E i \in PaymentIds : CreatePaidOrder(o, want, i)
        PROVE  DeskInv'
    <3>1. \A x \in OrderIds : Sound(x)
      BY <1>1, <2>1, CreateSound
    <3>2. payout' = payout
      BY <2>1 DEF CreateOrder, CreatePaidOrder, PlaceOrder
    <3>3. QED BY <1>3, <3>1, <3>2
  <2>2. CASE \/ \E p \in Products, qty \in -MaxQty..MaxQty : AdjustStock(p, qty)
             \/ \E p \in Products, price \in Prices, on \in BOOLEAN :
                   EditProduct(p, price, on)
             \/ \E p \in Products, qty \in 1..MaxQty : ReceiveLine(p, qty)
    BY <1>2, <2>2 DEF AdjustStock, EditProduct, ReceiveLine
  <2>3. ASSUME NEW y \in PayoutIds, PayrollPay(y)
        PROVE  DeskInv'
    <3>1. payout \in [PayoutIds -> PayoutRow]
      BY DEF DeskInv, OrdersInv, MoneyInv, RowTypes
    <3>2. payout' = [payout EXCEPT ![y].status = "PAID"]
          /\ payout[y].status = "PENDING"
      BY <2>3 DEF PayrollPay
    <3>3. ASSUME NEW z \in PayoutIds
          PROVE  /\ payout'[z].deliveredCount = payout[z].deliveredCount
                 /\ payout'[z].status = "NONE" => payout[z].status = "NONE"
      BY <3>1, <3>2 DEF PayoutRow
    <3>4. \A o \in OrderIds : Sound(o)
      BY <1>1, <2>3, Untouched DEF PayrollPay
    <3>5. QED BY <1>1, <3>3, <3>4, AllSound
  <2>4. QED BY <1>5, <2>1, <2>2, <2>3
            DEF SingleStep, ReceiveUndated, ReceiveDated
<1>6. ASSUME NEW c \in Callers, Lock(c) \/ Read(c) \/ Abort(c)
      PROVE  DeskInv'
  <2>1. UNCHANGED <<order, payout>>
    BY <1>6 DEF Lock, UpdateOrderLock, AddPaymentLock, ReturnLock,
             DeletePaymentLock, Read, UpdateStatusRead, CancelRead,
             DeletePaymentFind, AssignDriverRead, StartRead, CompleteRead,
             CreateHandoverRead, PayrollCloseRead, CreateBatchReadStock,
             CreateBatchReadTracked, WriteOffRead, Abort
  <2>2. QED BY <1>2, <2>1
<1>7. ASSUME NEW c \in Callers, LockedWrite(c) PROVE DeskInv'
  <2>1. payout' = payout
    <3>1. \A want : UpdateOrder(c, want) => payout' = payout
      BY DEF UpdateOrder
    <3>2. \A i, amount : AddPayment(c, i, amount) => payout' = payout
      BY DEF AddPayment
    <3>3. DeletePayment(c) => payout' = payout
      BY DEF DeletePayment
    <3>4. \A back, restock, asked, exclude :
             CreateReturn(c, back, restock, asked, exclude) => payout' = payout
      <4> SUFFICES ASSUME NEW back, NEW restock, NEW asked, NEW exclude,
                          CreateReturn(c, back, restock, asked, exclude)
                   PROVE  payout' = payout
        OBVIOUS
      <4>1. UNCHANGED <<payment, payout, sheet>>
        BY Zenon DEF CreateReturn
      <4>2. QED BY <4>1
    <3>5. QED BY <1>7, <3>1, <3>2, <3>3, <3>4 DEF LockedWrite
  <2>2. ASSUME NEW x \in OrderIds PROVE Sound(x)
    BY <1>1, <1>7, UpdateSound, PaymentsSound, ReturnSound DEF LockedWrite
  <2>3. QED BY <1>3, <2>1, <2>2
<1>8. ASSUME NEW c \in Callers, UnlockedWrite(c)
      PROVE  DeskInv'
  <2>1. CASE \/ UpdateStatus(c) \/ Cancel(c) \/ AssignDriver(c) \/ Start(c)
             \/ CompleteDelivered(c) \/ CompleteFailed(c)
    <3>1. \A x \in OrderIds : Sound(x)
      BY <1>1, <1>8, <2>1, OneOrderSound
    <3>2. payout' = payout
      BY <2>1 DEF UpdateStatus, Cancel, AssignDriver, Start,
                  CompleteDelivered, CompleteFailed
    <3>3. QED BY <1>3, <3>1, <3>2
  <2>2. ASSUME NEW h \in HandoverIds, CreateHandover(c, h)
        PROVE  DeskInv'
    <3>1. \A x \in OrderIds : Sound(x)
      BY <1>1, <1>8, <2>2, HandoverSound
    <3>2. payout' = payout
      BY <2>2 DEF CreateHandover
    <3>3. QED BY <1>3, <3>1, <3>2
  <2>3. ASSUME NEW y \in PayoutIds, PayrollClose(c, y)
        PROVE  DeskInv'
    BY <1>1, <1>8, <2>3, PayrollCounts, DeskParts
  <2>4. CASE \/ \E b \in BatchIds, expiry \in Expiries :
                   CreateBatch(c, b, expiry)
             \/ WriteOff(c)
    BY <1>2, <2>4 DEF CreateBatch, WriteOff
  <2>5. QED BY <1>8, <2>1, <2>2, <2>3, <2>4 DEF UnlockedWrite
<1>9. QED BY <1>4, <1>5, <1>6, <1>7, <1>8 DEF Next

\* No order, no driver, no payout.
LEMMA InitDesk == Init => DeskInv
<1> SUFFICES ASSUME Init PROVE DeskInv
  OBVIOUS
<1>1. OrdersInv
  BY InitOrders
<1>2. /\ \A o \in OrderIds : order[o] = NoOrder
      /\ \A y \in PayoutIds : payout[y] = NoPayout
  BY DEF Init
<1>3. \A o \in OrderIds : DeskOrder(order[o])
  BY <1>2 DEF DeskOrder, NoOrder
<1>4. PayoutsCount /\ UnusedPayouts
  <2>1. ASSUME NEW y \in PayoutIds
        PROVE  /\ Carried(y) = {} /\ Carried(y) \cup Doubtful = {}
               /\ payout[y].deliveredCount = 0
    <3>1. \A o \in OrderIds : order[o].payout = None
      BY <1>2 DEF NoOrder
    <3>2. Carried(y) = {}
      BY <3>1 DEF Carried
    <3>3. Doubtful = {}
      BY DEF Init, Doubtful
    <3>4. QED BY <1>2, <3>2, <3>3 DEF NoPayout
  <2>2. Cardinality({}) = 0
    BY FS_EmptySet
  <2>3. ASSUME NEW y \in PayoutIds
        PROVE  /\ Cardinality(Carried(y)) <= payout[y].deliveredCount
               /\ payout[y].deliveredCount <= Cardinality(Carried(y) \cup Doubtful)
    BY <2>1, <2>2
  <2>4. UnusedPayouts
    BY <2>1 DEF UnusedPayouts
  <2>5. QED BY <2>3, <2>4 DEF PayoutsCount
<1>5. QED BY <1>1, <1>3, <1>4, DeskParts

-----------------------------------------------------------------------------
(* The theorems.                                                           *)

\* The invariant of desk, drivers and payroll holds under any interleaving, of
\* every order no handler has written on a check that had ceased to hold.
THEOREM DeskAlways == Spec => []DeskInv
BY InitDesk, StepDesk, PTL DEF Spec

\* Driver and delivery status of an order disagree only after such a write.
THEOREM DeliveryAlwaysConsistent == Spec => []DeliveryConsistent
<1>1. DeskInv => DeliveryConsistent
  BY DEF DeskInv
<1>2. QED BY <1>1, DeskAlways, PTL

\* Every payout counts the orders that carry its id, and none besides but
\* those of which two closings have made a payout each.
THEOREM PayoutsAlwaysMatchOrders == Spec => []PayoutMatchesOrders
<1>1. DeskInv => PayoutMatchesOrders
  BY DEF DeskInv
<1>2. QED BY <1>1, DeskAlways, PTL

-----------------------------------------------------------------------------
(* One request at a time.                                                  *)

\* What request c has checked still holds.
Fresh(c) ==
    LET k == call[c]
    IN  /\ k.op = "updateStatus" => MayMove(k.order, k.to)
        /\ k.op = "cancel" => MayCancel(k.order) /\ SameLines(c, k.order)
        /\ k.op = "assign" => order[k.order].orderStatus \in ASSIGNABLE
        /\ k.op = "start" => MayStart(k.order, k.driver)
        /\ k.op \in {"deliver", "fail"} => MayComplete(k.order, k.driver)
        /\ k.op = "handover" => \A o \in k.orders : MayHandOver(o, k.driver)
        /\ k.op = "payrollClose" => \A o \in k.orders : Payable(o, k.driver)
        /\ k.op = "insertBatch" =>
               k.qty <= product[k.product].stockQty - Tracked(k.product)
        /\ k.op = "writeOff" =>
               /\ ~batch[k.batch].writtenOff
               /\ batch[k.batch].remaining = k.remaining

\* What request c has read is what there is.
Current(c) ==
    /\ Fresh(c)
    /\ call[c].op = "createBatch" =>
           call[c].stockQty = product[call[c].product].stockQty

\* A request that is over, or holds a lock, has read nothing else.
LEMMA NothingRead ==
    ASSUME NEW c \in Callers, call'[c].op \in LockingOps \cup {"idle"}
    PROVE  Current(c)'
BY DEF Current, Fresh, LockingOps

\* After its read a request knows what there is.
LEMMA ReadIsCurrent ==
    ASSUME RowTypes, NEW c \in Callers, Current(c), Read(c)
    PROVE  Current(c)'
<1>1. call \in [Callers -> CallState]
  BY DEF RowTypes
<1>2. UNCHANGED <<order, item, product, batch>>
  BY DEF Read, UpdateStatusRead, CancelRead, DeletePaymentFind,
         AssignDriverRead, StartRead, CompleteRead, CreateHandoverRead,
         PayrollCloseRead, CreateBatchReadStock, CreateBatchReadTracked,
         WriteOffRead
<1>3. ASSUME NEW o \in OrderIds, NEW to \in OrderStatus,
             UpdateStatusRead(c, o, to)
      PROVE  Current(c)'
  <2>1. call'[c] = [op |-> "updateStatus", order |-> o, to |-> to]
    BY <1>1, <1>3 DEF UpdateStatusRead, Begin
  <2>2. MayMove(o, to)'
    BY <1>2, <1>3 DEF UpdateStatusRead, MayMove, Exists
  <2>3. QED BY <2>1, <2>2 DEF Current, Fresh
<1>4. ASSUME NEW o \in OrderIds, CancelRead(c, o)
      PROVE  Current(c)'
  <2>1. call'[c] = [op |-> "cancel", order |-> o, item |-> item[o]]
    BY <1>1, <1>4 DEF CancelRead, Begin
  <2>2. MayCancel(o)'
    BY <1>2, <1>4 DEF CancelRead, MayCancel, MayMove, Exists
  <2>3. QED BY <1>2, <2>1, <2>2 DEF Current, Fresh, SameLines
<1>5. ASSUME NEW i \in PaymentIds, DeletePaymentFind(c, i)
      PROVE  Current(c)'
  <2>1. call'[c].op = "foundPayment"
    BY <1>1, <1>5 DEF DeletePaymentFind, Begin
  <2>2. QED BY <2>1 DEF Current, Fresh
<1>6. ASSUME NEW o \in OrderIds, NEW d \in Drivers, AssignDriverRead(c, o, d)
      PROVE  Current(c)'
  <2>1. call'[c] = [op |-> "assign", order |-> o, driver |-> d]
    BY <1>1, <1>6 DEF AssignDriverRead, Begin
  <2>2. order'[o].orderStatus \in ASSIGNABLE
    BY <1>2, <1>6 DEF AssignDriverRead
  <2>3. QED BY <2>1, <2>2 DEF Current, Fresh
<1>7. ASSUME NEW o \in OrderIds, NEW d \in Drivers, StartRead(c, o, d)
      PROVE  Current(c)'
  <2>1. call'[c] = [op |-> "start", order |-> o, driver |-> d]
    BY <1>1, <1>7 DEF StartRead, Begin
  <2>2. MayStart(o, d)'
    BY <1>2, <1>7 DEF StartRead, MayStart
  <2>3. QED BY <2>1, <2>2 DEF Current, Fresh
<1>8. ASSUME NEW o \in OrderIds, NEW d \in Drivers, NEW op \in {"deliver", "fail"},
             CompleteRead(c, o, d, op)
      PROVE  Current(c)'
  <2>1. call'[c] = [op |-> op, order |-> o, driver |-> d]
    BY <1>1, <1>8 DEF CompleteRead, Begin
  <2>2. MayComplete(o, d)'
    BY <1>2, <1>8 DEF CompleteRead, MayComplete
  <2>3. QED BY <2>1, <2>2 DEF Current, Fresh
<1>9. ASSUME NEW d \in Drivers, NEW S \in SUBSET OrderIds,
             CreateHandoverRead(c, d, S)
      PROVE  Current(c)'
  <2>1. call'[c] = [op |-> "handover", driver |-> d, orders |-> S]
    BY <1>1, <1>9 DEF CreateHandoverRead, Begin
  <2>2. \A o \in S : MayHandOver(o, d)'
    BY <1>2, <1>9 DEF CreateHandoverRead, MayHandOver, Exists
  <2>3. QED BY <2>1, <2>2 DEF Current, Fresh
<1>10. ASSUME NEW d \in Drivers, PayrollCloseRead(c, d)
       PROVE  Current(c)'
  <2> DEFINE S == {o \in OrderIds : Payable(o, d)}
  <2>1. call'[c] = [op |-> "payrollClose", driver |-> d, orders |-> S]
    BY <1>1, <1>10 DEF PayrollCloseRead, Begin
  <2>2. \A o \in S : Payable(o, d)'
    BY <1>2 DEF Payable
  <2> HIDE DEF S
  <2>3. QED BY <2>1, <2>2 DEF Current, Fresh
<1>11. ASSUME NEW p \in Products, CreateBatchReadStock(c, p)
       PROVE  Current(c)'
  <2>1. call'[c] = [op |-> "createBatch", product |-> p,
                    stockQty |-> product[p].stockQty]
    BY <1>1, <1>11 DEF CreateBatchReadStock, Begin
  <2>2. QED BY <1>2, <2>1 DEF Current, Fresh
<1>12. ASSUME NEW qty \in 1..MaxQty, CreateBatchReadTracked(c, qty)
       PROVE  Current(c)'
  <2>0. PICK p : p = call[c].product
    OBVIOUS
  <2>1. call'[c] = [op |-> "insertBatch", product |-> p, qty |-> qty]
    BY <1>1, <1>12, <2>0 DEF CreateBatchReadTracked
  <2>2. qty <= product[p].stockQty - Tracked(p)
    BY <1>12, <2>0 DEF CreateBatchReadTracked, Current
  <2>3. Tracked(p)' = Tracked(p)
    BY <1>2 DEF Tracked
  <2>4. qty <= product'[p].stockQty - Tracked(p)'
    BY <1>2, <2>2, <2>3
  <2>5. QED BY <2>1, <2>4 DEF Current, Fresh
<1>13. ASSUME NEW b \in BatchIds, WriteOffRead(c, b)
       PROVE  Current(c)'
  <2>1. call'[c] = [op |-> "writeOff", batch |-> b,
                    remaining |-> batch[b].remaining]
    BY <1>1, <1>13 DEF WriteOffRead, Begin
  <2>2. ~batch'[b].writtenOff /\ batch'[b].remaining = batch[b].remaining
    BY <1>2, <1>13 DEF WriteOffRead
  <2>3. QED BY <2>1, <2>2 DEF Current, Fresh
<1>14. QED BY <1>3, <1>4, <1>5, <1>6, <1>7, <1>8, <1>9, <1>10, <1>11, <1>12,
             <1>13 DEF Read

\* While the rows stay and the request does, what it has read stays true.
LEMMA CurrentStays ==
    ASSUME NEW c \in Callers, UNCHANGED vars, Current(c)
    PROVE  Current(c)'
<1>1. /\ \A o, to : MayMove(o, to)' <=> MayMove(o, to)
      /\ \A o : MayCancel(o)' <=> MayCancel(o)
      /\ \A o, d : /\ MayStart(o, d)' <=> MayStart(o, d)
                   /\ MayComplete(o, d)' <=> MayComplete(o, d)
                   /\ MayHandOver(o, d)' <=> MayHandOver(o, d)
                   /\ Payable(o, d)' <=> Payable(o, d)
      /\ \A p : Tracked(p)' = Tracked(p)
  BY DEF vars, MayMove, MayCancel, MayStart, MayComplete, MayHandOver, Payable,
         Exists, Tracked
<1>2. UNCHANGED <<order, item, product, batch, call>>
  BY DEF vars
<1>3. QED BY <1>2 DEF vars, Current, Fresh, SameLines, MayMove, MayCancel, MayStart,
             MayComplete, MayHandOver, Payable, Exists, Tracked

\* One request at a time: the steps of one caller leave it current.
LEMMA StepCurrent ==
    ASSUME OrdersInv, \A c, d \in Callers : c = d,
           \A c \in Callers : Current(c), [Next]_vars, NEW c \in Callers
    PROVE  Current(c)'
<1>1. RowTypes /\ call \in [Callers -> CallState]
  BY DEF OrdersInv, MoneyInv, RowTypes
<1>2. CASE UNCHANGED vars
  BY <1>2, CurrentStays
<1>3. CASE Next
  <2>1. \/ call[c] = Idle /\ SingleStep
        \/ Lock(c) \/ Read(c) \/ LockedWrite(c) \/ UnlockedWrite(c) \/ Abort(c)
    BY <1>3 DEF Next
  <2>2. ASSUME call'[c] = Idle PROVE Current(c)'
    BY <2>2, NothingRead DEF Idle
  <2>3. ASSUME Finish(c) PROVE Current(c)'
    BY <1>1, <2>2, <2>3 DEF Finish
  <2>4. ASSUME call[c] = Idle, SingleStep PROVE Current(c)'
    <3>1. call' = call
      BY <2>4 DEF SingleStep, CreateOrder, CreatePaidOrder, PlaceOrder,
                  AdjustStock, EditProduct, PayrollPay, ReceiveUndated,
                  ReceiveDated, ReceiveLine
    <3>2. QED BY <2>2, <2>4, <3>1
  <2>5. CASE Lock(c)
    <3>1. \E op \in LockingOps : \E o, i : LockOrder(c, op, o, i)
      BY <2>5 DEF Lock, UpdateOrderLock, AddPaymentLock, ReturnLock,
                  DeletePaymentLock, LockingOps
    <3>2. call'[c].op \in LockingOps
      BY <1>1, <3>1 DEF LockOrder
    <3>3. QED BY <3>2, NothingRead
  <2>6. CASE Read(c)
    BY <1>1, <2>6, ReadIsCurrent
  <2>7. CASE LockedWrite(c)
    <3>1. ASSUME NEW want \in Baskets, UpdateOrder(c, want) PROVE Finish(c)
      BY <3>1 DEF UpdateOrder, Commit
    <3>2. ASSUME NEW i \in PaymentIds, NEW amount \in Amount,
                 AddPayment(c, i, amount)
          PROVE  Finish(c)
      BY <3>2 DEF AddPayment, Commit
    <3>3. CASE DeletePayment(c)
      BY <2>3, <3>3 DEF DeletePayment, Commit
    <3>4. ASSUME NEW back \in Baskets, NEW restock \in BOOLEAN,
                 NEW asked \in BOOLEAN, NEW exclude \in BOOLEAN,
                 CreateReturn(c, back, restock, asked, exclude)
          PROVE  Finish(c)
      BY <3>4 DEF CreateReturn, Commit
    <3>5. QED BY <2>3, <2>7, <3>1, <3>2, <3>3, <3>4 DEF LockedWrite
  <2>8. CASE UnlockedWrite(c) \/ Abort(c)
    BY <2>3, <2>8, UnlockedKept DEF Abort
  <2>9. QED BY <2>1, <2>4, <2>5, <2>6, <2>7, <2>8
<1>4. QED BY <1>2, <1>3

\* A request that has read what there is writes nothing stale.
LEMMA FreshWrites ==
    ASSUME NEW c \in Callers, Fresh(c), UnlockedWrite(c)
    PROVE  stale' = stale
<1>1. ASSUME \/ UpdateStatus(c) \/ Cancel(c) \/ AssignDriver(c) \/ Start(c)
             \/ CompleteDelivered(c) \/ CompleteFailed(c)
      PROVE  stale' = stale
  BY <1>1 DEF Fresh, UpdateStatus, Cancel, AssignDriver, Start,
              CompleteDelivered, CompleteFailed, FinishUnlocked
<1>2. ASSUME NEW h \in HandoverIds, CreateHandover(c, h)
      PROVE  stale' = stale
  BY <1>2 DEF Fresh, CreateHandover, FinishUnlocked
<1>3. ASSUME NEW y \in PayoutIds, PayrollClose(c, y) PROVE stale' = stale
  BY <1>3 DEF Fresh, PayrollClose, FinishUnlocked
<1>4. ASSUME NEW b \in BatchIds, NEW expiry \in Expiries,
             CreateBatch(c, b, expiry)
      PROVE  stale' = stale
  BY <1>4 DEF Fresh, CreateBatch, FinishUnlocked
<1>5. ASSUME WriteOff(c) PROVE stale' = stale
  BY <1>5 DEF Fresh, WriteOff, FinishUnlocked
<1>6. QED BY <1>1, <1>2, <1>3, <1>4, <1>5 DEF UnlockedWrite

\* Checks go stale only where requests overlap: one request at a time, no row
\* is ever written on a check that has ceased to hold.
THEOREM OneAtATimeNeverStale ==
    ASSUME \A c, d \in Callers : c = d
    PROVE  Spec => [](stale = {})
<1> DEFINE Calm == stale = {} /\ \A c \in Callers : Current(c)
<1>1. Init => Calm
  BY DEF Init, Current, Fresh, Idle
<1>2. OrdersInv /\ Calm /\ [Next]_vars => Calm'
  <2> SUFFICES ASSUME OrdersInv, Calm, [Next]_vars PROVE Calm'
    OBVIOUS
  <2>1. \A c \in Callers : Current(c)'
    BY StepCurrent
  <2>2. stale' = stale
    BY FreshWrites, OthersWriteNothingStale DEF Current, history
  <2>3. QED BY <2>1, <2>2
<1>3. Calm => stale = {}
  OBVIOUS
<1> HIDE DEF Calm
<1>4. QED BY <1>1, <1>2, <1>3, OrdersAlways, PTL DEF Spec
=============================================================================
