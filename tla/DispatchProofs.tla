--------------------------- MODULE DispatchProofs ---------------------------
(***************************************************************************)
(* Nobody is left with deliveries who may not make them, routes keep their *)
(* order and the automatic assignment its balance, for every set of        *)
(* orders, drivers, districts and callers.                                 *)
(***************************************************************************)
EXTENDS Dispatch, FiniteSetTheorems, SequenceTheorems, TLAPS

USE DispatchAssumption DEF DispatchAssumption

\* What a caller is about is filled in as far as its step needs it.
CallInv(k) ==
    /\ k.pc \in {"drivers", "loads"} => k.auto
    /\ k.pc = "write" => k.todo # <<>> /\ k.driver \in Drivers
    /\ k.pc = "loop" /\ ~k.auto => k.driver \in Drivers
    /\ k.pc = "route" => /\ k.driver \in Drivers
                         /\ IsInjective(k.todo) /\ ToSet(k.todo) \subseteq k.seen
    /\ k.pc = "leave" => k.driver \in Drivers
    /\ k.pc \in {"start", "deliver", "fail", "cancel"} => k.todo # <<>>

DispatchInv == TypeOK /\ \A c \in Callers : CallInv(call[c])

Empty == <<>>
LEMMA EmptyIsSeq == Empty \in Seq(Orders)
BY DEF Empty

LEMMA IdleIsCall == Idle \in Call /\ CallInv(Idle)
<1>1. Idle = [pc |-> "idle", auto |-> FALSE, todo |-> Empty, driver |-> None,
              seen |-> {}, zones |-> [d \in Drivers |-> {}],
              base |-> [d \in Drivers |-> 0], given |-> {}]
  BY DEF Idle, Empty
<1>2. Idle \in Call
  BY <1>1, EmptyIsSeq DEF Call
<1>3. Idle.pc = "idle"
  BY <1>1
<1>4. QED BY <1>2, <1>3 DEF CallInv

LEMMA ListsAreSeqs ==
    ASSUME NEW list \in Lists
    PROVE  list \in Seq(Orders) /\ list # <<>> /\ ToSet(list) \subseteq Orders
<1>1. PICK s \in SUBSET Orders : list \in SetToSeqs(s)
  BY DEF Lists, SetToAllKPermutations
<1>2. list \in [1..Cardinality(s) -> s]
  BY <1>1 DEF SetToSeqs
<1>3. Cardinality(s) \in Nat
  BY FS_Subset, FS_CardinalityType
<1>4. list \in [1..Cardinality(s) -> Orders]
  BY <1>2
<1>5. list \in Seq(Orders)
  BY <1>3, <1>4, SeqDef
<1>6. list # <<>>
  BY DEF Lists
<1>7. QED BY <1>5, <1>6 DEF ToSet

\* A caller that moves by itself keeps the rest as it was.
LEMMA CallMoves ==
    ASSUME DispatchInv, NEW c \in Callers, NEW k \in Call, CallInv(k),
           call' = [call EXCEPT ![c] = k],
           order' \in [Orders -> OrderRow], user' \in [Drivers -> UserRow],
           plan' \in [Drivers -> SUBSET (Orders \X Orders)],
           begun' \in 0..MaxCalls,
           overtaken' \subseteq Orders, overlapped' \subseteq Drivers,
           late' \subseteq Orders
    PROVE  DispatchInv'
<1>1. \A e \in Callers : call'[e] = IF e = c THEN k ELSE call[e]
  BY DEF DispatchInv, TypeOK
<1>2. call' \in [Callers -> Call]
  BY DEF DispatchInv, TypeOK
<1>3. \A e \in Callers : CallInv(call'[e])
  BY <1>1 DEF DispatchInv
<1>4. QED BY <1>2, <1>3 DEF DispatchInv, TypeOK

LEMMA InitTypes == ASSUME Init PROVE DispatchInv
<1>1. order \in [Orders -> OrderRow] /\ user \in [Drivers -> UserRow]
  BY DEF Init, OrderRow, UserRow, ACTIVE
<1>2. call \in [Callers -> Call] /\ \A c \in Callers : CallInv(call[c])
  BY IdleIsCall DEF Init
<1>3. plan \in [Drivers -> SUBSET (Orders \X Orders)] /\ begun \in 0..MaxCalls
  BY DEF Init
<1>4. QED BY <1>1, <1>2, <1>3 DEF Init, DispatchInv, TypeOK

LEMMA CountedBounds == ASSUME DispatchInv, Counted PROVE begun' \in 0..MaxCalls
BY DEF Counted, DispatchInv, TypeOK

LEMMA Types ==
    ASSUME DispatchInv
    PROVE  /\ order \in [Orders -> OrderRow] /\ user \in [Drivers -> UserRow]
           /\ call \in [Callers -> Call] /\ begun \in 0..MaxCalls
           /\ plan \in [Drivers -> SUBSET (Orders \X Orders)]
           /\ overtaken \subseteq Orders /\ overlapped \subseteq Drivers
           /\ late \subseteq Orders
BY DEF DispatchInv, TypeOK

\* The steps that begin a request.
LEMMA BeginsKeeps ==
    ASSUME DispatchInv, NEW c \in Callers,
           \/ \E list \in Lists, d \in Drivers :
                 AssignBulk(c, list, d) \/ ReadRoute(c, d, list)
           \/ \E list \in Lists : AutoReadOrders(c, list)
           \/ \E d \in Drivers : ReadLeaving(c, d)
    PROVE  DispatchInv'
<1>1. ASSUME NEW list \in Lists, NEW d \in Drivers, AssignBulk(c, list, d)
      PROVE  DispatchInv'
  <2> DEFINE k == [Idle EXCEPT !.pc = "loop", !.todo = list, !.driver = d]
  <2>1. k \in Call /\ k.pc = "loop" /\ k.driver = d
    BY IdleIsCall, ListsAreSeqs DEF Call
  <2>2. call' = [call EXCEPT ![c] = k] /\ begun' \in 0..MaxCalls
    BY <1>1, CountedBounds DEF AssignBulk, Begins
  <2> HIDE DEF k
  <2>3. CallInv(k)
    BY <2>1 DEF CallInv
  <2>4. QED BY <1>1, <2>1, <2>2, <2>3, CallMoves, Types DEF AssignBulk
<1>2. ASSUME NEW list \in Lists, NEW d \in Drivers, ReadRoute(c, d, list)
      PROVE  DispatchInv'
  <2> DEFINE k == [Idle EXCEPT !.pc = "route", !.todo = list, !.driver = d,
                               !.seen = ToSet(list) \cap ActiveOf(d)]
  <2>1. ToSet(list) \subseteq ActiveOf(d) /\ ToSet(list) \subseteq Orders
        /\ IsInjective(list)
    BY <1>2, ListsAreSeqs DEF ReadRoute, MayRoute
  <2>2. /\ k \in Call /\ k.pc = "route" /\ k.driver = d /\ k.todo = list
        /\ k.seen = ToSet(list) \cap ActiveOf(d)
    BY IdleIsCall, ListsAreSeqs, <2>1 DEF Call
  <2>3. call' = [call EXCEPT ![c] = k] /\ begun' \in 0..MaxCalls
    BY <1>2, CountedBounds DEF ReadRoute, Begins
  <2> HIDE DEF k
  <2>4. CallInv(k)
    BY <2>1, <2>2 DEF CallInv
  <2>5. QED BY <1>2, <2>2, <2>3, <2>4, CallMoves, Types DEF ReadRoute
<1>3. ASSUME NEW list \in Lists, AutoReadOrders(c, list) PROVE DispatchInv'
  <2> DEFINE seen == {o \in ToSet(list) : order[o].driver # None}
             k == [Idle EXCEPT !.pc = "drivers", !.auto = TRUE, !.todo = list,
                               !.seen = seen]
  <2>1. seen \subseteq Orders
    BY ListsAreSeqs
  <2>2. k \in Call /\ k.pc = "drivers" /\ k.auto
    BY IdleIsCall, ListsAreSeqs, <2>1 DEF Call
  <2>3. call' = [call EXCEPT ![c] = k] /\ begun' \in 0..MaxCalls
    BY <1>3, CountedBounds DEF AutoReadOrders, Begins
  <2> HIDE DEF k
  <2>4. CallInv(k)
    BY <2>2 DEF CallInv
  <2>5. QED BY <1>3, <2>2, <2>3, <2>4, CallMoves, Types DEF AutoReadOrders
<1>4. ASSUME NEW d \in Drivers, ReadLeaving(c, d) PROVE DispatchInv'
  <2> DEFINE k == [Idle EXCEPT !.pc = "leave", !.driver = d]
  <2>1. k \in Call /\ k.pc = "leave" /\ k.driver = d
    BY IdleIsCall DEF Call
  <2>2. call' = [call EXCEPT ![c] = k] /\ begun' \in 0..MaxCalls
    BY <1>4, CountedBounds DEF ReadLeaving, Begins
  <2> HIDE DEF k
  <2>3. CallInv(k)
    BY <2>1 DEF CallInv
  <2>4. QED BY <1>4, <2>1, <2>2, <2>3, CallMoves, Types DEF ReadLeaving
<1>5. QED BY <1>1, <1>2, <1>3, <1>4

\* The rows after an assignment, a route or a step of a delivery.
LEMMA WithoutTypes ==
    ASSUME DispatchInv, NEW o
    PROVE  Without(o) \in [Drivers -> SUBSET (Orders \X Orders)]
BY DEF DispatchInv, TypeOK, Without

LEMMA AssignedTypes ==
    ASSUME DispatchInv, NEW o \in Orders, NEW d \in Drivers,
           order' = [order EXCEPT ![o].driver = d, ![o].status = "ASSIGNED"]
    PROVE  /\ order' \in [Orders -> OrderRow]
           /\ \A x \in Orders : x # o => order'[x] = order[x]
           /\ \A x \in Orders : order'[x].route = order[x].route
           /\ order'[o].driver = d /\ order'[o].status = "ASSIGNED"
<1>1. order \in [Orders -> OrderRow]
  BY Types
<1>2. order' = [[order EXCEPT ![o].driver = d] EXCEPT ![o].status = "ASSIGNED"]
  OBVIOUS
<1> DEFINE half == [order EXCEPT ![o].driver = d]
<1>3. half \in [Orders -> OrderRow]
  <2>1. [order[o] EXCEPT !.driver = d] \in OrderRow
    BY <1>1 DEF OrderRow
  <2>2. half = [order EXCEPT ![o] = [order[o] EXCEPT !.driver = d]]
    OBVIOUS
  <2>3. QED BY <1>1, <2>1, <2>2
<1>4. \A x \in Orders : /\ x # o => half[x] = order[x]
                        /\ half[x].route = order[x].route
                        /\ x = o => half[x].driver = d
  BY <1>1 DEF OrderRow
<1>5. order' = [half EXCEPT ![o].status = "ASSIGNED"]
  BY <1>2
<1> HIDE DEF half
<1>6. order' \in [Orders -> OrderRow]
  <2> DEFINE row == [half[o] EXCEPT !.status = "ASSIGNED"]
  <2>1. row \in OrderRow
    BY <1>3 DEF OrderRow, ACTIVE
  <2>2. order' = [half EXCEPT ![o] = row]
    BY <1>5
  <2> HIDE DEF row
  <2>3. [half EXCEPT ![o] = row] \in [Orders -> OrderRow]
    BY <1>3, <2>1
  <2>4. QED BY <2>2, <2>3
<1>7. \A x \in Orders : /\ x # o => order'[x] = half[x]
                        /\ order'[x].route = half[x].route
                        /\ order'[x].driver = half[x].driver
                        /\ x = o => order'[x].status = "ASSIGNED"
  BY <1>3, <1>5 DEF OrderRow
<1>8. QED BY <1>4, <1>6, <1>7

LEMMA HeadOfList ==
    ASSUME NEW list \in Seq(Orders), list # <<>>
    PROVE  Head(list) \in Orders /\ Tail(list) \in Seq(Orders)
OBVIOUS

LEMMA AutoKeeps ==
    ASSUME DispatchInv, NEW c \in Callers,
           AutoReadDrivers(c) \/ AutoReadLoads(c) \/ LoopEnds(c)
    PROVE  DispatchInv'
<1>0. call[c] \in Call
  BY Types
<1>1. CASE AutoReadDrivers(c)
  <2> DEFINE z == [d \in Drivers |-> IF user[d].duty = "driver" /\ user[d].available
                                     THEN user[d].zones ELSE {}]
             k == [[call[c] EXCEPT !.pc = "loads"] EXCEPT !.zones = z]
  <2>1. z \in [Drivers -> SUBSET Districts]
    BY Types DEF UserRow
  <2>2. call' = [[call EXCEPT ![c].pc = "loads"] EXCEPT ![c].zones = z]
    BY <1>1 DEF AutoReadDrivers
  <2> HIDE DEF z
  <2>3. k \in Call /\ k.pc = "loads" /\ k.auto = call[c].auto
    BY <1>0, <2>1 DEF Call
  <2>4. call' = [call EXCEPT ![c] = k]
    BY <2>2, Types
  <2> HIDE DEF k
  <2>5. CallInv(k)
    BY <1>1, <2>3 DEF CallInv, DispatchInv, AutoReadDrivers
  <2>6. QED BY <1>1, <2>3, <2>4, <2>5, CallMoves, Types DEF AutoReadDrivers
<1>2. CASE AutoReadLoads(c)
  <2> DEFINE b == [d \in Drivers |-> Cardinality(ActiveOf(d))]
             k == [[call[c] EXCEPT !.pc = "loop"] EXCEPT !.base = b]
  <2>1. b \in [Drivers -> Nat]
    <3>1. \A d \in Drivers : Cardinality(ActiveOf(d)) \in Nat
      BY FS_Subset, FS_CardinalityType DEF ActiveOf
    <3>2. QED BY <3>1
  <2>2. call' = [[call EXCEPT ![c].pc = "loop"] EXCEPT ![c].base = b]
    BY <1>2 DEF AutoReadLoads
  <2> HIDE DEF b
  <2>3. k \in Call /\ k.pc = "loop" /\ k.auto = call[c].auto
    BY <1>0, <2>1 DEF Call
  <2>4. call' = [call EXCEPT ![c] = k]
    BY <2>2, Types
  <2>5. call[c].auto
    BY <1>2 DEF AutoReadLoads, DispatchInv, CallInv
  <2> HIDE DEF k
  <2>6. CallInv(k)
    BY <2>3, <2>5 DEF CallInv
  <2>7. QED BY <1>2, <2>3, <2>4, <2>6, CallMoves, Types DEF AutoReadLoads
<1>3. CASE LoopEnds(c)
  BY <1>3, IdleIsCall, CallMoves, Types DEF LoopEnds
<1>4. QED BY <1>1, <1>2, <1>3

LEMMA PicksDrivers ==
    ASSUME DispatchInv, NEW c \in Callers, NEW o, call[c].pc = "loop"
    PROVE  Picks(c, o) \subseteq Drivers
<1>1. ~call[c].auto => call[c].driver \in Drivers
  BY DEF DispatchInv, CallInv
<1>2. QED BY <1>1 DEF Picks, LeastLoaded, Candidates

LEMMA CheckKeeps ==
    ASSUME DispatchInv, NEW c \in Callers, CheckNext(c)
    PROVE  DispatchInv'
<1>0. call[c] \in Call /\ call[c].pc = "loop" /\ call[c].todo # <<>>
      /\ call[c].todo \in Seq(Orders)
  BY Types DEF CheckNext, Call
<1>1. UNCHANGED <<begun, order, user, plan, overtaken, overlapped, late>>
  BY DEF CheckNext
<1>2. CASE call' = [call EXCEPT ![c].todo = Tail(@)]
  <2> DEFINE k == [call[c] EXCEPT !.todo = Tail(call[c].todo)]
  <2>1. k \in Call /\ k.pc = "loop" /\ k.auto = call[c].auto /\ k.driver = call[c].driver
    BY <1>0, HeadOfList DEF Call
  <2>2. call' = [call EXCEPT ![c] = k]
    BY <1>2, Types
  <2> HIDE DEF k
  <2>3. CallInv(k)
    BY <1>0, <2>1 DEF CallInv, DispatchInv
  <2>4. QED BY <1>1, <2>1, <2>2, <2>3, CallMoves, Types
<1>3. ASSUME NEW d \in Drivers,
             call' = [call EXCEPT ![c].pc = "write", ![c].driver = d]
      PROVE  DispatchInv'
  <2> DEFINE k == [[call[c] EXCEPT !.pc = "write"] EXCEPT !.driver = d]
  <2>1. /\ k \in Call /\ k.pc = "write" /\ k.driver = d
        /\ k.todo = call[c].todo
    BY <1>0 DEF Call
  <2>2. call' = [[call EXCEPT ![c].pc = "write"] EXCEPT ![c].driver = d]
    BY <1>3
  <2>3. call' = [call EXCEPT ![c] = k]
    BY <2>2, Types
  <2> HIDE DEF k
  <2>4. CallInv(k)
    BY <1>0, <2>1 DEF CallInv
  <2>5. QED BY <1>1, <2>1, <2>3, <2>4, CallMoves, Types
<1>4. QED
  <2>1. Picks(c, Head(call[c].todo)) \subseteq Drivers
    BY <1>0, PicksDrivers
  <2>2. QED BY <1>2, <1>3, <2>1 DEF CheckNext

LEMMA AssignKeeps ==
    ASSUME DispatchInv, NEW c \in Callers, WriteAssign(c)
    PROVE  DispatchInv'
<1>0. /\ call[c] \in Call /\ call[c].pc = "write" /\ call[c].todo # <<>>
      /\ call[c].todo \in Seq(Orders) /\ call[c].driver \in Drivers
  BY Types DEF WriteAssign, Call, DispatchInv, CallInv
<1> DEFINE o == Head(call[c].todo)
           d == call[c].driver
           g == IF call[c].auto THEN call[c].given \cup {<<o, d>>} ELSE call[c].given
           k == [[[call[c] EXCEPT !.pc = "loop"] EXCEPT !.todo = Tail(call[c].todo)]
                     EXCEPT !.given = g]
<1>1. o \in Orders
  BY <1>0, HeadOfList
<1>2. g \subseteq Orders \X Drivers
  BY <1>0, <1>1 DEF Call
<1>3. call' = [[[call EXCEPT ![c].pc = "loop"] EXCEPT ![c].todo = Tail(call[c].todo)]
                  EXCEPT ![c].given = g]
  BY Types DEF WriteAssign, Call
<1> HIDE DEF g
<1>4. /\ k \in Call /\ k.pc = "loop" /\ k.driver = d
  BY <1>0, <1>2, HeadOfList DEF Call
<1>5. call' = [call EXCEPT ![c] = k]
  BY <1>3, Types
<1>6. order' \in [Orders -> OrderRow]
  BY <1>0, <1>1, AssignedTypes DEF WriteAssign
<1>7. plan' \in [Drivers -> SUBSET (Orders \X Orders)] /\ overlapped' \subseteq Drivers
  BY <1>0, WithoutTypes, Types DEF WriteAssign
<1> HIDE DEF k
<1>8. CallInv(k)
  BY <1>0, <1>4 DEF CallInv
<1>9. QED BY <1>4, <1>5, <1>6, <1>7, <1>8, CallMoves, Types DEF WriteAssign

LEMMA RouteKeeps ==
    ASSUME DispatchInv, NEW c \in Callers, WriteRoute(c)
    PROVE  /\ DispatchInv'
           /\ \A o \in Orders : /\ order'[o].driver = order[o].driver
                                 /\ order'[o].status = order[o].status
<1> DEFINE list == call[c].todo
           d == call[c].driver
           gone == {o \in ToSet(list) : order[o].driver # d}
<1>1. list \in Seq(Orders) /\ d \in Drivers /\ ToSet(list) \subseteq Orders
  BY Types DEF WriteRoute, Call, DispatchInv, CallInv, ToSet
<1>2. \A o \in ToSet(list) : (CHOOSE i \in DOMAIN list : list[i] = o) \in Nat
  BY <1>1 DEF ToSet
<1>3. order' \in [Orders -> OrderRow]
      /\ \A o \in Orders : /\ order'[o].driver = order[o].driver
                            /\ order'[o].status = order[o].status
  <2>1. ASSUME NEW o \in Orders, NEW n \in Nat
        PROVE  /\ [order[o] EXCEPT !.route = n] \in OrderRow
               /\ [order[o] EXCEPT !.route = n].driver = order[o].driver
               /\ [order[o] EXCEPT !.route = n].status = order[o].status
    <3>1. order[o] \in OrderRow
      BY Types
    <3>2. QED BY <3>1 DEF OrderRow
  <2> DEFINE to(o) == [order[o] EXCEPT !.route = CHOOSE i \in DOMAIN list : list[i] = o]
  <2>2. \A o \in ToSet(list) : o \in Orders =>
           /\ to(o) \in OrderRow
           /\ to(o).driver = order[o].driver /\ to(o).status = order[o].status
    BY <1>2, <2>1
  <2>3. order' = [o \in Orders |-> IF o \in ToSet(list) THEN to(o) ELSE order[o]]
    BY DEF WriteRoute
  <2>4. order \in [Orders -> OrderRow]
    BY Types
  <2> HIDE DEF to, list
  <2>5. QED BY <2>2, <2>3, <2>4
<1>4. overtaken' \subseteq Orders
  BY <1>1, Types DEF WriteRoute
<1>5. plan' \in [Drivers -> SUBSET (Orders \X Orders)]
  BY <1>1, Types DEF WriteRoute, Before
<1>6. DispatchInv'
  BY <1>3, <1>4, <1>5, IdleIsCall, CallMoves, Types DEF WriteRoute
<1>7. QED BY <1>3, <1>6

LEMMA LeavingKeeps ==
    ASSUME DispatchInv, NEW c \in Callers, WriteLeaving(c)
    PROVE  DispatchInv'
<1>1. user' \in [Drivers -> UserRow]
  <2>1. \A d \in Drivers : [user[d] EXCEPT !.duty = "other"] \in UserRow
    BY Types DEF UserRow
  <2>2. QED BY <2>1, Types DEF WriteLeaving, DispatchInv, CallInv
<1>2. call[c].driver \in Drivers
  BY DEF WriteLeaving, DispatchInv, CallInv
<1>3. overlapped' \subseteq Drivers
  BY <1>2, Types DEF WriteLeaving
<1>4. QED BY <1>1, <1>3, IdleIsCall, CallMoves, Types DEF WriteLeaving

\* The users page.
LEMMA OtherKeeps ==
    ASSUME DispatchInv,
           \E d \in Drivers : SetActive(d) \/ BecomeDriver(d)
                              \/ \E zones \in ZoneSets : SetZones(d, zones)
    PROVE  DispatchInv'
<1> USE DEF DispatchInv, TypeOK
<1>1. ASSUME NEW d \in Drivers, SetActive(d) PROVE DispatchInv'
  BY <1>1, CountedBounds DEF SetActive, UserRow
<1>2. ASSUME NEW d \in Drivers, BecomeDriver(d) PROVE DispatchInv'
  BY <1>2, CountedBounds DEF BecomeDriver, UserRow
<1>3. ASSUME NEW d \in Drivers, NEW zones \in ZoneSets, SetZones(d, zones)
      PROVE  DispatchInv'
  BY <1>3, CountedBounds DEF SetZones, UserRow
<1>4. QED BY <1>1, <1>2, <1>3

\* The deliveries: a step begins, or is written.
LEMMA StepsKeep ==
    ASSUME DispatchInv, NEW c \in Callers, NEW o \in Orders,
           ReadStart(c, o) \/ ReadComplete(c, o) \/ ReadCancel(c, o)
    PROVE  /\ DispatchInv'
           /\ UNCHANGED <<order, user, plan, overtaken, overlapped, late>>
           /\ \A e \in Callers : e # c => call'[e] = call[e]
           /\ call'[c].pc \in {"start", "deliver", "fail", "cancel"}
           /\ call'[c].given = {} /\ call'[c].auto = FALSE
<1>1. PICK pc \in {"start", "deliver", "fail", "cancel"} : Step(c, pc, o)
  BY DEF ReadStart, ReadComplete, ReadCancel
<1> DEFINE list == <<o>>
           k == [Idle EXCEPT !.pc = pc, !.todo = list]
<1>2. list \in Seq(Orders) /\ list # <<>>
  OBVIOUS
<1> HIDE DEF list
<1>3. Idle.given = {} /\ Idle.auto = FALSE
  BY DEF Idle
<1>4. /\ k \in Call /\ k.pc = pc /\ k.todo = list
      /\ k.given = {} /\ k.auto = FALSE
  BY <1>2, <1>3, IdleIsCall DEF Call
<1>5. call' = [call EXCEPT ![c] = k]
      /\ UNCHANGED <<begun, order, user, plan, overtaken, overlapped, late>>
  BY <1>1 DEF Step, list
<1> HIDE DEF k
<1>6. CallInv(k)
  BY <1>2, <1>4 DEF CallInv
<1>7. call'[c] = k /\ \A e \in Callers : e # c => call'[e] = call[e]
  BY <1>5, Types
<1>8. DispatchInv'
  BY <1>4, <1>5, <1>6, CallMoves, Types
<1>9. QED BY <1>4, <1>5, <1>7, <1>8

\* What the written steps do to the orders.
LEMMA StepsWrite ==
    ASSUME DispatchInv, NEW c \in Callers,
           WriteStart(c) \/ WriteComplete(c) \/ WriteCancel(c)
    PROVE  \E o \in Orders :
             /\ order' \in [Orders -> OrderRow]
             /\ \A x \in Orders : x # o => order'[x] = order[x]
             /\ ~WriteCancel(c) => /\ order'[o].driver = order[o].driver
                                   /\ order'[o].route = order[o].route
             /\ ~WriteStart(c) => order'[o].status \notin ACTIVE
             /\ \/ late' = late \cup (IF WriteStart(c) /\ order[o].status \notin ACTIVE
                                      THEN {o} ELSE {})
                \/ ~WriteStart(c) /\ late' = late \ {o}
             /\ plan' = IF WriteCancel(c) THEN Without(o) ELSE plan
<1>0. order \in [Orders -> OrderRow] /\ call[c] \in Call
  BY Types
<1>1. call[c].todo \in Seq(Orders) /\ call[c].todo # <<>>
  BY <1>0 DEF WriteStart, WriteComplete, WriteCancel, DispatchInv, CallInv, Call
<1> DEFINE o == Head(call[c].todo)
<1>2. o \in Orders
  BY <1>1, HeadOfList
<1>3. CASE WriteStart(c)
  <2>1. [order[o] EXCEPT !.status = "ON_THE_WAY"] \in OrderRow
    BY <1>0, <1>2 DEF OrderRow, ACTIVE
  <2>2. order' = [order EXCEPT ![o] = [order[o] EXCEPT !.status = "ON_THE_WAY"]]
    BY <1>3 DEF WriteStart
  <2>3. order' \in [Orders -> OrderRow]
    BY <1>0, <2>1, <2>2
  <2>4. /\ \A x \in Orders : x # o => order'[x] = order[x]
        /\ order'[o].driver = order[o].driver /\ order'[o].route = order[o].route
    BY <1>0, <1>2, <2>2 DEF OrderRow
  <2>5. ~WriteCancel(c)
    BY <1>3 DEF WriteStart, WriteCancel
  <2>6. plan' = plan /\ late' = late \cup (IF order[o].status \in ACTIVE THEN {} ELSE {o})
    BY <1>3 DEF WriteStart
  <2> HIDE DEF o
  <2>7. late' = late \cup (IF WriteStart(c) /\ order[o].status \notin ACTIVE
                          THEN {o} ELSE {})
    BY <1>3, <2>6
  <2>9. QED
    <3>1. /\ ~WriteCancel(c) => /\ order'[o].driver = order[o].driver
                                /\ order'[o].route = order[o].route
          /\ ~WriteStart(c) => order'[o].status \notin ACTIVE
      BY <1>3, <2>4
    <3>2. plan' = IF WriteCancel(c) THEN Without(o) ELSE plan
      BY <2>5, <2>6
    <3>3. \A x \in Orders : x # o => order'[x] = order[x]
      BY <2>4
    <3> WITNESS o \in Orders
    <3>4. QED BY <2>3, <2>7, <3>1, <3>2, <3>3
<1>4. CASE WriteComplete(c)
  <2>1. ~WriteCancel(c) /\ ~WriteStart(c) /\ plan' = plan /\ late' = late \ {o}
    BY <1>4 DEF WriteComplete, WriteCancel, WriteStart
  <2>2. /\ order' \in [Orders -> OrderRow]
        /\ \A x \in Orders : x # o => order'[x] = order[x]
        /\ order'[o].driver = order[o].driver /\ order'[o].route = order[o].route
        /\ order'[o].status \notin ACTIVE
    <3>1. CASE order' = [order EXCEPT ![o].status = "FAILED"]
      BY <1>0, <1>2, <3>1 DEF OrderRow, ACTIVE
    <3>2. CASE order' = [order EXCEPT ![o].status = "DELIVERED", ![o].assignable = FALSE]
      <4> DEFINE row == [[order[o] EXCEPT !.status = "DELIVERED"]
                            EXCEPT !.assignable = FALSE]
      <4>1. row \in OrderRow
        <5>1. [order[o] EXCEPT !.status = "DELIVERED"] \in OrderRow
          BY <1>0, <1>2 DEF OrderRow
        <5>2. QED BY <5>1 DEF OrderRow
      <4>2. /\ row.driver = order[o].driver /\ row.route = order[o].route
            /\ row.status = "DELIVERED"
        BY <1>0, <1>2 DEF OrderRow
      <4>3. order' = [[order EXCEPT ![o].status = "DELIVERED"]
                         EXCEPT ![o].assignable = FALSE]
        BY <3>2
      <4>4. order' = [order EXCEPT ![o] = row]
        BY <1>0, <4>3
      <4> HIDE DEF row, o
      <4>5. QED BY <1>0, <1>2, <4>1, <4>2, <4>4 DEF ACTIVE
    <3>3. QED BY <1>4, <3>1, <3>2 DEF WriteComplete
  <2>3. QED BY <1>2, <2>1, <2>2
<1>5. CASE WriteCancel(c)
  <2>1. ~WriteStart(c) /\ plan' = Without(o) /\ late' = late \ {o}
    BY <1>5 DEF WriteCancel, WriteStart
  <2>2. order' = [order EXCEPT ![o] = [assignable |-> FALSE, driver |-> None,
                                       status |-> "PENDING", route |-> 0]]
    BY <1>5 DEF WriteCancel
  <2> HIDE DEF o
  <2>3. /\ order' \in [Orders -> OrderRow]
        /\ \A x \in Orders : x # o => order'[x] = order[x]
        /\ order'[o].status \notin ACTIVE
    BY <1>0, <1>2, <2>2 DEF OrderRow, ACTIVE
  <2>4. QED BY <1>2, <1>5, <2>1, <2>3 DEF o
<1>6. QED BY <1>3, <1>4, <1>5

LEMMA WritesKeep ==
    ASSUME DispatchInv, NEW c \in Callers,
           WriteStart(c) \/ WriteComplete(c) \/ WriteCancel(c)
    PROVE  DispatchInv'
<1>1. PICK o \in Orders : /\ order' \in [Orders -> OrderRow]
                          /\ late' \subseteq late \cup {o}
                          /\ plan' = Without(o) \/ plan' = plan
  <2>1. PICK o \in Orders :
             /\ order' \in [Orders -> OrderRow]
             /\ \/ late' = late \cup (IF WriteStart(c) /\ order[o].status \notin ACTIVE
                                      THEN {o} ELSE {})
                \/ ~WriteStart(c) /\ late' = late \ {o}
             /\ plan' = IF WriteCancel(c) THEN Without(o) ELSE plan
    BY StepsWrite
  <2>2. QED BY <2>1
<1>2. plan' \in [Drivers -> SUBSET (Orders \X Orders)] /\ late' \subseteq Orders
  BY <1>1, WithoutTypes, Types
<1>3. call' = [call EXCEPT ![c] = Idle]
      /\ UNCHANGED <<begun, user, overtaken, overlapped>>
  BY DEF WriteStart, WriteComplete, WriteCancel
<1>4. QED BY <1>1, <1>2, <1>3, IdleIsCall, CallMoves, Types

LEMMA NextTypes == ASSUME DispatchInv, [Next]_vars PROVE DispatchInv'
<1>1. CASE Next
  BY <1>1, BeginsKeeps, AutoKeeps, CheckKeeps, AssignKeeps, RouteKeeps, LeavingKeeps,
     OtherKeeps, StepsKeep, WritesKeep DEF Next
<1>2. CASE UNCHANGED vars
  BY <1>2 DEF vars, DispatchInv, TypeOK
<1>3. QED BY <1>1, <1>2

LEMMA TypesAlways == Spec => []DispatchInv
<1>1. Init => DispatchInv
  BY InitTypes
<1>2. DispatchInv /\ [Next]_vars => DispatchInv'
  BY NextTypes
<1>3. QED BY <1>1, <1>2, PTL DEF Spec

\* TypeOK: orders, drivers, requests in flight and plans keep their types.
THEOREM DispatchTypes == Spec => []TypeOK
<1>1. DispatchInv => TypeOK
  BY DEF DispatchInv
<1>2. QED BY <1>1, TypesAlways, PTL

-----------------------------------------------------------------------------
(* Nobody is stranded.                                                     *)

\* An active delivery that no late start brought back is a driver's, of one
\* who left the role while it was given to him, or it was given to him while
\* his change of role had counted none; whom a change of role is about to take
\* has only such deliveries.
StrandInv ==
    /\ \A o \in Orders \ late : order[o].status \in ACTIVE =>
          /\ order[o].driver \in Drivers
          /\ IsDriver(order[o].driver) \/ order[o].driver \in overlapped
    /\ \A c \in Callers : call[c].pc = "leave" =>
          \A o \in ActiveOf(call[c].driver) \ late : call[c].driver \in overlapped

LEMMA InitStrand == ASSUME Init PROVE StrandInv
BY DEF Init, StrandInv, ACTIVE, Idle

\* A step that gives nobody a delivery and takes no role away.
LEMMA StrandKept ==
    ASSUME DispatchInv, StrandInv,
           overlapped \subseteq overlapped',
           \A d \in Drivers : IsDriver(d) => IsDriver(d)',
           \A o \in Orders \ late' : order'[o].status \in ACTIVE =>
              /\ o \notin late
              /\ order[o].status \in ACTIVE /\ order'[o].driver = order[o].driver,
           \A c \in Callers : call'[c].pc = "leave" =>
              \/ call[c].pc = "leave" /\ call'[c].driver = call[c].driver
              \/ ActiveOf(call'[c].driver) = {}
    PROVE  StrandInv'
<1>1. ASSUME NEW o \in Orders \ late', order'[o].status \in ACTIVE
      PROVE  order'[o].driver \in Drivers
             /\ (IsDriver(order[o].driver)' \/ order'[o].driver \in overlapped')
  BY <1>1 DEF StrandInv
<1>2. ASSUME NEW c \in Callers, call'[c].pc = "leave",
             NEW o \in Orders \ late', order'[o].driver = call'[c].driver,
             order'[o].status \in ACTIVE
      PROVE  call'[c].driver \in overlapped'
  <2>1. o \notin late /\ order[o].status \in ACTIVE /\ order[o].driver = call'[c].driver
    BY <1>2
  <2>2. o \in ActiveOf(call'[c].driver)
    BY <2>1 DEF ActiveOf
  <2>3. call[c].pc = "leave" /\ call'[c].driver = call[c].driver
    BY <1>2, <2>2
  <2>4. QED BY <1>2, <2>1, <2>2, <2>3 DEF StrandInv
<1>3. QED BY <1>1, <1>2 DEF StrandInv, ActiveOf, IsDriver

LEMMA NextStrand == ASSUME DispatchInv, StrandInv, [Next]_vars PROVE StrandInv'
<1>0. /\ order \in [Orders -> OrderRow] /\ user \in [Drivers -> UserRow]
      /\ call \in [Callers -> Call]
  BY Types
\* Requests that only move themselves.
<1>1. ASSUME NEW c \in Callers, NEW k, call' = [call EXCEPT ![c] = k],
             k.pc # "leave", UNCHANGED <<order, user, overlapped, late>>
      PROVE  StrandInv'
  <2>1. \A e \in Callers : call'[e].pc = "leave" =>
           call[e].pc = "leave" /\ call'[e].driver = call[e].driver
    BY <1>0, <1>1
  <2>2. QED BY <1>1, <2>1, StrandKept DEF IsDriver
<1>2. ASSUME NEW c \in Callers,
             \A e \in Callers : e # c => call'[e] = call[e],
             call'[c].pc # "leave", UNCHANGED <<order, user, overlapped, late>>
      PROVE  StrandInv'
  <2>1. \A e \in Callers : call'[e].pc = "leave" =>
           call[e].pc = "leave" /\ call'[e].driver = call[e].driver
    BY <1>2
  <2>2. QED BY <1>2, <2>1, StrandKept DEF IsDriver
<1>3. ASSUME NEW c \in Callers, NEW list \in Lists, NEW d \in Drivers,
             AssignBulk(c, list, d) \/ ReadRoute(c, d, list)
      PROVE  StrandInv'
  <2>1. \A e \in Callers : e # c => call'[e] = call[e]
    BY <1>0, <1>3 DEF AssignBulk, ReadRoute
  <2>2. call'[c].pc \in {"loop", "route"}
    <3>1. CASE AssignBulk(c, list, d)
      BY <1>0, <3>1, IdleIsCall DEF AssignBulk, Call
    <3>2. CASE ReadRoute(c, d, list)
      BY <1>0, <3>2, IdleIsCall DEF ReadRoute, Call
    <3>3. QED BY <1>3, <3>1, <3>2
  <2>3. QED BY <1>2, <1>3, <2>1, <2>2 DEF AssignBulk, ReadRoute
<1>4. ASSUME NEW c \in Callers, NEW list \in Lists, AutoReadOrders(c, list)
      PROVE  StrandInv'
  <2>1. (\A e \in Callers : e # c => call'[e] = call[e]) /\ call'[c].pc = "drivers"
    BY <1>0, <1>4, IdleIsCall DEF AutoReadOrders, Call
  <2>2. QED BY <1>2, <1>4, <2>1 DEF AutoReadOrders
<1>5. ASSUME NEW c \in Callers, AutoReadDrivers(c) \/ AutoReadLoads(c) PROVE StrandInv'
  <2>1. (\A e \in Callers : e # c => call'[e] = call[e])
        /\ call'[c].pc \in {"loads", "loop"}
    BY <1>0, <1>5 DEF AutoReadDrivers, AutoReadLoads, Call
  <2>2. QED BY <1>2, <1>5, <2>1 DEF AutoReadDrivers, AutoReadLoads
<1>6. ASSUME NEW c \in Callers, CheckNext(c) PROVE StrandInv'
  <2>1. (\A e \in Callers : e # c => call'[e] = call[e])
        /\ call'[c].pc \in {"write", "loop"}
    BY <1>0, <1>6 DEF CheckNext, Call
  <2>2. QED BY <1>2, <1>6, <2>1 DEF CheckNext
<1>7. ASSUME NEW c \in Callers, LoopEnds(c) PROVE StrandInv'
  <2>1. (\A e \in Callers : e # c => call'[e] = call[e]) /\ call'[c].pc = "idle"
    BY <1>0, <1>7, IdleIsCall DEF LoopEnds, Idle
  <2>2. QED BY <1>2, <1>7, <2>1 DEF LoopEnds
<1>8. ASSUME NEW c \in Callers, WriteAssign(c) PROVE StrandInv'
  <2>0. PICK o \in Orders, d \in Drivers : o = Head(call[c].todo) /\ d = call[c].driver
    BY <1>0, <1>8, HeadOfList DEF WriteAssign, Call, DispatchInv, CallInv
  <2>1. order' = [order EXCEPT ![o].driver = d, ![o].status = "ASSIGNED"]
    BY <1>8, <2>0 DEF WriteAssign
  <2>2. /\ \A x \in Orders : x # o => order'[x] = order[x]
        /\ order'[o].driver = d /\ order'[o].status = "ASSIGNED"
    BY <2>1, AssignedTypes
  <2>3. /\ UNCHANGED user
        /\ overlapped' = overlapped \cup (IF Leaving(d) \/ ~IsDriver(d) THEN {d} ELSE {})
    BY <1>8, <2>0 DEF WriteAssign
  <2>4. /\ \A e \in Callers : e # c => call'[e] = call[e]
        /\ call'[c].pc = "loop"
    BY <1>0, <1>8 DEF WriteAssign, Call
  <2>8. late' = late \ {o}
    BY <1>8, <2>0 DEF WriteAssign
  <2>5. ASSUME NEW x \in Orders \ late', order'[x].status \in ACTIVE
        PROVE  order'[x].driver \in Drivers
               /\ (user'[order'[x].driver].duty # "other" \/ order'[x].driver \in overlapped')
    <3>1. CASE x = o
      BY <2>2, <2>3, <3>1 DEF IsDriver
    <3>2. CASE x # o
      BY <2>2, <2>3, <2>5, <2>8, <3>2 DEF StrandInv, IsDriver
    <3>3. QED BY <3>1, <3>2
  <2>6. ASSUME NEW e \in Callers, call'[e].pc = "leave",
               NEW x \in Orders \ late', order'[x].driver = call'[e].driver,
               order'[x].status \in ACTIVE
        PROVE  call'[e].driver \in overlapped'
    <3>1. call'[e] = call[e] /\ call[e].pc = "leave"
      BY <2>4, <2>6
    <3>2. CASE x = o
      <4>1. Leaving(d)
        BY <2>2, <2>6, <3>1, <3>2 DEF Leaving
      <4>2. QED BY <2>2, <2>3, <2>6, <3>2, <4>1
    <3>3. CASE x # o
      BY <2>2, <2>3, <2>6, <2>8, <3>1, <3>3 DEF StrandInv, ActiveOf
    <3>4. QED BY <3>2, <3>3
  <2>7. QED BY <2>5, <2>6 DEF StrandInv, ActiveOf, IsDriver
<1>9. ASSUME NEW c \in Callers, WriteRoute(c) PROVE StrandInv'
  <2>1. \A x \in Orders : order'[x].driver = order[x].driver
                         /\ order'[x].status = order[x].status
    BY <1>9, RouteKeeps
  <2>2. \A e \in Callers : call'[e].pc = "leave" =>
           call[e].pc = "leave" /\ call'[e].driver = call[e].driver
    BY <1>0, <1>9, IdleIsCall DEF WriteRoute, Idle
  <2>3. UNCHANGED <<user, overlapped, late>>
    BY <1>9 DEF WriteRoute
  <2>4. QED BY <2>1, <2>2, <2>3, StrandKept DEF IsDriver
<1>10. ASSUME NEW c \in Callers, WriteLeaving(c) PROVE StrandInv'
  <2>0. PICK d \in Drivers : d = call[c].driver
    BY <1>10 DEF WriteLeaving, DispatchInv, CallInv
  <2>1. /\ \A e \in Drivers : e # d => user'[e] = user[e]
        /\ UNCHANGED <<order, late>> /\ overlapped \subseteq overlapped'
        /\ \A e \in Callers : call'[e].pc = "leave" =>
              call[e].pc = "leave" /\ call'[e].driver = call[e].driver
    BY <1>0, <1>10, <2>0, IdleIsCall DEF WriteLeaving, Idle
  <2>2. \A o \in ActiveOf(d) \ late : d \in overlapped
    BY <1>10, <2>0 DEF WriteLeaving, StrandInv
  <2>3. ASSUME NEW x \in Orders \ late', order'[x].status \in ACTIVE
        PROVE  order'[x].driver \in Drivers
               /\ (user'[order'[x].driver].duty # "other" \/ order'[x].driver \in overlapped')
    <3>1. CASE order[x].driver = d
      BY <2>1, <2>2, <2>3, <3>1 DEF ActiveOf
    <3>2. CASE order[x].driver # d
      BY <2>1, <2>3, <3>2 DEF StrandInv, IsDriver
    <3>3. QED BY <3>1, <3>2
  <2>4. \A e \in Callers : call'[e].pc = "leave" =>
           \A x \in Orders \ late' : order'[x].driver = call'[e].driver
                                      /\ order'[x].status \in ACTIVE
              => call'[e].driver \in overlapped'
    BY <2>1 DEF StrandInv, ActiveOf
  <2>5. QED BY <2>3, <2>4 DEF StrandInv, ActiveOf, IsDriver
<1>11. ASSUME NEW c \in Callers, NEW d \in Drivers, ReadLeaving(c, d) PROVE StrandInv'
  <2> DEFINE k == [Idle EXCEPT !.pc = "leave", !.driver = d]
  <2>1. k.driver = d
    BY IdleIsCall DEF Call
  <2>2. call' = [call EXCEPT ![c] = k] /\ ActiveOf(d) = {}
        /\ UNCHANGED <<order, user, overlapped, late>>
    BY <1>11 DEF ReadLeaving
  <2> HIDE DEF k
  <2>3. \A e \in Callers : call'[e] = IF e = c THEN k ELSE call[e]
    BY <1>0, <2>2
  <2>4. QED BY <2>1, <2>2, <2>3, StrandKept DEF IsDriver
<1>12. ASSUME NEW d \in Drivers, SetActive(d) \/ BecomeDriver(d)
                  \/ \E zones \in ZoneSets : SetZones(d, zones)
       PROVE  StrandInv'
  <2>1. \A e \in Drivers : IsDriver(e) => IsDriver(e)'
    BY <1>0, <1>12 DEF SetActive, BecomeDriver, SetZones, IsDriver, UserRow
  <2>2. UNCHANGED <<order, call, overlapped, late>>
    BY <1>12 DEF SetActive, BecomeDriver, SetZones
  <2>3. QED BY <2>1, <2>2, StrandKept
<1>13. ASSUME NEW c \in Callers, NEW o \in Orders,
              ReadStart(c, o) \/ ReadComplete(c, o) \/ ReadCancel(c, o)
       PROVE  StrandInv'
  BY <1>2, <1>13, StepsKeep
<1>17. ASSUME NEW c \in Callers, WriteStart(c) \/ WriteComplete(c) \/ WriteCancel(c)
       PROVE  StrandInv'
  <2>1. UNCHANGED <<user, overlapped>> /\ call' = [call EXCEPT ![c] = Idle]
    BY <1>17 DEF WriteStart, WriteComplete, WriteCancel
  <2>2. \A e \in Callers : call'[e].pc = "leave" =>
           call[e].pc = "leave" /\ call'[e].driver = call[e].driver
    BY <1>0, <2>1, IdleIsCall DEF Idle
  <2>3. PICK o \in Orders :
             /\ \A x \in Orders : x # o => order'[x] = order[x]
             /\ ~WriteCancel(c) => order'[o].driver = order[o].driver
             /\ ~WriteStart(c) => order'[o].status \notin ACTIVE
             /\ \/ late' = late \cup (IF WriteStart(c) /\ order[o].status \notin ACTIVE
                                      THEN {o} ELSE {})
                \/ ~WriteStart(c) /\ late' = late \ {o}
    BY <1>17, StepsWrite
  <2>4. WriteStart(c) => ~WriteCancel(c)
    BY DEF WriteStart, WriteCancel
  <2>5. ASSUME NEW x \in Orders \ late', order'[x].status \in ACTIVE
        PROVE  /\ x \notin late
               /\ order[x].status \in ACTIVE /\ order'[x].driver = order[x].driver
    <3>1. CASE x # o
      BY <2>3, <2>5, <3>1
    <3>2. CASE x = o
      <4>1. WriteStart(c)
        BY <2>3, <2>5, <3>2
      <4>2. QED BY <2>3, <2>4, <2>5, <3>2, <4>1
    <3>3. QED BY <3>1, <3>2
  <2>6. QED BY <2>1, <2>2, <2>5, StrandKept DEF IsDriver
<1>14. CASE Next
  BY <1>14, <1>3, <1>4, <1>5, <1>6, <1>7, <1>8, <1>9, <1>10, <1>11, <1>12, <1>13, <1>17
     DEF Next
<1>15. CASE UNCHANGED vars
  BY <1>15, StrandKept DEF vars, IsDriver
<1>16. QED BY <1>14, <1>15

\* NoStrandedDelivery: whoever has deliveries to make has the role of a
\* driver, unless the assignment and the change of role overlapped or a start
\* was written after the delivery had ended.
THEOREM NobodyEverStranded == Spec => []NoStrandedDelivery
<1>1. Init => StrandInv
  BY InitStrand
<1>2. DispatchInv /\ StrandInv /\ [Next]_vars => StrandInv'
  BY NextStrand
<1>3. StrandInv => NoStrandedDelivery
  BY DEF StrandInv, NoStrandedDelivery
<1>4. QED BY <1>1, <1>2, <1>3, TypesAlways, PTL DEF Spec

-----------------------------------------------------------------------------
(* Routes keep their order.                                                *)

PlannedInv ==
    \A d \in Drivers : \A p \in plan[d] :
        /\ order[p[1]].driver = d /\ order[p[2]].driver = d
        /\ {p[1], p[2]} \cap overtaken = {} => order[p[1]].route < order[p[2]].route

LEMMA InitPlanned == ASSUME Init PROVE PlannedInv
BY DEF Init, PlannedInv

\* A step that takes orders out of plans and writes no route.
LEMMA PlannedKept ==
    ASSUME DispatchInv, PlannedInv, UNCHANGED overtaken,
           \A d \in Drivers : plan'[d] \subseteq plan[d],
           \A d \in Drivers : \A p \in plan'[d] :
              /\ order'[p[1]].driver = order[p[1]].driver
              /\ order'[p[1]].route = order[p[1]].route
              /\ order'[p[2]].driver = order[p[2]].driver
              /\ order'[p[2]].route = order[p[2]].route
    PROVE  PlannedInv'
<1>1. ASSUME NEW d \in Drivers, NEW p \in plan'[d]
      PROVE  /\ order'[p[1]].driver = d /\ order'[p[2]].driver = d
             /\ {p[1], p[2]} \cap overtaken' = {} =>
                   order'[p[1]].route < order'[p[2]].route
  <2>1. p \in plan[d]
    BY <1>1
  <2>2. /\ order[p[1]].driver = d /\ order[p[2]].driver = d
        /\ {p[1], p[2]} \cap overtaken = {} =>
              order[p[1]].route < order[p[2]].route
    BY <2>1 DEF PlannedInv
  <2>3. QED BY <1>1, <2>2
<1>2. QED BY <1>1 DEF PlannedInv

LEMMA PairsOfOrders ==
    ASSUME DispatchInv, NEW d \in Drivers, NEW p \in plan[d]
    PROVE  p[1] \in Orders /\ p[2] \in Orders
<1>1. p \in Orders \X Orders
  BY Types
<1>2. QED BY <1>1

LEMMA RoutePlans ==
    ASSUME DispatchInv, PlannedInv, NEW c \in Callers, WriteRoute(c)
    PROVE  PlannedInv'
<1>0. PICK list, d : list = call[c].todo /\ d = call[c].driver
  OBVIOUS
<1> DEFINE gone == {o \in ToSet(list) : order[o].driver # d}
<1>1. /\ list \in Seq(Orders) /\ d \in Drivers /\ ToSet(list) \subseteq Orders
      /\ IsInjective(list) /\ ToSet(list) \subseteq call[c].seen
  BY <1>0, Types DEF WriteRoute, Call, DispatchInv, CallInv, ToSet
<1>2. /\ plan' = [plan EXCEPT ![d] = Before(list, gone)]
      /\ overtaken' = (overtaken \ ToSet(list)) \cup (gone \cap call[c].seen)
  BY <1>0 DEF WriteRoute
<1>3. \A o \in Orders : order'[o] =
         IF o \in ToSet(list)
         THEN [order[o] EXCEPT !.route = CHOOSE i \in DOMAIN list : list[i] = o]
         ELSE order[o]
  BY <1>0 DEF WriteRoute
<1>4. \A o \in Orders : order'[o].driver = order[o].driver
  BY RouteKeeps
<1>5. ASSUME NEW i \in DOMAIN list
      PROVE  order'[list[i]].route = i
  <2>1. list[i] \in ToSet(list) /\ list[i] \in Orders
    BY <1>1 DEF ToSet
  <2>2. (CHOOSE j \in DOMAIN list : list[j] = list[i]) = i
    BY <1>1 DEF IsInjective
  <2>3. order[list[i]] \in OrderRow
    BY <2>1, Types
  <2>4. order'[list[i]] = [order[list[i]] EXCEPT !.route = i]
    BY <1>3, <2>1, <2>2
  <2>5. QED BY ONLY <2>3, <2>4 DEF OrderRow
<1>6. gone \subseteq overtaken'
  BY <1>1, <1>2
<1>7. ASSUME NEW p \in Before(list, gone)
      PROVE  /\ order'[p[1]].driver = d /\ order'[p[2]].driver = d
             /\ order'[p[1]].route < order'[p[2]].route
  <2>1. PICK i \in DOMAIN list, j \in DOMAIN list : i < j /\ p = <<list[i], list[j]>>
    BY DEF Before
  <2>2. p[1] \in Orders \ gone /\ p[2] \in Orders \ gone
    BY DEF Before
  <2>3. p[1] = list[i] /\ p[2] = list[j]
    BY <2>1
  <2>4. p[1] \in ToSet(list) /\ p[2] \in ToSet(list)
    BY <2>3 DEF ToSet
  <2>5. order[p[1]].driver = d /\ order[p[2]].driver = d
    BY <2>2, <2>4
  <2>6. order'[p[1]].route = i /\ order'[p[2]].route = j
    BY <1>5, <2>3
  <2>7. QED BY <1>4, <2>1, <2>2, <2>5, <2>6
<1>8. ASSUME NEW e \in Drivers, e # d, NEW p \in plan[e]
      PROVE  /\ order'[p[1]].driver = e /\ order'[p[2]].driver = e
             /\ {p[1], p[2]} \cap overtaken' = {} =>
                   order'[p[1]].route < order'[p[2]].route
  <2>1. p[1] \in Orders /\ p[2] \in Orders
    BY PairsOfOrders
  <2>2. order[p[1]].driver = e /\ order[p[2]].driver = e
    BY DEF PlannedInv
  <2>3. \A o \in {p[1], p[2]} : o \in ToSet(list) => o \in overtaken'
    BY <1>6, <1>8, <2>2
  <2>4. ASSUME {p[1], p[2]} \cap overtaken' = {}
        PROVE  order'[p[1]].route < order'[p[2]].route
    <3>1. p[1] \notin ToSet(list) /\ p[2] \notin ToSet(list)
      BY <2>3, <2>4
    <3>2. order'[p[1]] = order[p[1]] /\ order'[p[2]] = order[p[2]]
      BY <1>3, <2>1, <3>1
    <3>3. {p[1], p[2]} \cap overtaken = {}
      BY <1>2, <2>4, <3>1
    <3>4. QED BY <3>2, <3>3 DEF PlannedInv
  <2>5. QED BY <1>4, <2>1, <2>2, <2>4
<1> HIDE DEF gone
<1>9. ASSUME NEW e \in Drivers
      PROVE  \A p \in plan'[e] :
                /\ order'[p[1]].driver = e /\ order'[p[2]].driver = e
                /\ {p[1], p[2]} \cap overtaken' = {} =>
                      order'[p[1]].route < order'[p[2]].route
  <2>1. plan'[e] = IF e = d THEN Before(list, gone) ELSE plan[e]
    BY <1>2, Types
  <2>2. QED BY <1>7, <1>8, <2>1
<1>10. QED BY <1>9 DEF PlannedInv

LEMMA NextPlanned == ASSUME DispatchInv, PlannedInv, [Next]_vars PROVE PlannedInv'
<1>0. /\ order \in [Orders -> OrderRow]
      /\ plan \in [Drivers -> SUBSET (Orders \X Orders)]
  BY Types
<1>1. ASSUME UNCHANGED <<order, plan, overtaken>> PROVE PlannedInv'
  BY <1>1, PlannedKept
<1>2. ASSUME NEW c \in Callers, WriteAssign(c) PROVE PlannedInv'
  <2>0. PICK o \in Orders, d \in Drivers : o = Head(call[c].todo) /\ d = call[c].driver
    BY <1>2, HeadOfList, Types DEF WriteAssign, Call, DispatchInv, CallInv
  <2>1. order' = [order EXCEPT ![o].driver = d, ![o].status = "ASSIGNED"]
    BY <1>2, <2>0 DEF WriteAssign
  <2>2. /\ \A x \in Orders : x # o => order'[x] = order[x]
        /\ \A x \in Orders : order'[x].route = order[x].route
        /\ order'[o].driver = d
    BY <2>1, AssignedTypes
  <2>3. UNCHANGED overtaken /\ plan' = IF order[o].driver = d THEN plan ELSE Without(o)
    BY <1>2, <2>0 DEF WriteAssign
  <2>4. \A e \in Drivers : plan'[e] \subseteq plan[e]
    BY <2>3 DEF Without
  <2>5. ASSUME NEW e \in Drivers, NEW p \in plan'[e]
        PROVE  /\ order'[p[1]].driver = order[p[1]].driver
               /\ order'[p[2]].driver = order[p[2]].driver
               /\ p[1] \in Orders /\ p[2] \in Orders
    <3>1. p[1] \in Orders /\ p[2] \in Orders
      BY <2>4, PairsOfOrders
    <3>2. CASE order[o].driver = d
      BY <2>2, <3>1, <3>2
    <3>3. CASE order[o].driver # d
      <4>1. o \notin {p[1], p[2]}
        BY <2>3, <2>5, <3>3 DEF Without
      <4>2. QED BY <2>2, <3>1, <4>1
    <3>4. QED BY <3>2, <3>3, <3>1
  <2>6. QED BY <2>2, <2>3, <2>4, <2>5, PlannedKept
<1>3. ASSUME NEW c \in Callers, WriteStart(c) \/ WriteComplete(c) \/ WriteCancel(c)
      PROVE  PlannedInv'
  <2>1. PICK o \in Orders :
             /\ \A x \in Orders : x # o => order'[x] = order[x]
             /\ ~WriteCancel(c) => /\ order'[o].driver = order[o].driver
                                   /\ order'[o].route = order[o].route
             /\ plan' = IF WriteCancel(c) THEN Without(o) ELSE plan
    BY <1>3, StepsWrite
  <2>2. UNCHANGED overtaken
    BY <1>3 DEF WriteStart, WriteComplete, WriteCancel
  <2>3. \A e \in Drivers : plan'[e] \subseteq plan[e]
    BY <2>1 DEF Without
  <2>4. ASSUME NEW e \in Drivers, NEW p \in plan'[e], NEW i \in {1, 2}
        PROVE  /\ order'[p[i]].driver = order[p[i]].driver
               /\ order'[p[i]].route = order[p[i]].route
    <3>1. p[i] \in Orders
      BY <2>3, PairsOfOrders
    <3>2. CASE WriteCancel(c)
      <4>1. p[i] # o
        BY <2>1, <2>4, <3>2 DEF Without
      <4>2. QED BY <2>1, <3>1, <4>1
    <3>3. CASE ~WriteCancel(c)
      BY <2>1, <3>1, <3>3
    <3>4. QED BY <3>2, <3>3
  <2>5. QED BY <2>2, <2>3, <2>4, PlannedKept
<1>4. ASSUME NEW c \in Callers, NEW o \in Orders,
             ReadStart(c, o) \/ ReadComplete(c, o) \/ ReadCancel(c, o)
      PROVE  PlannedInv'
  BY <1>1, <1>4, StepsKeep
<1>5. CASE Next
  BY <1>5, <1>1, <1>2, <1>3, <1>4, RoutePlans
     DEF Next, AssignBulk, ReadRoute, AutoReadOrders, AutoReadDrivers, AutoReadLoads,
         CheckNext, LoopEnds, WriteLeaving, ReadLeaving, SetActive, BecomeDriver, SetZones
<1>6. CASE UNCHANGED vars
  BY <1>6, <1>1 DEF vars
<1>7. QED BY <1>5, <1>6

\* PlannedOrderKept: the orders of a driver's last route that are still his
\* keep its order, except one that the late route of a former driver wrote.
THEOREM PlannedOrderAlwaysKept == Spec => []PlannedOrderKept
<1>1. Init => PlannedInv
  BY InitPlanned
<1>2. DispatchInv /\ PlannedInv /\ [Next]_vars => PlannedInv'
  BY NextPlanned
<1>3. PlannedInv => PlannedOrderKept
  BY DEF PlannedInv, PlannedOrderKept
<1>4. QED BY <1>1, <1>2, <1>3, TypesAlways, PTL DEF Spec

-----------------------------------------------------------------------------
(* The automatic assignment is balanced.                                   *)

\* What a caller has read and assigned is its own, so its balance is changed
\* by its own steps only.
CountOf(g, d) == Cardinality({o \in Orders : <<o, d>> \in g})
BalancedFor(k) ==
    \A d, e \in Drivers :
        k.auto /\ CountOf(k.given, d) > 0 /\ k.zones[d] = k.zones[e] =>
            k.base[d] + CountOf(k.given, d) <= k.base[e] + CountOf(k.given, e) + 1

BalanceInv ==
    \A c \in Callers :
        /\ BalancedFor(call[c])
        /\ call[c].pc \in {"drivers", "loads"} => call[c].given = {}
        /\ call[c].pc = "write" /\ call[c].auto =>
              call[c].driver \in LeastLoaded(c, Candidates(c, Head(call[c].todo)))

LEMMA GivenCounts ==
    ASSUME NEW g, NEW d
    PROVE  CountOf(g, d) \in Nat
<1>1. IsFiniteSet({o \in Orders : <<o, d>> \in g})
  BY FS_Subset
<1>2. QED BY <1>1, FS_CardinalityType DEF CountOf

\* One pair more, one order more at most, and for its driver only.
LEMMA GivenGrows ==
    ASSUME NEW g, NEW o \in Orders, NEW d, NEW e
    PROVE  /\ \/ CountOf(g \cup {<<o, d>>}, d) = CountOf(g, d)
              \/ CountOf(g \cup {<<o, d>>}, d) = CountOf(g, d) + 1
           /\ e # d => CountOf(g \cup {<<o, d>>}, e) = CountOf(g, e)
<1> DEFINE S == {y \in Orders : <<y, d>> \in g}
<1>1. {y \in Orders : <<y, d>> \in g \cup {<<o, d>>}} = S \cup {o}
  OBVIOUS
<1>2. IsFiniteSet(S)
  BY FS_Subset
<1>3. Cardinality(S \cup {o}) = Cardinality(S)
      \/ Cardinality(S \cup {o}) = Cardinality(S) + 1
  BY <1>2, FS_AddElement
<1>4. e # d => {y \in Orders : <<y, e>> \in g \cup {<<o, d>>}}
                = {y \in Orders : <<y, e>> \in g}
  OBVIOUS
<1>5. QED BY <1>1, <1>3, <1>4 DEF CountOf

LEMMA NothingGiven ==
    ASSUME NEW k, k.given = {} \/ k.auto = FALSE
    PROVE  BalancedFor(k)
<1>1. ASSUME k.given = {}, NEW d \in Drivers
      PROVE  CountOf(k.given, d) = 0
  <2>1. {o \in Orders : <<o, d>> \in k.given} = {}
    BY <1>1
  <2>2. QED BY <2>1, FS_EmptySet DEF CountOf
<1>2. QED BY <1>1 DEF BalancedFor

LEMMA InitBalance == ASSUME Init PROVE BalanceInv
<1>1. ASSUME NEW c \in Callers PROVE call[c].pc = "idle" /\ call[c].given = {}
  BY DEF Init, Idle
<1>2. QED BY <1>1, NothingGiven DEF BalanceInv

\* A caller whose reading and assignments stay, and who is not picking.
LEMMA BalanceKept ==
    ASSUME DispatchInv, BalanceInv, NEW c \in Callers,
           \A e \in Callers : e # c => call'[e] = call[e],
           BalancedFor(call'[c]),
           call'[c].pc \in {"drivers", "loads"} => call'[c].given = {},
           call'[c].pc # "write" \/ ~call'[c].auto
    PROVE  BalanceInv'
<1>1. ASSUME NEW e \in Callers, e # c
      PROVE  /\ BalancedFor(call'[e])
             /\ call'[e].pc \in {"drivers", "loads"} => call'[e].given = {}
             /\ call'[e].pc = "write" /\ call'[e].auto =>
                  call'[e].driver \in
                     LeastLoaded(e, Candidates(e, Head(call[e].todo)))'
  <2>1. call'[e] = call[e]
    BY <1>1
  <2>2. LeastLoaded(e, Candidates(e, Head(call[e].todo)))'
          = LeastLoaded(e, Candidates(e, Head(call[e].todo)))
    BY <2>1 DEF LeastLoaded, Candidates, Load, GivenTo
  <2>3. QED BY <2>1, <2>2 DEF BalanceInv
<1>2. QED BY <1>1 DEF BalanceInv

LEMMA AssignBalances ==
    ASSUME DispatchInv, BalanceInv, NEW c \in Callers, WriteAssign(c)
    PROVE  BalanceInv'
<1>0. PICK o \in Orders, d \in Drivers : o = Head(call[c].todo) /\ d = call[c].driver
  BY HeadOfList, Types DEF WriteAssign, Call, DispatchInv, CallInv
<1>1. call[c] \in Call /\ call \in [Callers -> Call]
  BY Types
<1>2. /\ \A e \in Callers : e # c => call'[e] = call[e]
      /\ call'[c].pc = "loop" /\ call'[c].auto = call[c].auto
      /\ call'[c].zones = call[c].zones /\ call'[c].base = call[c].base
      /\ call'[c].given = IF call[c].auto THEN call[c].given \cup {<<o, d>>}
                          ELSE call[c].given
  BY <1>0, <1>1 DEF WriteAssign, Call
<1>3. CASE ~call[c].auto
  <2>1. call'[c].auto = FALSE
    BY <1>1, <1>2, <1>3 DEF Call
  <2>2. QED BY <1>2, <2>1, NothingGiven, BalanceKept
<1>4. CASE call[c].auto
  <2> DEFINE before(x) == CountOf(call[c].given, x)
             after(x) == CountOf(call[c].given \cup {<<o, d>>}, x)
  <2>1. \A x \in Drivers : before(x) \in Nat /\ after(x) \in Nat /\ call[c].base[x] \in Nat
    BY <1>1, GivenCounts DEF Call
  <2>2. /\ after(d) = before(d) \/ after(d) = before(d) + 1
        /\ \A e \in Drivers : e # d => after(e) = before(e)
    BY GivenGrows
  <2>3. d \in LeastLoaded(c, Candidates(c, o))
    BY <1>0, <1>4 DEF WriteAssign, BalanceInv
  <2>4. \A e \in Drivers : call[c].zones[e] = call[c].zones[d] =>
           call[c].base[d] + before(d) <= call[c].base[e] + before(e)
    BY <2>3 DEF LeastLoaded, Candidates, Load, GivenTo, CountOf
  <2>5. \A x, e \in Drivers : before(x) > 0 /\ call[c].zones[x] = call[c].zones[e] =>
           call[c].base[x] + before(x) <= call[c].base[e] + before(e) + 1
    BY <1>4 DEF BalanceInv, BalancedFor
  <2> HIDE DEF before, after
  <2>6. \A x, e \in Drivers : after(x) > 0 /\ call[c].zones[x] = call[c].zones[e] =>
           call[c].base[x] + after(x) <= call[c].base[e] + after(e) + 1
    <3> SUFFICES ASSUME NEW x \in Drivers, NEW e \in Drivers, after(x) > 0,
                        call[c].zones[x] = call[c].zones[e]
                 PROVE  call[c].base[x] + after(x) <= call[c].base[e] + after(e) + 1
      OBVIOUS
    <3>0. /\ before(x) \in Nat /\ after(x) \in Nat /\ call[c].base[x] \in Nat
          /\ before(e) \in Nat /\ after(e) \in Nat /\ call[c].base[e] \in Nat
      BY <2>1
    <3>1. CASE x = d /\ e = d
      BY <3>0, <3>1
    <3>2. CASE x = d /\ e # d
      <4>1. call[c].base[d] + before(d) <= call[c].base[e] + before(e)
        BY <2>4, <3>2
      <4>2. QED BY <2>2, <3>0, <3>2, <4>1
    <3>3. CASE x # d /\ e = d
      <4>1. call[c].base[x] + before(x) <= call[c].base[d] + before(d) + 1
        BY <2>2, <2>5, <3>3
      <4>2. QED BY <2>2, <3>0, <3>3, <4>1
    <3>4. CASE x # d /\ e # d
      BY <2>2, <2>5, <3>4
    <3>5. QED BY <3>1, <3>2, <3>3, <3>4
  <2>7. BalancedFor(call'[c])
    BY <1>2, <1>4, <2>6 DEF BalancedFor, after
  <2>8. QED BY <1>2, <2>7, BalanceKept
<1>5. QED BY <1>3, <1>4

LEMMA NextBalance == ASSUME DispatchInv, BalanceInv, [Next]_vars PROVE BalanceInv'
<1>0. call \in [Callers -> Call]
  BY Types
<1>1. ASSUME NEW c \in Callers, NEW k, call' = [call EXCEPT ![c] = k],
             k.given = {} \/ k.auto = FALSE,
             k.pc \in {"drivers", "loads"} => k.given = {}, k.pc # "write"
      PROVE  BalanceInv'
  <2>1. call'[c] = k /\ \A e \in Callers : e # c => call'[e] = call[e]
    BY <1>0, <1>1
  <2>2. QED BY <1>1, <2>1, NothingGiven, BalanceKept
<1>2. Idle.given = {} /\ Idle.pc = "idle" /\ Idle.auto = FALSE
  BY DEF Idle
<1>3. ASSUME NEW c \in Callers, NEW list \in Lists, NEW d \in Drivers,
             AssignBulk(c, list, d)
      PROVE  BalanceInv'
  <2> DEFINE k == [Idle EXCEPT !.pc = "loop", !.todo = list, !.driver = d]
  <2>1. k.given = {} /\ k.pc = "loop"
    BY IdleIsCall, <1>2 DEF Call
  <2>2. call' = [call EXCEPT ![c] = k]
    BY <1>3 DEF AssignBulk
  <2> HIDE DEF k
  <2>3. QED BY <1>1, <2>1, <2>2
<1>4. ASSUME NEW c \in Callers, NEW list \in Lists, NEW d \in Drivers,
             ReadRoute(c, d, list)
      PROVE  BalanceInv'
  <2> DEFINE k == [Idle EXCEPT !.pc = "route", !.todo = list, !.driver = d,
                               !.seen = ToSet(list) \cap ActiveOf(d)]
  <2>1. k.given = {} /\ k.pc = "route"
    BY IdleIsCall, <1>2 DEF Call
  <2>2. call' = [call EXCEPT ![c] = k]
    BY <1>4 DEF ReadRoute
  <2> HIDE DEF k
  <2>3. QED BY <1>1, <2>1, <2>2
<1>5. ASSUME NEW c \in Callers, NEW list \in Lists, AutoReadOrders(c, list)
      PROVE  BalanceInv'
  <2> DEFINE k == [Idle EXCEPT !.pc = "drivers", !.auto = TRUE, !.todo = list,
                      !.seen = {o \in ToSet(list) : order[o].driver # None}]
  <2>1. k.given = {} /\ k.pc = "drivers"
    BY IdleIsCall, <1>2 DEF Call
  <2>2. call' = [call EXCEPT ![c] = k]
    BY <1>5 DEF AutoReadOrders
  <2> HIDE DEF k
  <2>3. QED BY <1>1, <2>1, <2>2
<1>6. ASSUME NEW c \in Callers, NEW d \in Drivers, ReadLeaving(c, d) PROVE BalanceInv'
  <2> DEFINE k == [Idle EXCEPT !.pc = "leave", !.driver = d]
  <2>1. k.given = {} /\ k.pc = "leave"
    BY IdleIsCall, <1>2 DEF Call
  <2>2. call' = [call EXCEPT ![c] = k]
    BY <1>6 DEF ReadLeaving
  <2> HIDE DEF k
  <2>3. QED BY <1>1, <2>1, <2>2
<1>7. ASSUME NEW c \in Callers,
             \/ LoopEnds(c) \/ WriteRoute(c) \/ WriteLeaving(c)
             \/ WriteStart(c) \/ WriteComplete(c) \/ WriteCancel(c)
      PROVE  BalanceInv'
  <2>1. call' = [call EXCEPT ![c] = Idle]
    BY <1>7 DEF LoopEnds, WriteRoute, WriteLeaving, WriteStart, WriteComplete, WriteCancel
  <2>2. QED BY <1>1, <1>2, <2>1
<1>8. ASSUME NEW c \in Callers, AutoReadDrivers(c) \/ AutoReadLoads(c) PROVE BalanceInv'
  <2>1. /\ \A e \in Callers : e # c => call'[e] = call[e]
        /\ call'[c].given = call[c].given /\ call'[c].pc # "write"
    BY <1>0, <1>8 DEF AutoReadDrivers, AutoReadLoads, Call
  <2>2. call[c].given = {}
    BY <1>8 DEF AutoReadDrivers, AutoReadLoads, BalanceInv
  <2>3. QED BY <2>1, <2>2, NothingGiven, BalanceKept
<1>9. ASSUME NEW c \in Callers, CheckNext(c) PROVE BalanceInv'
  <2>1. /\ \A e \in Callers : e # c => call'[e] = call[e]
        /\ call'[c].given = call[c].given /\ call'[c].auto = call[c].auto
        /\ call'[c].zones = call[c].zones /\ call'[c].base = call[c].base
        /\ call[c].pc = "loop" /\ call'[c].pc \in {"loop", "write"}
        /\ call'[c].pc = "write" =>
              /\ call'[c].todo = call[c].todo
              /\ call'[c].driver \in Picks(c, Head(call[c].todo))
    BY <1>0, <1>9 DEF CheckNext, Call
  <2>2. BalancedFor(call'[c])
    BY <2>1 DEF BalanceInv, BalancedFor
  <2>3. CASE call'[c].pc # "write" \/ ~call'[c].auto
    BY <2>1, <2>2, <2>3, BalanceKept
  <2>4. CASE call'[c].pc = "write" /\ call'[c].auto
    <3>1. call'[c].driver \in LeastLoaded(c, Candidates(c, Head(call[c].todo)))
      BY <2>1, <2>4 DEF Picks
    <3>2. ASSUME NEW e \in Callers
          PROVE  LeastLoaded(e, Candidates(e, Head(call[e].todo)))' =
                   LeastLoaded(e, Candidates(e, Head(call[e].todo)))
      <4>1. /\ call'[e].todo = call[e].todo /\ call'[e].given = call[e].given
            /\ call'[e].zones = call[e].zones /\ call'[e].base = call[e].base
        BY <2>1, <2>4
      <4>2. QED BY <4>1 DEF LeastLoaded, Candidates, Load, GivenTo
    <3>3. QED BY <2>1, <2>2, <3>1, <3>2 DEF BalanceInv
  <2>5. QED BY <2>3, <2>4
<1>10. ASSUME UNCHANGED call PROVE BalanceInv'
  <2>1. ASSUME NEW e \in Callers
        PROVE  LeastLoaded(e, Candidates(e, Head(call[e].todo)))'
                 = LeastLoaded(e, Candidates(e, Head(call[e].todo)))
    BY <1>10 DEF LeastLoaded, Candidates, Load, GivenTo
  <2>2. QED BY <1>10, <2>1 DEF BalanceInv
<1>14. ASSUME NEW c \in Callers, NEW o \in Orders,
              ReadStart(c, o) \/ ReadComplete(c, o) \/ ReadCancel(c, o)
       PROVE  BalanceInv'
  <2>1. /\ \A e \in Callers : e # c => call'[e] = call[e]
        /\ call'[c].given = {} /\ call'[c].auto = FALSE
        /\ call'[c].pc # "write"
    BY <1>14, StepsKeep
  <2>2. QED BY <2>1, NothingGiven, BalanceKept
<1>11. CASE Next
  BY <1>11, <1>14, <1>3, <1>4, <1>5, <1>6, <1>7, <1>8, <1>9, <1>10, AssignBalances
     DEF Next, SetActive, BecomeDriver, SetZones
<1>12. CASE UNCHANGED vars
  BY <1>12, <1>10 DEF vars
<1>13. QED BY <1>11, <1>12

\* Balanced: whom one automatic assignment gave an order has at most one more
\* than any other driver with the same zones, counted from what it read.
THEOREM AlwaysBalanced == Spec => []Balanced
<1>1. Init => BalanceInv
  BY InitBalance
<1>2. DispatchInv /\ BalanceInv /\ [Next]_vars => BalanceInv'
  BY NextBalance
<1>3. BalanceInv => Balanced
  BY DEF BalanceInv, BalancedFor, Balanced, GivenTo, CountOf
<1>4. QED BY <1>1, <1>2, <1>3, TypesAlways, PTL DEF Spec
=============================================================================
