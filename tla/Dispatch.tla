------------------------------ MODULE Dispatch ------------------------------
(***************************************************************************)
(* Who delivers what, and in which order: the assignment of one order, of  *)
(* many and by district, the drivers' zones and their route, against the   *)
(* users page, where a driver may be given another role.  None of these    *)
(* locks a row between reading and writing.                                *)
(*                                                                         *)
(* Of an order only its delivery is here: what start, complete and cancel  *)
(* do beside it is in Delivery and OrderDesk.                              *)
(***************************************************************************)
EXTENDS Naturals, Sequences, FiniteSets, FiniteSetsExt, SequencesExt

CONSTANTS Orders,      \* numbers: in the order of their orderNo
          Drivers, Districts,
          DistrictOf,  \* of an order in Ulaanbaatar; None in the countryside
          ZoneSets,    \* bound: the zones a driver may be given
          Callers,
          Work,        \* bound: what a caller does
          MaxCalls,    \* bound: requests in all
          None

ASSUME DispatchAssumption ==
    /\ Orders \subseteq Nat /\ IsFiniteSet(Orders)
    /\ DistrictOf \in [Orders -> Districts \cup {None}]
    /\ ZoneSets \subseteq SUBSET Districts
    /\ None \notin Districts \cup Drivers
    /\ MaxCalls \in Nat

VARIABLES order, user, call,
          begun,      \* requests so far, for the bound
          plan,       \* history: of each driver, which order comes before
                      \* which in the last route he was given
          overtaken,  \* history: orders a route wrote for a former driver
          overlapped, \* history: drivers assigned while they left the role
          late        \* history: orders whose start was written after the
                      \* delivery had ended

vars == <<order, user, call, begun, plan, overtaken, overlapped, late>>

ACTIVE == {"ASSIGNED", "ON_THE_WAY"}
OrderRow == [assignable : BOOLEAN, driver : Drivers \cup {None},
             status : ACTIVE \cup {"PENDING", "DELIVERED", "FAILED"},
             route : Nat]
UserRow == [duty : {"driver", "inactive", "other"}, zones : SUBSET Districts,
            available : BOOLEAN]   \* no code writes it
Call == [pc : {"idle", "drivers", "loads", "loop", "write", "route", "leave",
               "start", "deliver", "fail", "cancel"},
         auto : BOOLEAN, todo : Seq(Orders), driver : Drivers \cup {None},
         seen : SUBSET Orders,   \* found with a driver, or with this driver
         zones : [Drivers -> SUBSET Districts], base : [Drivers -> Nat],
         given : SUBSET (Orders \X Drivers)]  \* what it has assigned so far
Idle == [pc |-> "idle", auto |-> FALSE, todo |-> <<>>, driver |-> None,
         seen |-> {}, zones |-> [d \in Drivers |-> {}],
         base |-> [d \in Drivers |-> 0], given |-> {}]

\* Mistake: a delivery on its way is forgotten.
OnlyAssigned(d) ==
    {o \in Orders : order[o].driver = d /\ order[o].status = "ASSIGNED"}
ActiveOf(d) == {o \in Orders : order[o].driver = d /\ order[o].status \in ACTIVE}
IsDriver(d) == user[d].duty # "other"   \* the role; inactive or not
Assignable(o, d) ==
    order[o].assignable /\ user[d].duty = "driver"

Counted == begun < MaxCalls /\ begun' = begun + 1
Takes(c, work) == call[c].pc = "idle" /\ work \in Work[c]
Begins(c, work) == Takes(c, work) /\ Counted

-----------------------------------------------------------------------------
\* assignDriver for each order of a list, one after the other; the list of
\* one is the assignment of a single order.
AssignBulk(c, list, d) ==
    /\ Begins(c, "bulk")
    /\ call' = [call EXCEPT ![c] = [Idle EXCEPT !.pc = "loop", !.todo = list,
                                                !.driver = d]]
    /\ UNCHANGED <<order, user, plan, overtaken, overlapped, late>>

\* autoAssignByZone: the orders, then the drivers, then their loads are read.
AutoReadOrders(c, list) ==
    /\ Begins(c, "auto")
    /\ \A i, j \in DOMAIN list : i < j => list[i] < list[j]
    /\ call' = [call EXCEPT ![c] = [Idle EXCEPT
          !.pc = "drivers", !.auto = TRUE, !.todo = list,
          !.seen = {o \in ToSet(list) : order[o].driver # None}]]
    /\ UNCHANGED <<order, user, plan, overtaken, overlapped, late>>

AutoReadDrivers(c) ==
    /\ call[c].pc = "drivers"
    /\ call' = [call EXCEPT ![c].pc = "loads", ![c].zones =
          [d \in Drivers |-> IF user[d].duty = "driver" /\ user[d].available
                             THEN user[d].zones ELSE {}]]
    /\ UNCHANGED <<begun, order, user, plan, overtaken, overlapped, late>>

AutoReadLoads(c) ==
    /\ call[c].pc = "loads"
    /\ call' = [call EXCEPT ![c].pc = "loop", ![c].base =
                              [d \in Drivers |-> Cardinality(ActiveOf(d))]]
    /\ UNCHANGED <<begun, order, user, plan, overtaken, overlapped, late>>

Candidates(c, o) ==
    {d \in Drivers : DistrictOf[o] \in call[c].zones[d]}
GivenTo(c, d) == Cardinality({o \in Orders : <<o, d>> \in call[c].given})
\* Mistake: a driver who was picked is not busier for it.
LoadAsRead(c, d) == call[c].base[d]
Load(c, d) == call[c].base[d] + GivenTo(c, d)
LeastLoaded(c, S) ==
    {d \in S : \A e \in S : Load(c, d) <= Load(c, e)}
\* Whom the order may get: nobody when the auto assignment leaves it alone.
Picks(c, o) ==
    IF ~call[c].auto THEN {call[c].driver}
    ELSE IF o \in call[c].seen THEN {}
    ELSE LeastLoaded(c, Candidates(c, o))

\* The next order is skipped, or its assignment passes assignDriver's checks.
CheckNext(c) ==
    LET o == Head(call[c].todo) IN
    /\ call[c].pc = "loop" /\ call[c].todo # <<>>
    /\ \/ /\ Picks(c, o) = {} \/ \E d \in Picks(c, o) : ~Assignable(o, d)
          /\ call' = [call EXCEPT ![c].todo = Tail(@)]
       \/ \E d \in Picks(c, o) :
             /\ Assignable(o, d)
             /\ call' = [call EXCEPT ![c].pc = "write", ![c].driver = d]
    /\ UNCHANGED <<begun, order, user, plan, overtaken, overlapped, late>>

Leaving(d) == \E c \in Callers : call[c].pc = "leave" /\ call[c].driver = d
Without(o) == [d \in Drivers |-> {p \in plan[d] : o \notin {p[1], p[2]}}]

WriteAssign(c) ==
    LET o == Head(call[c].todo)
        d == call[c].driver
    IN /\ call[c].pc = "write"
       /\ order' = [order EXCEPT ![o].driver = d, ![o].status = "ASSIGNED"]
       /\ call' = [call EXCEPT ![c].pc = "loop", ![c].todo = Tail(@),
                       ![c].given = IF call[c].auto THEN @ \cup {<<o, d>>} ELSE @]
       /\ plan' = IF order[o].driver = d THEN plan ELSE Without(o)
       /\ overlapped' = overlapped \cup
             (IF Leaving(d) \/ ~IsDriver(d) THEN {d} ELSE {})
       /\ late' = late \ {o}
       /\ UNCHANGED <<begun, user, overtaken>>

LoopEnds(c) ==
    /\ call[c].pc = "loop" /\ call[c].todo = <<>>
    /\ call' = [call EXCEPT ![c] = Idle]
    /\ UNCHANGED <<begun, order, user, plan, overtaken, overlapped, late>>

-----------------------------------------------------------------------------
\* Mistake: the orders of a route may be anybody's.
MayRouteAny(d, list) == TRUE
MayRoute(d, list) == ToSet(list) \subseteq ActiveOf(d)

ReadRoute(c, d, list) ==
    /\ Begins(c, "route") /\ IsInjective(list) /\ MayRoute(d, list)
    /\ call' = [call EXCEPT ![c] = [Idle EXCEPT !.pc = "route", !.todo = list,
                             !.driver = d, !.seen = ToSet(list) \cap ActiveOf(d)]]
    /\ UNCHANGED <<order, user, plan, overtaken, overlapped, late>>

\* The pairs of a route, without the orders that have another driver by now.
Before(list, gone) ==
    {p \in (Orders \ gone) \X (Orders \ gone) :
        \E i, j \in DOMAIN list : i < j /\ p = <<list[i], list[j]>>}

WriteRoute(c) ==
    LET list == call[c].todo
        d == call[c].driver
        gone == {o \in ToSet(list) : order[o].driver # d}
    IN /\ call[c].pc = "route"
       /\ order' = [o \in Orders |->
             IF o \in ToSet(list)
             THEN [order[o] EXCEPT !.route = CHOOSE i \in DOMAIN list : list[i] = o]
             ELSE order[o]]
       /\ plan' = [plan EXCEPT ![d] = Before(list, gone)]
       /\ overtaken' = (overtaken \ ToSet(list)) \cup (gone \cap call[c].seen)
       /\ call' = [call EXCEPT ![c] = Idle]
       /\ UNCHANGED <<begun, user, overlapped, late>>

-----------------------------------------------------------------------------
SetZones(d, zones) ==
    /\ Counted
    /\ IsDriver(d)
    /\ user' = [user EXCEPT ![d].zones = zones]
    /\ UNCHANGED <<order, call, plan, overtaken, overlapped, late>>

\* users.service update with another role: deliveries are counted first.
ReadLeaving(c, d) ==
    /\ Begins(c, "leave") /\ IsDriver(d) /\ ActiveOf(d) = {}
    /\ call' = [call EXCEPT ![c] = [Idle EXCEPT !.pc = "leave", !.driver = d]]
    /\ UNCHANGED <<order, user, plan, overtaken, overlapped, late>>

BeingAssigned(d) == \E c \in Callers : call[c].pc = "write" /\ call[c].driver = d
WriteLeaving(c) ==
    LET d == call[c].driver IN
    /\ call[c].pc = "leave"
    /\ user' = [user EXCEPT ![d].duty = "other"]
    /\ call' = [call EXCEPT ![c] = Idle]
    /\ overlapped' = overlapped \cup (IF BeingAssigned(d) THEN {d} ELSE {})
    /\ UNCHANGED <<begun, order, plan, overtaken, late>>

\* update without a change of role asks nothing about the deliveries.
SetActive(d) ==
    /\ Counted
    /\ user' = [user EXCEPT ![d].duty = IF @ = "driver" THEN "inactive" ELSE "driver"]
    /\ IsDriver(d)
    /\ UNCHANGED <<order, call, plan, overtaken, overlapped, late>>

BecomeDriver(d) ==
    /\ Counted
    /\ ~IsDriver(d)
    /\ user' = [user EXCEPT ![d].duty = "driver"]
    /\ UNCHANGED <<order, call, plan, overtaken, overlapped, late>>

-----------------------------------------------------------------------------
\* start, complete and cancel each check an order they read and write it
\* later, whatever has become of it.
Step(c, pc, o) ==
    /\ call' = [call EXCEPT ![c] = [Idle EXCEPT !.pc = pc, !.todo = <<o>>]]
    /\ UNCHANGED <<begun, order, user, plan, overtaken, overlapped, late>>

ReadStart(c, o) ==
    /\ Takes(c, "start")
    /\ order[o].driver # None /\ order[o].status = "ASSIGNED"
    /\ Step(c, "start", o)

ReadComplete(c, o) ==
    /\ Takes(c, "complete")
    /\ order[o].driver # None /\ order[o].status # "DELIVERED"
    /\ Step(c, "deliver", o) \/ Step(c, "fail", o)

ReadCancel(c, o) ==
    /\ Takes(c, "cancel") /\ order[o].assignable
    /\ Step(c, "cancel", o)

WriteStart(c) ==
    LET o == Head(call[c].todo) IN
    /\ call[c].pc = "start"
    /\ order' = [order EXCEPT ![o].status = "ON_THE_WAY"]
    /\ late' = late \cup (IF order[o].status \in ACTIVE THEN {} ELSE {o})
    /\ call' = [call EXCEPT ![c] = Idle]
    /\ UNCHANGED <<begun, user, plan, overtaken, overlapped>>

WriteComplete(c) ==
    LET o == Head(call[c].todo) IN
    /\ \/ /\ call[c].pc = "deliver"
          /\ order' = [order EXCEPT ![o].status = "DELIVERED",
                                    ![o].assignable = FALSE]
       \/ /\ call[c].pc = "fail"
          /\ order' = [order EXCEPT ![o].status = "FAILED"]
    /\ late' = late \ {o}
    /\ call' = [call EXCEPT ![c] = Idle]
    /\ UNCHANGED <<begun, user, plan, overtaken, overlapped>>

WriteCancel(c) ==
    LET o == Head(call[c].todo) IN
    /\ call[c].pc = "cancel"
    /\ order' = [order EXCEPT ![o] = [assignable |-> FALSE, driver |-> None,
                                      status |-> "PENDING", route |-> 0]]
    /\ plan' = Without(o)
    /\ late' = late \ {o}
    /\ call' = [call EXCEPT ![c] = Idle]
    /\ UNCHANGED <<begun, user, overtaken, overlapped>>

Init ==
    /\ order = [o \in Orders |-> [assignable |-> TRUE, driver |-> None,
                                  status |-> "PENDING", route |-> 0]]
    /\ user \in [Drivers -> [duty : {"driver"}, zones : ZoneSets,
                              available : BOOLEAN]]
    /\ call = [c \in Callers |-> Idle]
    /\ plan = [d \in Drivers |-> {}]
    /\ overtaken = {} /\ overlapped = {} /\ late = {} /\ begun = 0

Lists == SetToAllKPermutations(Orders) \ {<<>>}
Next ==
    \/ \E c \in Callers :
          \/ \E list \in Lists, d \in Drivers :
                AssignBulk(c, list, d) \/ ReadRoute(c, d, list)
          \/ \E list \in Lists : AutoReadOrders(c, list)
          \/ AutoReadDrivers(c) \/ AutoReadLoads(c)
          \/ CheckNext(c) \/ WriteAssign(c) \/ LoopEnds(c)
          \/ WriteRoute(c) \/ WriteLeaving(c)
          \/ \E d \in Drivers : ReadLeaving(c, d)
    \/ \E d \in Drivers : SetActive(d) \/ BecomeDriver(d)
                          \/ \E zones \in ZoneSets : SetZones(d, zones)
    \/ \E c \in Callers :
          \/ \E o \in Orders :
                ReadStart(c, o) \/ ReadComplete(c, o) \/ ReadCancel(c, o)
          \/ WriteStart(c) \/ WriteComplete(c) \/ WriteCancel(c)

Spec == Init /\ [][Next]_vars

-----------------------------------------------------------------------------
TypeOK ==
    /\ order \in [Orders -> OrderRow] /\ user \in [Drivers -> UserRow]
    /\ call \in [Callers -> Call] /\ plan \in [Drivers -> SUBSET (Orders \X Orders)]
    /\ begun \in 0..MaxCalls
    /\ overtaken \subseteq Orders /\ overlapped \subseteq Drivers
    /\ late \subseteq Orders

\* One automatic assignment does not heap orders on a driver: who got one has
\* at most one more than another with the same zones, counting from the loads
\* it read (delivery.service.ts:448).
Balanced ==
    \A c \in Callers, d, e \in Drivers :
        /\ call[c].auto /\ GivenTo(c, d) > 0 /\ call[c].zones[d] = call[c].zones[e]
        => call[c].base[d] + GivenTo(c, d) <= call[c].base[e] + GivenTo(c, e) + 1

\* Nobody without the role of a driver is left with deliveries to make, unless
\* the assignment and the change of role overlapped, or a start was written
\* after the delivery had ended and so brought it back: neither locks a row
\* (users.service.ts:124, delivery.service.ts:641).
NoStrandedDelivery ==
    \A o \in Orders \ late :
        order[o].status \in ACTIVE =>
            IsDriver(order[o].driver) \/ order[o].driver \in overlapped

\* Orders of the last route of a driver that are still his keep its order,
\* whatever is assigned, cancelled or routed meanwhile, except an order that
\* the late route of a former driver wrote over.
PlannedOrderKept ==
    \A d \in Drivers : \A p \in plan[d] :
        {p[1], p[2]} \cap overtaken = {} => order[p[1]].route < order[p[2]].route
=============================================================================
