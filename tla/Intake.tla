------------------------------- MODULE Intake -------------------------------
(***************************************************************************)
(* How the service numbers what it takes in.  Orders, supplies and         *)
(* handover sheets each number their rows of a day 1, 2, 3, ... without a  *)
(* counter: a transaction reads the day's numbers, inserts its row with    *)
(* the next one and leaves it to the unique index to refuse a number that  *)
(* another request took meanwhile.  The transaction then updates rows of   *)
(* other tables one by one: the Product rows of its lines, or the Order    *)
(* rows of a sheet.  Each update keeps its row locked until the            *)
(* transaction ends.                                                       *)
(*                                                                         *)
(* Changes of what is already there, the edit of an order, its cancelling  *)
(* and returns, lock the Order row and the Product rows of their lines in  *)
(* the same way and take no number.                                        *)
(*                                                                         *)
(* The database is modelled by what the service relies on: an insert waits *)
(* for an open transaction that holds the same number; a request that      *)
(* waits in a circle is aborted; a transaction may fail at any point.      *)
(* What a line does to the stock is in Inventory, here it is a row lock.   *)
(***************************************************************************)
EXTENDS Naturals, Sequences, FiniteSets, FiniteSetsExt

CONSTANTS Requests,   \* requests of one day
          Records,    \* rows of products and of orders
          Plans,      \* what each request may ask for: [kind, lines]
          None        \* no holder

KINDS == {"order", "supply", "handover"}   \* those that take a number
MAX_ATTEMPTS == 3

ASSUME PlansAssumption ==
    \A r \in Requests : Plans[r] \subseteq [kind : KINDS \cup {"change"}, lines : Seq(Records)]
ASSUME NoneAssumption == None \notin Requests
ASSUME RequestsAssumption == IsFiniteSet(Requests)

VARIABLES rows,   \* the numbers committed so far, of each kind
          lock,   \* the transaction that has updated a record
          req     \* the requests

intakeVars == <<rows, lock, req>>

\* since is history: how many rows of its kind there were when it arrived.
Rows(k) == IF k \in KINDS THEN rows[k] ELSE {}
ReqState == [pc : {"idle", "start", "insert", "lines", "done",
                   "refused", "noNumber"},
             kind : KINDS \cup {"change"},
             left : Seq(Records), lines : Seq(Records),
             no : Nat, attempt : 1..MAX_ATTEMPTS, since : Nat]
NoLines == <<>>
Idle == [pc |-> "idle", kind |-> "order", left |-> NoLines, lines |-> NoLines,
         no |-> 0, attempt |-> 1, since |-> 0]

InTransaction(r) == req[r].pc \in {"start", "insert", "lines"}
\* Requests whose row is inserted, or changes under way, not yet committed.
Pending(k) == {r \in Requests : req[r].kind = k /\ req[r].pc = "lines"}

\* Mistake: compared as text, where 10000 sorts before 9999; 1 is the last
\* number of the padded width here.
LastTextNumber(numbers) ==
    IF 1 \in numbers THEN 1 ELSE Max(numbers \cup {0})
LastNumber(numbers) == Max(numbers \cup {0})

\* Mistake: a retry steps over the numbers it has collided with.
NextNumberSkipping(r) == LastNumber(Rows(req[r].kind)) + req[r].attempt
NextNumber(r) == LastNumber(Rows(req[r].kind)) + 1

\* The row's number is held by an open transaction: the insert waits.
Held(r) == \E q \in Pending(req[r].kind) \ {r} : req[q].no = req[r].no

\* Mistake: the column has no unique index.
NeverTaken(r) == FALSE
Taken(r) == req[r].no \in Rows(req[r].kind)

-----------------------------------------------------------------------------
\* Who waits for whom: an insert for the holder of its number, an update for
\* the transaction that has updated the record.
WaitsFor(r, q) ==
    /\ q # r
    /\ \/ req[r].pc = "insert" /\ Held(r) /\ q \in Pending(req[r].kind)
          /\ req[q].no = req[r].no
       \/ req[r].pc = "lines" /\ req[r].left # <<>>
          /\ lock[Head(req[r].left)] = q

\* A set of requests in which each waits and each is waited for: circles.
Circle(S) ==
    /\ S # {}
    /\ \A q \in S : \E a, b \in S : WaitsFor(a, q) /\ WaitsFor(q, b)

Released(r) == [p \in Records |-> IF lock[p] = r THEN None ELSE lock[p]]
Fails(r, why) ==
    /\ req' = [req EXCEPT ![r] =
                 IF why = "refused" THEN [Idle EXCEPT !.pc = why]
                 ELSE [@ EXCEPT !.pc = why, !.lines = NoLines, !.left = NoLines]]
    /\ lock' = Released(r)
    /\ UNCHANGED rows

-----------------------------------------------------------------------------
Init ==
    /\ rows = [k \in KINDS |-> {}]
    /\ lock = [p \in Records |-> None]
    /\ req = [r \in Requests |-> Idle]

\* The request comes in; the same product twice is refused before this.
Arrive(r) ==
    /\ req[r].pc = "idle"
    /\ \E plan \in Plans[r] :
          req' = [req EXCEPT ![r] = [@ EXCEPT !.pc = "start",
                    !.kind = plan.kind, !.lines = plan.lines,
                    !.since = Cardinality(Rows(plan.kind))]]
    /\ UNCHANGED <<rows, lock>>

\* The transaction begins: products are read and checked, then the numbers.
ReadNumbers(r) ==
    /\ req[r].pc = "start" /\ req[r].kind \in KINDS
    /\ req' = [req EXCEPT ![r].pc = "insert", ![r].no = NextNumber(r)]
    /\ UNCHANGED <<rows, lock>>

\* update, cancel and createReturn begin by locking their first row.
BeginChange(r) ==
    /\ req[r].pc = "start" /\ req[r].kind = "change"
    /\ req' = [req EXCEPT ![r].pc = "lines", ![r].left = req[r].lines]
    /\ UNCHANGED <<rows, lock>>

InsertRow(r) ==
    /\ req[r].pc = "insert" /\ ~Held(r) /\ ~Taken(r)
    /\ req' = [req EXCEPT ![r].pc = "lines", ![r].left = req[r].lines]
    /\ UNCHANGED <<rows, lock>>

\* Mistake: the retry keeps its number and never gives up.
RetryForEver(r) ==
    /\ req[r].pc = "insert" /\ ~Held(r) /\ Taken(r)
    /\ UNCHANGED intakeVars
\* P2002: the transaction is gone, the request starts over, three times.
RetryNumber(r) ==
    /\ req[r].pc = "insert" /\ ~Held(r) /\ Taken(r)
    /\ IF req[r].attempt < MAX_ATTEMPTS
       THEN /\ req' = [req EXCEPT ![r].pc = "start",
                                  ![r].attempt = @ + 1]
            /\ UNCHANGED <<rows, lock>>
       ELSE Fails(r, "noNumber")

\* The update of the next record, once nobody else holds it.
UpdateRecord(r) ==
    /\ req[r].pc = "lines" /\ req[r].left # <<>>
    /\ lock[Head(req[r].left)] \in {None, r}
    /\ lock' = [lock EXCEPT ![Head(req[r].left)] = r]
    /\ req' = [req EXCEPT ![r].left = Tail(@)]
    /\ UNCHANGED rows

CommitRow(r) ==
    /\ req[r].pc = "lines" /\ req[r].left = <<>>
    /\ rows' = [k \in KINDS |-> IF k = req[r].kind
                                THEN rows[k] \cup {req[r].no} ELSE rows[k]]
    /\ lock' = Released(r)
    /\ req' = [req EXCEPT ![r] = [Idle EXCEPT !.pc = "done", !.no = req[r].no,
                                              !.kind = req[r].kind]]

\* The database ends one of the requests of a circle.  This is not P2002:
\* the request fails.
EndCircle(r) ==
    /\ \E S \in SUBSET Requests : r \in S /\ Circle(S)
    /\ Fails(r, "refused")

\* A check fails, the stock is short, the transaction times out.
Refuse(r) == InTransaction(r) /\ Fails(r, "refused")

Step(r) ==
    \/ ReadNumbers(r) \/ BeginChange(r) \/ InsertRow(r) \/ RetryNumber(r)
    \/ UpdateRecord(r) \/ CommitRow(r) \/ EndCircle(r)
Next == \E r \in Requests : Arrive(r) \/ Step(r) \/ Refuse(r)

Spec == Init /\ [][Next]_intakeVars
FairSpec == Spec /\ \A r \in Requests : WF_intakeVars(Step(r))

-----------------------------------------------------------------------------
TypeOK ==
    /\ rows \in [KINDS -> SUBSET (Nat \ {0})]
    /\ lock \in [Records -> Requests \cup {None}]
    /\ req \in [Requests -> ReqState]

\* The numbers of a day run 1, 2, 3, ... without a gap, and no two requests
\* were given the same one (orders.service.ts:83-86 trusts the index for it).
NumbersRunOn ==
    /\ \A k \in KINDS : rows[k] = 1..Cardinality(rows[k])
    /\ \A r, q \in Requests :
          /\ req[r].pc = "done" /\ req[q].pc = "done"
          /\ req[r].kind = req[q].kind /\ req[r].kind \in KINDS
          /\ req[r].no = req[q].no
          => r = q

\* Waiting for the number lets one request of a kind at a time touch the
\* records: the others wait at their insert or start over.
OneAtATime == \A k \in KINDS : \A r, q \in Pending(k) : r = q

\* Two new orders, two supplies or two sheets never wait for each other,
\* whatever the order of their lines: a circle of waiting requests joins
\* different kinds or has a change in it (orders.service.ts:241, where the
\* update of the lines comes after the insert of the numbered row).
CirclesMixKinds ==
    \A S \in SUBSET Requests : Circle(S) =>
        \E r, q \in S : req[r].kind # req[q].kind \/ req[r].kind = "change"

\* A request is sent away for want of a number only when at least three
\* others of its kind were committed while it tried.
SentAwayOnlyUnderLoad ==
    \A r \in Requests : req[r].pc = "noNumber" =>
        Cardinality(Rows(req[r].kind)) >= req[r].since + MAX_ATTEMPTS

\* Every request is answered, circles and retries included.
EveryRequestAnswered ==
    \A r \in Requests :
        InTransaction(r) ~> req[r].pc \in {"done", "refused", "noNumber"}
=============================================================================
