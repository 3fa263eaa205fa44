--------------------------- MODULE PaymentAccount ---------------------------
(***************************************************************************)
(* What the money of an order promises, with every operation atomic: the   *)
(* account of an order is what is due, what has been collected and what has*)
(* been refunded, and the order shows the balance and a status derived from*)
(* it.                                                                     *)
(***************************************************************************)
EXTENDS Integers

CONSTANT Accounts

VARIABLES opened, due, collected, refunded, shownPaid, shownStatus

accountVars == <<opened, due, collected, refunded, shownPaid, shownStatus>>

Paid(o) == collected[o] - refunded[o]

\* An account without anything due may stay UNPAID: nobody has to pay.
Status(o) ==
    CASE Paid(o) >= due[o] /\ (Paid(o) > 0 \/ due[o] > 0) -> {"PAID"}
      [] Paid(o) >= due[o] /\ Paid(o) <= 0 /\ due[o] <= 0 -> {"PAID", "UNPAID"}
      [] Paid(o) < due[o] /\ Paid(o) > 0 -> {"PARTIAL"}
      [] Paid(o) < due[o] /\ Paid(o) <= 0 -> {"UNPAID"}

Shows ==
    \A o \in Accounts : shownPaid[o] = Paid(o) /\ shownStatus[o] \in Status(o)

Init ==
    /\ opened = {}
    /\ due = [o \in Accounts |-> 0]
    /\ collected = [o \in Accounts |-> 0]
    /\ refunded = [o \in Accounts |-> 0]
    /\ Shows

Open(o, total) ==
    /\ o \notin opened
    /\ opened' = opened \cup {o}
    /\ due' = [due EXCEPT ![o] = total]
    /\ \E prepaid \in {0, total} :
          collected' = [collected EXCEPT ![o] = prepaid]
    /\ UNCHANGED refunded

Collect(o, amount) ==
    /\ o \in opened
    /\ amount > 0
    /\ Paid(o) + amount <= due[o]
    /\ collected' = [collected EXCEPT ![o] = @ + amount]
    /\ UNCHANGED <<opened, due, refunded>>

\* A booking made by mistake is taken out again.
Void(o, amount) ==
    /\ o \in opened
    /\ amount > 0
    /\ amount <= collected[o]
    /\ collected' = [collected EXCEPT ![o] = @ - amount]
    /\ UNCHANGED <<opened, due, refunded>>

Refund(o, amount) ==
    /\ o \in opened
    /\ amount > 0
    /\ amount <= Paid(o)
    /\ refunded' = [refunded EXCEPT ![o] = @ + amount]
    /\ UNCHANGED <<opened, due, collected>>

Retotal(o, total) ==
    /\ o \in opened
    /\ Paid(o) <= total
    /\ due' = [due EXCEPT ![o] = total]
    /\ UNCHANGED <<opened, collected, refunded>>

Operate(o) ==
    \/ Open(o, due'[o])
    \/ Collect(o, collected'[o] - collected[o])
    \/ Void(o, collected[o] - collected'[o])
    \/ Refund(o, refunded'[o] - refunded[o])
    \/ Retotal(o, due'[o])

Next == \E o \in Accounts : Operate(o) /\ Shows'

Spec == Init /\ [][Next]_accountVars
=============================================================================
