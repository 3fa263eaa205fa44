------------------------------ MODULE Supplies ------------------------------
(***************************************************************************)
(* The debt for received goods.  A supply that Intake has committed is owed*)
(* to its company and paid in parts.  pay reads the row without a lock,    *)
(* checks the amount against what is still due, books an expense and       *)
(* rewrites paidAmount from the value it has read.                         *)
(***************************************************************************)
EXTENDS Intake

CONSTANTS Payers,     \* calls of pay
          TotalCost   \* the cost of a supply

ASSUME TotalCostAssumption == TotalCost \in Nat

VARIABLES paidAmount,   \* what the row of a supply says was paid
          expense,      \* expenses booked in finance for a supply
          pay,          \* the calls of pay
          overlapped    \* history: supplies two payments met on

supplyVars == <<paidAmount, expense, pay, overlapped>>
NoPay == [pc |-> "idle"]

Received == {r \in Requests : req[r].pc = "done" /\ req[r].kind = "supply"}
DueAmount(s) == TotalCost - paidAmount[s]

\* Mistake: only the first payment is compared with the debt.
FitsTotalCost(s, amount) == amount > 0 /\ amount <= TotalCost
FitsDue(s, amount) == amount > 0 /\ amount <= DueAmount(s)

PayRead(c) ==
    /\ pay[c].pc = "idle"
    /\ \E s \in Received, amount \in 1..TotalCost :
          /\ FitsDue(s, amount)
          /\ pay' = [pay EXCEPT ![c] = [pc |-> "paying", supply |-> s,
                                        amount |-> amount,
                                        seen |-> paidAmount[s]]]
    /\ UNCHANGED <<paidAmount, expense, overlapped>>

\* The expense and the row, in one transaction.
PayWrite(c) ==
    /\ pay[c].pc = "paying"
    /\ LET s == pay[c].supply
       IN /\ expense' = [expense EXCEPT ![s] = @ + pay[c].amount]
          /\ paidAmount' = [paidAmount EXCEPT ![s] = pay[c].seen + pay[c].amount]
          /\ overlapped' = overlapped \cup
                (IF paidAmount[s] # pay[c].seen THEN {s} ELSE {})
    /\ pay' = [pay EXCEPT ![c] = [pc |-> "answered"]]

PayFails(c) ==
    /\ pay[c].pc = "paying"
    /\ pay' = [pay EXCEPT ![c] = [pc |-> "answered"]]
    /\ UNCHANGED <<paidAmount, expense, overlapped>>

SupplyInit ==
    /\ Init
    /\ paidAmount = [r \in Requests |-> 0]
    /\ expense = [r \in Requests |-> 0]
    /\ pay = [c \in Payers |-> NoPay]
    /\ overlapped = {}

SupplyNext ==
    \/ Next /\ UNCHANGED supplyVars
    \/ /\ \E c \in Payers : PayRead(c) \/ PayWrite(c) \/ PayFails(c)
       /\ UNCHANGED intakeVars

allVars == <<intakeVars, supplyVars>>
SupplySpec == SupplyInit /\ [][SupplyNext]_allVars
FairSupplySpec == SupplySpec /\ \A r \in Requests : WF_allVars(Step(r) /\ UNCHANGED supplyVars)

-----------------------------------------------------------------------------
\* A supply is never shown as paid beyond its cost or beyond the expenses
\* booked for it, and the two agree exactly unless two payments have met on
\* it, where the later write loses the earlier one (supplies.service.ts:330).
DebtFollowsExpenses ==
    \A s \in Requests :
        /\ paidAmount[s] <= TotalCost
        /\ paidAmount[s] <= expense[s]
        /\ s \notin overlapped => paidAmount[s] = expense[s]
=============================================================================
