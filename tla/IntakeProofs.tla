---------------------------- MODULE IntakeProofs ----------------------------
(***************************************************************************)
(* The numbers of a day for every set of requests, records and plans, and  *)
(* the debt of a supply for every cost and any number of payments.         *)
(***************************************************************************)
EXTENDS Supplies, FiniteSetTheorems, TLAPS

USE PlansAssumption, NoneAssumption, RequestsAssumption, TotalCostAssumption
    DEF PlansAssumption, NoneAssumption, RequestsAssumption, TotalCostAssumption

Count(k) == Cardinality(Rows(k))

\* The committed numbers of each kind are the first ones.
Dense == \A k \in KINDS : Count(k) \in Nat /\ rows[k] = 1..Count(k)

\* What is true of a request by the step it is at: the number it has chosen
\* is at most the next one, and is that one once its row is inserted; every
\* collision it had stands for a row committed since it arrived.
AtStep(x) ==
    /\ x.pc = "idle" => x.attempt = 1
    /\ x.pc = "start" => x.since + x.attempt <= Count(x.kind) + 1
    /\ x.pc = "insert" => /\ x.kind \in KINDS
                          /\ x.no \in 1..(Count(x.kind) + 1)
                          /\ x.since + x.attempt <= x.no
    /\ x.pc = "lines" /\ x.kind \in KINDS => x.no = Count(x.kind) + 1
    /\ x.pc = "done" => x.no \in Rows(x.kind) \/ x.kind = "change"
    /\ x.pc = "noNumber" => x.since + MAX_ATTEMPTS <= Count(x.kind)

\* Two requests of a kind are not both inserted, and have not one number.
Apart ==
    \A r, q \in Requests :
        r # q /\ req[r].kind = req[q].kind /\ req[r].kind \in KINDS =>
            /\ ~(req[r].pc = "lines" /\ req[q].pc = "lines")
            /\ req[r].pc = "done" /\ req[q].pc = "done" => req[r].no # req[q].no

\* Records are locked by requests that are at their lines.
Holders == \A p \in Records : lock[p] # None => req[lock[p]].pc = "lines"

IntakeInv ==
    /\ TypeOK /\ Dense /\ Apart /\ Holders
    /\ \A r \in Requests : AtStep(req[r])

\* The last of the first n numbers is n, and there are n of them.
LEMMA LastOfFirst ==
    ASSUME NEW n \in Nat
    PROVE  LastNumber(1..n) = n /\ Cardinality(1..n) = n
<1>1. Cardinality(1..n) = n
  BY FS_Interval
<1>2. LastNumber(1..n) = n
  <2>1. n \in (1..n) \cup {0} /\ \A y \in (1..n) \cup {0} : n >= y
    OBVIOUS
  <2>2. \A x \in (1..n) \cup {0} :
           (\A y \in (1..n) \cup {0} : x >= y) => x = n
    OBVIOUS
  <2>3. QED BY <2>1, <2>2 DEF LastNumber, Max
<1>3. QED BY <1>1, <1>2

\* The next number is one more than there are rows.
LEMMA NextIsCountPlusOne ==
    ASSUME IntakeInv, NEW r \in Requests, req[r].kind \in KINDS
    PROVE  NextNumber(r) = Count(req[r].kind) + 1
<1>1. Rows(req[r].kind) = rows[req[r].kind]
  BY DEF Rows
<1>2. QED BY <1>1, LastOfFirst DEF IntakeInv, Dense, NextNumber

\* Changes have no numbered rows.
LEMMA ChangesCount == Rows("change") = {} /\ Count("change") = 0
<1>1. Rows("change") = {}
  BY DEF Rows, KINDS
<1>2. QED BY <1>1, FS_EmptySet DEF Count

\* A request that moves without committing keeps the invariant when the
\* state it moves to is right by itself, it is inserted alone in its kind,
\* and the locks stay with inserted requests.
LEMMA RequestMoves ==
    ASSUME IntakeInv, NEW r \in Requests, NEW x \in ReqState,
           rows' = rows, req' = [req EXCEPT ![r] = x],
           AtStep(x), x.pc # "done",
           x.pc = "lines" /\ x.kind \in KINDS => \A q \in Requests \ {r} :
               ~(req[q].pc = "lines" /\ req[q].kind = x.kind),
           lock' \in [Records -> Requests \cup {None}],
           \A p \in Records : lock'[p] # None => req'[lock'[p]].pc = "lines"
    PROVE  IntakeInv'
<1>1. TypeOK'
  BY DEF IntakeInv, TypeOK
<1>2. Dense'
  BY DEF IntakeInv, Dense, Count, Rows
<1>3. Holders'
  BY DEF Holders
<1>4. \A q \in Requests : req'[q] = IF q = r THEN x ELSE req[q]
  BY DEF IntakeInv, TypeOK
<1>5. Apart'
  BY <1>4 DEF IntakeInv, Apart
<1>6. \A q \in Requests : AtStep(req[q])'
  BY <1>4 DEF IntakeInv, AtStep, Count, Rows
<1>7. QED BY <1>1, <1>2, <1>3, <1>5, <1>6 DEF IntakeInv

LEMMA IdleIsState == Idle \in ReqState
<1>1. NoLines \in Seq(Records)
  BY DEF NoLines
<1>2. QED BY <1>1 DEF Idle, ReqState, MAX_ATTEMPTS, KINDS

\* A request that ends, and frees its rows, keeps the invariant.
LEMMA FailsKeeps ==
    ASSUME IntakeInv, NEW r \in Requests, NEW why \in {"refused", "noNumber"},
           Fails(r, why),
           why = "noNumber" =>
               req[r].since + MAX_ATTEMPTS <= Count(req[r].kind)
    PROVE  IntakeInv'
<1> DEFINE x == IF why = "refused" THEN [Idle EXCEPT !.pc = why]
                ELSE [req[r] EXCEPT !.pc = why, !.lines = NoLines, !.left = NoLines]
<1>1. req[r] \in ReqState
  BY DEF IntakeInv, TypeOK
<1>2. x \in ReqState /\ x.pc = why
  <2>1. NoLines \in Seq(Records)
    BY DEF NoLines
  <2>2. CASE why = "refused"
    <3>1. x = [Idle EXCEPT !.pc = "refused"] /\ x.pc = "refused"
      BY <2>2 DEF Idle
    <3>2. x \in ReqState
      BY <3>1, IdleIsState DEF ReqState
    <3>3. QED BY <2>2, <3>1, <3>2
  <2>3. CASE why = "noNumber"
    <3>1. x = [req[r] EXCEPT !.pc = "noNumber", !.lines = NoLines, !.left = NoLines]
      BY <2>3
    <3>2. QED BY <1>1, <2>1, <2>3, <3>1 DEF ReqState
  <2>4. QED BY <2>2, <2>3
<1>3. req' = [req EXCEPT ![r] = x] /\ rows' = rows /\ lock' = Released(r)
  BY DEF Fails
<1>4. AtStep(x)
  <2>1. CASE why = "refused"
    BY <2>1, <1>2 DEF AtStep
  <2>2. CASE why = "noNumber"
    <3>1. x.since = req[r].since /\ x.kind = req[r].kind
      BY <1>1, <2>2 DEF ReqState
    <3>2. QED BY <1>2, <2>2, <3>1 DEF AtStep
  <2>3. QED BY <2>1, <2>2
<1>5. lock' \in [Records -> Requests \cup {None}]
  BY <1>3 DEF Released, IntakeInv, TypeOK
<1>6. \A p \in Records : lock'[p] # None => req'[lock'[p]].pc = "lines"
  BY <1>3 DEF Released, IntakeInv, TypeOK, Holders
<1>7. QED BY <1>2, <1>3, <1>4, <1>5, <1>6, RequestMoves

LEMMA ArriveKeeps ==
    ASSUME IntakeInv, NEW r \in Requests, Arrive(r)
    PROVE  IntakeInv'
<1>1. PICK plan \in Plans[r] :
        req' = [req EXCEPT ![r] = [@ EXCEPT !.pc = "start",
                  !.kind = plan.kind, !.lines = plan.lines,
                  !.since = Cardinality(Rows(plan.kind))]]
  BY DEF Arrive
<1> DEFINE x == [req[r] EXCEPT !.pc = "start", !.kind = plan.kind,
                   !.lines = plan.lines, !.since = Cardinality(Rows(plan.kind))]
<1>2. plan.kind \in KINDS \cup {"change"} /\ plan.lines \in Seq(Records)
  OBVIOUS
<1>3. req[r] \in ReqState /\ req[r].pc = "idle"
  BY DEF IntakeInv, TypeOK, Arrive
<1>4. Count(plan.kind) \in Nat
  BY <1>2, ChangesCount DEF IntakeInv, Dense
<1>5. x \in ReqState
  BY <1>2, <1>3, <1>4 DEF ReqState, Count
<1>6. AtStep(x)
  <2>1. x.pc = "start" /\ x.since = Count(plan.kind) /\ x.attempt = 1
        /\ x.kind = plan.kind
    BY <1>3 DEF IntakeInv, AtStep, ReqState, Count
  <2>2. QED BY <2>1, <1>4 DEF AtStep
<1>7. \A p \in Records : lock'[p] # None => req'[lock'[p]].pc = "lines"
  BY <1>1, <1>3 DEF Arrive, IntakeInv, TypeOK, Holders
<1>8. x.pc = "start" /\ rows' = rows /\ req' = [req EXCEPT ![r] = x]
      /\ lock' \in [Records -> Requests \cup {None}]
  BY <1>1, <1>3 DEF Arrive, IntakeInv, TypeOK, ReqState
<1>9. QED BY <1>5, <1>6, <1>7, <1>8, RequestMoves

LEMMA ReadNumbersKeeps ==
    ASSUME IntakeInv, NEW r \in Requests, ReadNumbers(r)
    PROVE  IntakeInv'
<1> DEFINE x == [req[r] EXCEPT !.pc = "insert", !.no = NextNumber(r)]
<1>1. req[r] \in ReqState /\ req[r].pc = "start" /\ req[r].kind \in KINDS
  BY DEF IntakeInv, TypeOK, ReadNumbers, ReqState
<1>2. NextNumber(r) = Count(req[r].kind) + 1 /\ Count(req[r].kind) \in Nat
  BY <1>1, NextIsCountPlusOne DEF IntakeInv, Dense
<1>3. x \in ReqState
  <2>1. NextNumber(r) \in Nat
    BY <1>2
  <2>2. QED BY <1>1, <2>1 DEF ReqState
<1>4. x.pc = "insert" /\ x.no = Count(x.kind) + 1 /\ x.kind = req[r].kind
      /\ x.since = req[r].since /\ x.attempt = req[r].attempt
  BY <1>1, <1>2 DEF ReqState
<1>5. AtStep(x)
  <2>1. req[r].since + req[r].attempt <= Count(req[r].kind) + 1
    BY <1>1 DEF IntakeInv, AtStep
  <2>2. QED BY <1>1, <1>2, <1>4, <2>1 DEF AtStep
<1>6. \A p \in Records : lock'[p] # None => req'[lock'[p]].pc = "lines"
  BY <1>1 DEF ReadNumbers, IntakeInv, TypeOK, Holders
<1>7. rows' = rows /\ req' = [req EXCEPT ![r] = x]
      /\ lock' \in [Records -> Requests \cup {None}]
  BY <1>1 DEF ReadNumbers, IntakeInv, TypeOK, ReqState
<1>8. QED BY <1>3, <1>4, <1>5, <1>6, <1>7, RequestMoves

LEMMA BeginChangeKeeps ==
    ASSUME IntakeInv, NEW r \in Requests, BeginChange(r)
    PROVE  IntakeInv'
<1> DEFINE x == [req[r] EXCEPT !.pc = "lines", !.left = req[r].lines]
<1>1. req[r] \in ReqState /\ req[r].pc = "start" /\ req[r].kind = "change"
  BY DEF IntakeInv, TypeOK, BeginChange
<1>2. x \in ReqState /\ x.pc = "lines" /\ x.kind \notin KINDS
  BY <1>1 DEF ReqState, KINDS
<1>3. AtStep(x)
  BY <1>2 DEF AtStep
<1>4. \A p \in Records : lock'[p] # None => req'[lock'[p]].pc = "lines"
  BY <1>1 DEF BeginChange, IntakeInv, TypeOK, Holders
<1>5. rows' = rows /\ req' = [req EXCEPT ![r] = x]
      /\ lock' \in [Records -> Requests \cup {None}]
  BY <1>1 DEF BeginChange, IntakeInv, TypeOK, ReqState
<1>6. QED BY <1>2, <1>3, <1>4, <1>5, RequestMoves

\* The row is inserted alone: another of its kind would hold the number.
LEMMA InsertRowKeeps ==
    ASSUME IntakeInv, NEW r \in Requests, InsertRow(r)
    PROVE  IntakeInv'
<1> DEFINE x == [req[r] EXCEPT !.pc = "lines", !.left = req[r].lines]
<1>1. req[r] \in ReqState /\ req[r].pc = "insert" /\ req[r].kind \in KINDS
  BY DEF IntakeInv, TypeOK, InsertRow, ReqState, AtStep
<1>2. req[r].no = Count(req[r].kind) + 1
  <2>1. req[r].no \in 1..(Count(req[r].kind) + 1)
    BY <1>1 DEF IntakeInv, AtStep
  <2>2. Count(req[r].kind) \in Nat /\ req[r].no \notin 1..Count(req[r].kind)
    BY <1>1 DEF InsertRow, Taken, IntakeInv, Dense, Rows
  <2>3. QED BY <2>1, <2>2
<1>3. x \in ReqState
  BY <1>1 DEF ReqState
<1>4. x.pc = "lines" /\ x.kind = req[r].kind /\ x.no = req[r].no
  BY <1>1 DEF ReqState
<1>5. AtStep(x)
  BY <1>2, <1>4 DEF AtStep
<1>6. ASSUME NEW q \in Requests \ {r}, req[q].pc = "lines",
             req[q].kind = x.kind
      PROVE  FALSE
  <2>1. req[q].no = req[r].no
    BY <1>1, <1>2, <1>4, <1>6 DEF IntakeInv, AtStep
  <2>2. q \in Pending(req[r].kind) \ {r}
    BY <1>4, <1>6 DEF Pending
  <2>3. QED BY <2>1, <2>2 DEF InsertRow, Held
<1>7. \A p \in Records : lock'[p] # None => req'[lock'[p]].pc = "lines"
  BY <1>1 DEF InsertRow, IntakeInv, TypeOK, Holders
<1>8. rows' = rows /\ req' = [req EXCEPT ![r] = x]
      /\ lock' \in [Records -> Requests \cup {None}]
  BY <1>1 DEF InsertRow, IntakeInv, TypeOK, ReqState
<1>9. QED BY <1>3, <1>4, <1>5, <1>6, <1>7, <1>8, RequestMoves

LEMMA RetryNumberKeeps ==
    ASSUME IntakeInv, NEW r \in Requests, RetryNumber(r)
    PROVE  IntakeInv'
<1>1. req[r] \in ReqState /\ req[r].pc = "insert" /\ req[r].kind \in KINDS
  BY DEF IntakeInv, TypeOK, RetryNumber, ReqState, AtStep
<1>2. Count(req[r].kind) \in Nat /\ req[r].no \in 1..Count(req[r].kind)
  BY <1>1 DEF RetryNumber, Taken, IntakeInv, Dense, Rows
<1>3. req[r].since + req[r].attempt <= req[r].no
  BY <1>1 DEF IntakeInv, AtStep
<1>4. CASE req[r].attempt < MAX_ATTEMPTS
  <2> DEFINE x == [req[r] EXCEPT !.pc = "start", !.attempt = @ + 1]
  <2>1. x \in ReqState
    <3>1. req[r].attempt + 1 \in 1..MAX_ATTEMPTS
      BY <1>1, <1>4 DEF ReqState, MAX_ATTEMPTS
    <3>2. QED BY <1>1, <3>1 DEF ReqState
  <2>2. x.pc = "start" /\ x.attempt = req[r].attempt + 1
        /\ x.since = req[r].since /\ x.kind = req[r].kind
    BY <1>1 DEF ReqState
  <2>3. AtStep(x)
    BY <1>1, <1>2, <1>3, <2>2 DEF AtStep, ReqState
  <2>4. rows' = rows /\ req' = [req EXCEPT ![r] = x]
        /\ lock' \in [Records -> Requests \cup {None}] /\ lock' = lock
    BY <1>1, <1>4 DEF RetryNumber, IntakeInv, TypeOK, ReqState
  <2>5. \A p \in Records : lock'[p] # None => req'[lock'[p]].pc = "lines"
    BY <1>1, <2>4 DEF IntakeInv, TypeOK, Holders
  <2>6. QED BY <2>1, <2>2, <2>3, <2>4, <2>5, RequestMoves
<1>5. CASE ~(req[r].attempt < MAX_ATTEMPTS)
  <2>1. Fails(r, "noNumber")
    BY <1>5 DEF RetryNumber
  <2>2. req[r].since + MAX_ATTEMPTS <= Count(req[r].kind)
    BY <1>1, <1>2, <1>3, <1>5 DEF ReqState, MAX_ATTEMPTS
  <2>3. QED BY <2>1, <2>2, FailsKeeps
<1>6. QED BY <1>4, <1>5

LEMMA UpdateRecordKeeps ==
    ASSUME IntakeInv, NEW r \in Requests, UpdateRecord(r)
    PROVE  IntakeInv'
<1> DEFINE x == [req[r] EXCEPT !.left = Tail(@)]
<1>1. req[r] \in ReqState /\ req[r].pc = "lines" /\ req[r].left # <<>>
      /\ req[r].left \in Seq(Records)
  BY DEF IntakeInv, TypeOK, UpdateRecord, ReqState
<1>2. Head(req[r].left) \in Records /\ Tail(req[r].left) \in Seq(Records)
  BY <1>1
<1>3. x \in ReqState
  BY <1>1, <1>2 DEF ReqState
<1>4. x.pc = "lines" /\ x.kind = req[r].kind /\ x.no = req[r].no
  BY <1>1 DEF ReqState
<1>5. AtStep(x)
  BY <1>1, <1>4 DEF IntakeInv, AtStep
<1>6. x.kind \in KINDS => \A q \in Requests \ {r} :
           ~(req[q].pc = "lines" /\ req[q].kind = x.kind)
  BY <1>1, <1>4 DEF IntakeInv, Apart
<1>7. rows' = rows /\ req' = [req EXCEPT ![r] = x]
      /\ lock' = [lock EXCEPT ![Head(req[r].left)] = r]
  BY <1>1 DEF UpdateRecord, IntakeInv, TypeOK
<1>8. lock' \in [Records -> Requests \cup {None}]
  BY <1>2, <1>7 DEF IntakeInv, TypeOK
<1>9. \A p \in Records : lock'[p] # None => req'[lock'[p]].pc = "lines"
  BY <1>2, <1>4, <1>7 DEF IntakeInv, TypeOK, Holders
<1>10. QED BY <1>3, <1>4, <1>5, <1>6, <1>7, <1>8, <1>9, RequestMoves

\* The commit of a change: no kind has a row more.
LEMMA CommitChangeKeeps ==
    ASSUME IntakeInv, NEW r \in Requests, CommitRow(r), req[r].kind \notin KINDS
    PROVE  IntakeInv'
<1> DEFINE x == [Idle EXCEPT !.pc = "done", !.no = req[r].no, !.kind = req[r].kind]
<1>1. req[r] \in ReqState /\ req[r].kind = "change" /\ req[r].no \in Nat
  BY DEF IntakeInv, TypeOK, ReqState
<1>2. x \in ReqState /\ x.pc = "done" /\ x.kind = "change"
  <2>1. Idle \in ReqState
    BY IdleIsState
  <2>2. QED BY <1>1, <2>1 DEF ReqState
<1>3. req' = [req EXCEPT ![r] = x] /\ lock' = Released(r)
  BY DEF CommitRow
<1> HIDE DEF x
<1>4. \A q \in Requests : req'[q] = IF q = r THEN x ELSE req[q]
  BY <1>3 DEF IntakeInv, TypeOK
<1>5. rows' = rows
  BY DEF CommitRow, IntakeInv, TypeOK
<1>6. TypeOK'
  <2>1. lock' \in [Records -> Requests \cup {None}]
    BY <1>3 DEF Released, IntakeInv, TypeOK
  <2>2. QED BY <1>2, <1>3, <1>5, <2>1 DEF IntakeInv, TypeOK
<1>7. Dense' /\ Apart'
  <2>1. "change" \notin KINDS
    BY DEF KINDS
  <2>2. Dense'
    BY <1>5 DEF IntakeInv, Dense, Count, Rows
  <2>3. QED BY <1>2, <1>4, <2>1, <2>2 DEF IntakeInv, Apart
<1>8. Holders'
  <2>1. ASSUME NEW p \in Records, lock'[p] # None
        PROVE  req'[lock'[p]].pc = "lines"
    <3>1. lock[p] # None /\ lock[p] # r /\ lock'[p] = lock[p]
      BY <1>3, <2>1 DEF Released
    <3>2. lock[p] \in Requests /\ req[lock[p]].pc = "lines"
      BY <3>1 DEF IntakeInv, TypeOK, Holders
    <3>3. QED BY <1>4, <3>1, <3>2
  <2>2. QED BY <2>1 DEF Holders
<1>9. \A q \in Requests : AtStep(req[q])'
  BY <1>2, <1>4, <1>5 DEF IntakeInv, AtStep, Count, Rows
<1>10. QED BY <1>6, <1>7, <1>8, <1>9 DEF IntakeInv

\* The commit: the kind has one row more, with the number after the last.
LEMMA CommitRowKeeps ==
    ASSUME IntakeInv, NEW r \in Requests, CommitRow(r), req[r].kind \in KINDS
    PROVE  IntakeInv'
<1> DEFINE k == req[r].kind
           n == Count(k)
           x == [Idle EXCEPT !.pc = "done", !.no = req[r].no, !.kind = k]
<1>1. req[r] \in ReqState /\ req[r].pc = "lines" /\ k \in KINDS
      /\ req[r].no \in Nat
  BY DEF IntakeInv, TypeOK, CommitRow, ReqState
<1>2. n \in Nat /\ rows[k] = 1..n /\ req[r].no = n + 1
  BY <1>1 DEF IntakeInv, Dense, AtStep
<1>3. rows' = [rows EXCEPT ![k] = 1..(n + 1)]
  <2>1. (1..n) \cup {n + 1} = 1..(n + 1)
    BY <1>2
  <2>2. rows \in [KINDS -> SUBSET (Nat \ {0})]
    BY DEF IntakeInv, TypeOK
  <2>3. rows' = [j \in KINDS |-> IF j = k THEN 1..(n + 1) ELSE rows[j]]
    <3>1. rows' = [j \in KINDS |-> IF j = k THEN rows[j] \cup {req[r].no} ELSE rows[j]]
      BY DEF CommitRow
    <3>2. QED BY <1>2, <2>1, <3>1
  <2>4. QED BY <1>1, <2>2, <2>3
<1>4. req' = [req EXCEPT ![r] = x] /\ lock' = Released(r)
  BY DEF CommitRow
<1>5. x.pc = "done" /\ x.no = n + 1 /\ x.kind = k
  BY <1>2 DEF Idle
<1>6. x \in ReqState
  BY <1>1, IdleIsState DEF ReqState
<1> HIDE DEF x
<1>7. \A j \in KINDS : Count(j)' = IF j = k THEN n + 1 ELSE Count(j)
  <2>1. Cardinality(1..(n + 1)) = n + 1
    BY <1>2, LastOfFirst
  <2>2. \A j \in KINDS : rows'[j] = IF j = k THEN 1..(n + 1) ELSE rows[j]
    BY <1>3 DEF IntakeInv, TypeOK
  <2>3. QED BY <2>1, <2>2 DEF Count, Rows
<1>8. \A q \in Requests : req'[q] = IF q = r THEN x ELSE req[q]
  BY <1>4 DEF IntakeInv, TypeOK
<1>9. TypeOK'
  <2>1. rows' \in [KINDS -> SUBSET (Nat \ {0})]
    <3>1. 1..(n + 1) \in SUBSET (Nat \ {0})
      BY <1>2
    <3>2. QED BY <1>1, <1>3, <3>1 DEF IntakeInv, TypeOK
  <2>2. lock' \in [Records -> Requests \cup {None}]
    BY <1>4 DEF Released, IntakeInv, TypeOK
  <2>3. req' \in [Requests -> ReqState]
    BY <1>4, <1>6 DEF IntakeInv, TypeOK
  <2>4. QED BY <2>1, <2>2, <2>3 DEF TypeOK
<1>10. Dense'
  <2>1. ASSUME NEW j \in KINDS
        PROVE  Count(j)' \in Nat /\ rows'[j] = 1..Count(j)'
    <3>1. CASE j = k
      BY <1>1, <1>2, <1>3, <1>7, <3>1 DEF IntakeInv, TypeOK
    <3>2. CASE j # k
      BY <1>1, <1>3, <1>7, <3>2 DEF IntakeInv, TypeOK, Dense
    <3>3. QED BY <3>1, <3>2
  <2>2. QED BY <2>1 DEF Dense, Count
<1>11. Holders'
  <2>1. ASSUME NEW p \in Records, lock'[p] # None
        PROVE  req'[lock'[p]].pc = "lines"
    <3>1. lock[p] # None /\ lock[p] # r /\ lock'[p] = lock[p]
      BY <1>4, <2>1 DEF Released
    <3>2. lock[p] \in Requests /\ req[lock[p]].pc = "lines"
      BY <3>1 DEF IntakeInv, TypeOK, Holders
    <3>3. QED BY <1>8, <3>1, <3>2
  <2>2. QED BY <2>1 DEF Holders
<1>12. Apart'
  <2>1. ASSUME NEW a \in Requests, NEW b \in Requests, a # b,
               req'[a].kind = req'[b].kind, req'[a].kind \in KINDS
        PROVE  /\ ~(req'[a].pc = "lines" /\ req'[b].pc = "lines")
               /\ req'[a].pc = "done" /\ req'[b].pc = "done" =>
                      req'[a].no # req'[b].no
    <3>1. CASE a # r /\ b # r
      BY <1>8, <2>1, <3>1 DEF IntakeInv, Apart
    <3>2. ASSUME NEW q \in Requests, q # r, req[q].kind = k, req[q].pc = "done"
          PROVE  req[q].no # n + 1
      <4>0. k # "change" /\ Rows(k) = rows[k]
        BY <1>1 DEF KINDS, Rows
      <4>1. req[q].no \in 1..n
        BY <1>2, <3>2, <4>0 DEF IntakeInv, AtStep
      <4>2. QED BY <1>2, <4>1
    <3>3. CASE a = r
      BY <1>5, <1>8, <2>1, <3>2, <3>3
    <3>4. CASE b = r
      BY <1>5, <1>8, <2>1, <3>2, <3>4
    <3>5. QED BY <3>1, <3>3, <3>4
  <2>2. QED BY <2>1 DEF Apart
<1>13. ASSUME NEW q \in Requests
       PROVE  AtStep(req[q])'
  <2>1. CASE q = r
    <3>1. req'[q].kind = k => n + 1 \in Rows(req[q].kind)'
      BY <1>1, <1>2, <1>3 DEF IntakeInv, TypeOK, Rows
    <3>2. QED BY <1>5, <1>8, <2>1, <3>1 DEF AtStep
  <2>2. CASE q # r
    <3>1. req'[q] = req[q] /\ req[q] \in ReqState /\ AtStep(req[q])
          /\ req[q].kind \in KINDS \cup {"change"}
      BY <1>8, <2>2 DEF IntakeInv, TypeOK, ReqState
    <3>6. CASE req[q].kind = "change"
      <4>1. Count("change") = 0 /\ Count("change")' = 0
        BY ChangesCount, FS_EmptySet DEF Count, Rows, KINDS
      <4>2. "change" \notin KINDS
        BY DEF KINDS
      <4>3. QED BY <3>1, <3>6, <4>1, <4>2 DEF AtStep
    <3>7. CASE req[q].kind \in KINDS
      <4>1. Count(req[q].kind) \in Nat /\ Count(req[q].kind)' \in Nat
            /\ Count(req[q].kind) <= Count(req[q].kind)'
        BY <1>2, <1>7, <3>1, <3>7 DEF IntakeInv, Dense
      <4>2. req[q].pc = "lines" => Count(req[q].kind)' = Count(req[q].kind)
        BY <1>1, <1>7, <2>2, <3>1, <3>7 DEF IntakeInv, Apart
      <4>3. Rows(req[q].kind) \subseteq Rows(req[q].kind)'
        BY <1>1, <1>2, <1>3, <3>1, <3>7 DEF IntakeInv, TypeOK, Rows
      <4>4. QED BY <3>1, <4>1, <4>2, <4>3 DEF AtStep, ReqState, MAX_ATTEMPTS
    <3>8. QED BY <3>1, <3>6, <3>7
  <2>3. QED BY <2>1, <2>2
<1>14. QED BY <1>9, <1>10, <1>11, <1>12, <1>13 DEF IntakeInv

-----------------------------------------------------------------------------
LEMMA InitKeeps == ASSUME Init PROVE IntakeInv
<1>1. TypeOK
  BY IdleIsState DEF Init, TypeOK
<1>2. \A k \in KINDS : rows[k] = {} /\ Count(k) = 0
  BY FS_EmptySet DEF Init, Count, Rows
<1>3. Dense
  <2>1. 1..0 = {}
    OBVIOUS
  <2>2. ASSUME NEW k \in KINDS
        PROVE  Count(k) \in Nat /\ rows[k] = 1..Count(k)
    <3>1. Count(k) = 0 /\ rows[k] = {}
      BY <1>2
    <3>2. QED BY ONLY <2>1, <3>1
  <2>3. QED BY <2>2 DEF Dense
<1>4. \A r \in Requests : req[r].pc = "idle" /\ req[r].attempt = 1
  BY DEF Init, Idle
<1>5. Apart /\ (\A r \in Requests : AtStep(req[r]))
  BY <1>4 DEF Apart, AtStep
<1>6. Holders
  BY DEF Init, Holders
<1>7. QED BY <1>1, <1>3, <1>5, <1>6 DEF IntakeInv

LEMMA NextKeeps == IntakeInv /\ [Next]_intakeVars => IntakeInv'
<1> SUFFICES ASSUME IntakeInv, [Next]_intakeVars PROVE IntakeInv'
  OBVIOUS
<1>1. CASE UNCHANGED intakeVars
  BY <1>1 DEF intakeVars, IntakeInv, TypeOK, Dense, Count, Rows, Apart, Holders, AtStep
<1>2. ASSUME NEW r \in Requests, Arrive(r) \/ Step(r) \/ Refuse(r)
      PROVE  IntakeInv'
  <2>1. CASE Arrive(r)        BY <2>1, ArriveKeeps
  <2>2. CASE ReadNumbers(r)   BY <2>2, ReadNumbersKeeps
  <2>3. CASE InsertRow(r)     BY <2>3, InsertRowKeeps
  <2>4. CASE RetryNumber(r)   BY <2>4, RetryNumberKeeps
  <2>5. CASE UpdateRecord(r) BY <2>5, UpdateRecordKeeps
  <2>6. CASE CommitRow(r)     BY <2>6, CommitRowKeeps, CommitChangeKeeps
  <2>10. CASE BeginChange(r)  BY <2>10, BeginChangeKeeps
  <2>7. CASE EndCircle(r)     BY <2>7, FailsKeeps DEF EndCircle
  <2>8. CASE Refuse(r)        BY <2>8, FailsKeeps DEF Refuse
  <2>9. QED
    BY <1>2, <2>1, <2>2, <2>3, <2>4, <2>5, <2>6, <2>7, <2>8,
       <2>10 DEF Step
<1>3. QED BY <1>1, <1>2 DEF Next

\* The invariant holds while supplies are also being paid.
LEMMA IntakeInvHolds == SupplySpec => []IntakeInv
<1>1. SupplyInit => IntakeInv
  BY InitKeeps DEF SupplyInit
<1>2. IntakeInv /\ [SupplyNext]_allVars => IntakeInv'
  BY NextKeeps DEF SupplyNext, allVars
<1>3. QED BY <1>1, <1>2, PTL DEF SupplySpec

\* Rows, locks and requests keep their types (the state of orders.service.ts
\* create, supplies.service.ts create and warehouse.service.ts createHandover
\* while they number their row).
THEOREM IntakeTypes == SupplySpec => []TypeOK
<1>1. IntakeInv => TypeOK
  BY DEF IntakeInv
<1>2. QED BY <1>1, IntakeInvHolds, PTL

\* The numbers of a day have no gap and no double, for any number of
\* requests, plans and payers (orders.service.ts:83-86, supplies.service.ts).
THEOREM NumbersRunOnAlways == SupplySpec => []NumbersRunOn
<1>1. IntakeInv => NumbersRunOn
  BY DEF IntakeInv, Dense, Count, Rows, Apart, NumbersRunOn
<1>2. QED BY <1>1, IntakeInvHolds, PTL

\* While its number is held, nobody else of the kind touches records.
LEMMA OneAtATimeHolds == IntakeInv => OneAtATime
BY DEF IntakeInv, Apart, OneAtATime, Pending

\* Whoever is waited for has its row inserted, or is a change.
LEMMA WaitedForIsPending ==
    ASSUME IntakeInv, NEW r \in Requests, NEW q \in Requests, WaitsFor(r, q)
    PROVE  req[q].pc = "lines"
<1>1. CASE req[r].pc = "insert"
  BY <1>1 DEF WaitsFor, Pending
<1>2. CASE req[r].pc = "lines" /\ req[r].left # <<>>
           /\ lock[Head(req[r].left)] = q
  <2>1. req[r].left \in Seq(Records)
    BY DEF IntakeInv, TypeOK, ReqState
  <2>2. Head(req[r].left) \in Records
    BY <1>2, <2>1
  <2>3. QED BY <1>2, <2>2 DEF IntakeInv, Holders
<1>3. QED BY <1>1, <1>2 DEF WaitsFor

\* No circle of new orders only, of supplies only or of sheets only can close,
\* whatever the records and their order (orders.service.ts:241); a change of
\* an order can be in a circle with another.
THEOREM CirclesAlwaysMixKinds == SupplySpec => []CirclesMixKinds
<1>1. ASSUME IntakeInv, NEW S \in SUBSET Requests, Circle(S)
      PROVE  \E r, q \in S : req[r].kind # req[q].kind \/ req[r].kind = "change"
  <2>1. PICK q \in S : TRUE
    BY <1>1 DEF Circle
  <2>2. PICK b \in S : WaitsFor(q, b)
    BY <1>1, <2>1 DEF Circle
  <2>3. PICK a \in S : WaitsFor(a, q)
    BY <1>1, <2>1 DEF Circle
  <2>4. q # b /\ req[q].pc = "lines" /\ req[b].pc = "lines"
    BY <1>1, <2>2, <2>3, WaitedForIsPending DEF WaitsFor
  <2>5. req[q].kind # req[b].kind \/ req[q].kind = "change"
    BY <1>1, <2>4 DEF IntakeInv, Apart, TypeOK, ReqState
  <2>6. QED BY <2>5
<1>2. IntakeInv => CirclesMixKinds
  BY <1>1 DEF CirclesMixKinds
<1>3. QED BY <1>2, IntakeInvHolds, PTL

\* Who is sent away for want of a number met three others that were given
\* one (orders.service.ts:113): the retries are never lost on one's own row.
THEOREM SentAwayOnlyUnderLoadAlways == SupplySpec => []SentAwayOnlyUnderLoad
<1>1. ASSUME IntakeInv, NEW r \in Requests, req[r].pc = "noNumber"
      PROVE  Cardinality(Rows(req[r].kind)) >= req[r].since + MAX_ATTEMPTS
  <2>1. req[r] \in ReqState /\ req[r].kind \in KINDS \cup {"change"}
    BY <1>1 DEF IntakeInv, TypeOK, ReqState
  <2>2. Count(req[r].kind) \in Nat
    BY <1>1, <2>1, ChangesCount DEF IntakeInv, Dense
  <2>3. req[r].since + MAX_ATTEMPTS <= Count(req[r].kind)
    BY <1>1 DEF IntakeInv, AtStep
  <2>4. QED BY <2>1, <2>2, <2>3 DEF Count, ReqState, MAX_ATTEMPTS
<1>2. IntakeInv => SentAwayOnlyUnderLoad
  BY <1>1 DEF SentAwayOnlyUnderLoad
<1>3. QED BY <1>2, IntakeInvHolds, PTL

-----------------------------------------------------------------------------
PayState == [pc : {"idle", "answered"}]
            \cup [pc : {"paying"}, supply : Requests, amount : Nat, seen : Nat]

\* A payment that is under way fits what it has read, and what it has read
\* was booked: that outlives the payments that overtake it.
DebtInv ==
    /\ paidAmount \in [Requests -> Nat] /\ expense \in [Requests -> Nat]
    /\ pay \in [Payers -> PayState]
    /\ \A c \in Payers : pay[c].pc = "paying" =>
          /\ pay[c].seen + pay[c].amount <= TotalCost
          /\ pay[c].seen <= expense[pay[c].supply]
    /\ DebtFollowsExpenses

LEMMA PayReadKeeps ==
    ASSUME DebtInv, NEW c \in Payers, PayRead(c)
    PROVE  DebtInv'
<1>1. PICK s \in Received, amount \in 1..TotalCost :
        /\ FitsDue(s, amount)
        /\ pay' = [pay EXCEPT ![c] = [pc |-> "paying", supply |-> s,
                                      amount |-> amount, seen |-> paidAmount[s]]]
  BY DEF PayRead
<1>2. s \in Requests /\ paidAmount[s] \in Nat /\ amount \in Nat
      /\ paidAmount[s] + amount <= TotalCost /\ paidAmount[s] <= expense[s]
  BY <1>1 DEF Received, DebtInv, FitsDue, DueAmount, DebtFollowsExpenses
<1>3. pay' \in [Payers -> PayState]
  BY <1>1, <1>2 DEF DebtInv, PayState
<1>4. paidAmount' = paidAmount /\ expense' = expense /\ overlapped' = overlapped
  BY DEF PayRead
<1>5. QED BY <1>1, <1>2, <1>3, <1>4 DEF DebtInv, DebtFollowsExpenses

LEMMA PayFailsKeeps ==
    ASSUME DebtInv, NEW c \in Payers, PayFails(c)
    PROVE  DebtInv'
<1>1. pay' = [pay EXCEPT ![c] = [pc |-> "answered"]]
      /\ paidAmount' = paidAmount /\ expense' = expense /\ overlapped' = overlapped
  BY DEF PayFails
<1>2. pay' \in [Payers -> PayState]
  BY <1>1 DEF DebtInv, PayState
<1>3. QED BY <1>1, <1>2 DEF DebtInv, DebtFollowsExpenses

LEMMA PayWriteKeeps ==
    ASSUME DebtInv, NEW c \in Payers, PayWrite(c)
    PROVE  DebtInv'
<1> DEFINE s == pay[c].supply
           a == pay[c].amount
           seen == pay[c].seen
<1>1. s \in Requests /\ a \in Nat /\ seen \in Nat
      /\ seen + a <= TotalCost /\ seen <= expense[s]
  BY DEF PayWrite, DebtInv, PayState
<1>2. expense' = [expense EXCEPT ![s] = expense[s] + a]
      /\ paidAmount' = [paidAmount EXCEPT ![s] = seen + a]
      /\ pay' = [pay EXCEPT ![c] = [pc |-> "answered"]]
  BY DEF PayWrite
<1>3. overlapped \subseteq overlapped'
      /\ (s \notin overlapped' => paidAmount[s] = seen)
  BY DEF PayWrite
<1> HIDE DEF s, a, seen
<1>4. expense[s] \in Nat /\ expense' \in [Requests -> Nat]
      /\ paidAmount' \in [Requests -> Nat]
  BY <1>1, <1>2 DEF DebtInv
<1>5. pay' \in [Payers -> PayState]
  BY <1>2 DEF DebtInv, PayState
<1>6. ASSUME NEW d \in Payers, pay'[d].pc = "paying"
      PROVE  /\ pay'[d].seen + pay'[d].amount <= TotalCost
             /\ pay'[d].seen <= expense'[pay'[d].supply]
  <2>1. d # c /\ pay'[d] = pay[d] /\ pay[d].pc = "paying"
    BY <1>2, <1>6 DEF DebtInv
  <2>2. pay[d].supply \in Requests /\ pay[d].seen \in Nat
        /\ pay[d].seen <= expense[pay[d].supply]
        /\ pay[d].seen + pay[d].amount <= TotalCost
    BY <2>1 DEF DebtInv, PayState
  <2>3. expense[pay[d].supply] <= expense'[pay[d].supply]
    BY <1>1, <1>2, <2>2 DEF DebtInv
  <2>4. QED BY <1>4, <2>1, <2>2, <2>3 DEF DebtInv
<1>7. DebtFollowsExpenses'
  <2>1. ASSUME NEW q \in Requests
        PROVE  /\ paidAmount'[q] <= TotalCost
               /\ paidAmount'[q] <= expense'[q]
               /\ q \notin overlapped' => paidAmount'[q] = expense'[q]
    <3>1. CASE q = s
      BY <1>1, <1>2, <1>3, <1>4, <3>1 DEF DebtInv, DebtFollowsExpenses
    <3>2. CASE q # s
      BY <1>2, <1>3, <3>2 DEF DebtInv, DebtFollowsExpenses
    <3>3. QED BY <3>1, <3>2
  <2>2. QED BY <2>1 DEF DebtFollowsExpenses
<1>8. QED BY <1>4, <1>5, <1>6, <1>7 DEF DebtInv

\* Any number of payments of any number of supplies, in any order: what a
\* supply shows as paid is within its cost and covered by expenses
\* (supplies.service.ts:330).
THEOREM DebtAlwaysFollowsExpenses == SupplySpec => []DebtFollowsExpenses
<1>1. SupplyInit => DebtInv
  BY DEF SupplyInit, DebtInv, DebtFollowsExpenses, NoPay, PayState
<1>2. DebtInv /\ [SupplyNext]_allVars => DebtInv'
  <2> SUFFICES ASSUME DebtInv, [SupplyNext]_allVars PROVE DebtInv'
    OBVIOUS
  <2>1. CASE UNCHANGED supplyVars
    BY <2>1 DEF supplyVars, DebtInv, DebtFollowsExpenses
  <2>2. ASSUME NEW c \in Payers, PayRead(c) \/ PayWrite(c) \/ PayFails(c)
        PROVE  DebtInv'
    BY <2>2, PayReadKeeps, PayWriteKeeps, PayFailsKeeps
  <2>3. QED BY <2>1, <2>2 DEF SupplyNext, allVars
<1>3. DebtInv => DebtFollowsExpenses
  BY DEF DebtInv
<1>4. QED BY <1>1, <1>2, <1>3, PTL DEF SupplySpec
=============================================================================
