----------------------------- MODULE BellProofs -----------------------------
(***************************************************************************)
(* What is kept of the permissions, what was marked read and what was      *)
(* warned about, for every set of users, callers, partners and work.       *)
(***************************************************************************)
EXTENDS Notifications, FiniteSetTheorems, SequenceTheorems, TLAPS

USE PermissionsAssumption, NotificationsAssumption
    DEF PermissionsAssumption, NotificationsAssumption

\* An answer that some exception the user has had gives in that role.
Founded(u, r, yes) == \E o \in had[u] : yes = Effective(r, o)

\* What a caller is about is filled in as far as its step needs it; what it
\* has read and not kept is current, or known to be late.
AskInv(a) ==
    /\ a.pc # "idle" => a.user \in Users
    /\ a.pc \in {"ask", "store", "answered"} => a.role \in Roles
    /\ a.pc = "override" => a.to \in Overrides
    /\ a.pc = "role" => a.to \in Roles
    /\ a.pc \in {"store", "answered"} => Founded(a.user, a.role, a.yes)
    /\ a.pc = "store" => \/ a.late
                         \/ a.yes = Effective(a.role, override[a.user])

\* What is kept, for whatever role, is current, late, or about to be deleted.
CacheInv(u) ==
    cache[u] # None =>
        /\ Founded(u, cache[u].role, cache[u].yes)
        /\ \/ cache[u].yes = Effective(cache[u].role, override[u])
           \/ cache[u].late
           \/ BeingChanged(u)

PermInv ==
    /\ PermTypeOK
    /\ \A u \in Users : override[u] \in had[u] /\ CacheInv(u)
    /\ \A c \in Callers : AskInv(ask[c])

LEMMA PermInitKeeps == ASSUME PermInit PROVE PermInv
<1>1. PermTypeOK
  BY DEF PermInit, PermTypeOK, Quiet, Asking, Roles, Overrides
<1>2. \A u \in Users : override[u] \in had[u] /\ CacheInv(u)
  BY DEF PermInit, CacheInv
<1>3. \A c \in Callers : AskInv(ask[c])
  BY DEF PermInit, AskInv, Quiet
<1>4. QED BY <1>1, <1>2, <1>3 DEF PermInv

\* A caller that moves by itself, without writing a role, an exception or
\* what is kept, keeps the invariant; it is not deleting what is kept.
LEMMA AskMoves ==
    ASSUME PermInv, NEW c \in Callers, NEW a \in Asking,
           ask' = [ask EXCEPT ![c] = a], AskInv(a),
           ask[c].pc # "invalidate",
           begun' \in 0..MaxCalls,
           UNCHANGED <<role, override, cache, had>>
    PROVE  PermInv'
<1>1. ask \in [Callers -> Asking]
  BY DEF PermInv, PermTypeOK
<1>2. \A d \in Callers : ask'[d] = IF d = c THEN a ELSE ask[d]
  BY <1>1
<1>3. PermTypeOK'
  BY <1>1 DEF PermInv, PermTypeOK
<1>4. \A d \in Callers : AskInv(ask[d])'
  BY <1>2 DEF PermInv, AskInv, Founded
<1>5. ASSUME NEW u \in Users PROVE CacheInv(u)'
  <2>1. BeingChanged(u) => BeingChanged(u)'
    BY <1>2 DEF BeingChanged
  <2>2. CacheInv(u)
    BY DEF PermInv
  <2>3. QED BY <2>1, <2>2 DEF CacheInv, Founded
<1>6. QED BY <1>3, <1>4, <1>5 DEF PermInv

LEMMA TurnBounds ==
    ASSUME PermInv, NEW c \in Callers, NEW work, Turn(c, work)
    PROVE  begun' \in 0..MaxCalls /\ ask[c].pc = "idle"
BY DEF Turn, PermInv, PermTypeOK

LEMMA QuietIsAsking == Quiet \in Asking /\ AskInv(Quiet)
BY DEF Quiet, Asking, AskInv

LEMMA AsksIsAsking ==
    ASSUME NEW u \in Users, NEW r \in Roles
    PROVE  Asks(u, r) \in Asking /\ AskInv(Asks(u, r))
BY DEF Asks, Quiet, Asking, AskInv

LEMMA StartsKeeps ==
    ASSUME PermInv, NEW c \in Callers, Starts(c)
    PROVE  PermInv'
<1>1. ASSUME NEW u \in Users, Request(c, u) PROVE PermInv'
  <2>1. role[u] \in Roles
    BY DEF PermInv, PermTypeOK
  <2>2. Asks(u, role[u]) \in Asking /\ AskInv(Asks(u, role[u]))
    BY <2>1, AsksIsAsking
  <2>3. QED BY <1>1, <2>2, TurnBounds, AskMoves DEF Request
<1>2. ASSUME NEW u \in Users, NEW o \in Overrides, ChangeOverride(c, u, o)
      PROVE  PermInv'
  <2> DEFINE a == [Quiet EXCEPT !.pc = "override", !.user = u, !.to = o]
  <2>1. a \in Asking /\ AskInv(a)
    BY DEF Quiet, Asking, AskInv
  <2>2. QED BY <1>2, <2>1, TurnBounds, AskMoves DEF ChangeOverride
<1>3. ASSUME NEW u \in Users, NEW r \in Roles, ChangeRole(c, u, r)
      PROVE  PermInv'
  <2> DEFINE a == [Quiet EXCEPT !.pc = "role", !.user = u, !.role = role[u],
                                !.to = r]
  <2>1. a \in Asking /\ AskInv(a)
    BY DEF Quiet, Asking, AskInv, PermInv, PermTypeOK
  <2>2. QED BY <1>3, <2>1, TurnBounds, AskMoves DEF ChangeRole
<1>4. QED BY <1>1, <1>2, <1>3 DEF Starts

LEMMA CallerFacts ==
    ASSUME PermInv, NEW c \in Callers
    PROVE  /\ ask[c] \in Asking /\ AskInv(ask[c]) /\ begun \in 0..MaxCalls
           /\ ask[c].pc # "idle" =>
                 /\ CacheInv(ask[c].user)
                 /\ override[ask[c].user] \in had[ask[c].user]
                 /\ override[ask[c].user] \in Overrides
                 /\ cache[ask[c].user] \in Entry \cup {None}
BY DEF PermInv, PermTypeOK, AskInv

LEMMA AskCachedKeeps ==
    ASSUME PermInv, NEW c \in Callers, AskCached(c)
    PROVE  PermInv'
<1> DEFINE u == ask[c].user
<1>1. ask[c].pc = "ask" /\ u \in Users /\ ask[c].role \in Roles
      /\ ask[c] \in Asking /\ begun' = begun /\ begun \in 0..MaxCalls
      /\ override[u] \in had[u] /\ CacheInv(u)
      /\ cache[u] \in Entry \cup {None}
  BY CallerFacts DEF AskCached, AskInv
<1>2. ASSUME NEW yes \in BOOLEAN, Founded(u, ask[c].role, yes), Answers(c, yes)
      PROVE  PermInv'
  <2> DEFINE a == [ask[c] EXCEPT !.pc = "answered", !.yes = yes]
  <2>1. a \in Asking /\ a.pc = "answered" /\ a.user = u /\ a.role = ask[c].role
        /\ a.yes = yes
    BY <1>1 DEF Asking
  <2>2. AskInv(a)
    BY <1>1, <1>2, <2>1 DEF AskInv
  <2>3. ask' = [ask EXCEPT ![c] = a]
    BY <1>2 DEF Answers, PermInv, PermTypeOK
  <2>4. QED BY <1>1, <2>1, <2>2, <2>3, AskMoves DEF AskCached
<1>3. CASE ask[c].role = "ADMIN" /\ Answers(c, TRUE)
  <2>1. Founded(u, ask[c].role, TRUE)
    BY <1>1, <1>3 DEF Founded, Effective
  <2>2. QED BY <1>2, <1>3, <2>1
<1>4. CASE Kept(u, ask[c].role) /\ Answers(c, cache[u].yes)
  <2>1. cache[u].yes \in BOOLEAN /\ Founded(u, ask[c].role, cache[u].yes)
    BY <1>1, <1>4 DEF Kept, CacheInv, Entry
  <2>2. QED BY <1>2, <1>4, <2>1
<1>5. QED BY <1>3, <1>4 DEF AskCached

LEMMA AskDatabaseKeeps ==
    ASSUME PermInv, NEW c \in Callers, AskDatabase(c)
    PROVE  PermInv'
<1> DEFINE u == ask[c].user
           yes == Effective(ask[c].role, override[u])
           a == [ask[c] EXCEPT !.pc = "store", !.yes = yes]
<1>1. ask[c].pc = "ask" /\ u \in Users /\ ask[c].role \in Roles
      /\ ask[c] \in Asking /\ begun' = begun /\ begun \in 0..MaxCalls
      /\ override[u] \in had[u]
  BY CallerFacts DEF AskDatabase, AskInv
<1>2. yes \in BOOLEAN /\ Founded(u, ask[c].role, yes)
  BY <1>1 DEF Effective, Founded
<1>3. a \in Asking /\ a.pc = "store" /\ a.user = u /\ a.role = ask[c].role
      /\ a.yes = yes
  BY <1>1, <1>2 DEF Asking
<1>4. AskInv(a)
  BY <1>1, <1>2, <1>3 DEF AskInv
<1>5. ask' = [ask EXCEPT ![c] = a]
  BY DEF AskDatabase, PermInv, PermTypeOK
<1>6. QED BY <1>1, <1>3, <1>4, <1>5, AskMoves DEF AskDatabase

LEMMA KeepKeeps ==
    ASSUME PermInv, NEW c \in Callers, Keep(c)
    PROVE  PermInv'
<1> DEFINE u == ask[c].user
           e == [role |-> ask[c].role, yes |-> ask[c].yes, late |-> ask[c].late]
           a == [ask[c] EXCEPT !.pc = "answered", !.yes = ask[c].yes]
<1>1. ask[c].pc = "store" /\ u \in Users /\ ask[c].role \in Roles
      /\ ask[c] \in Asking /\ AskInv(ask[c])
  BY CallerFacts DEF Keep, AskInv
<1>2. Founded(u, ask[c].role, ask[c].yes)
      /\ (ask[c].late \/ ask[c].yes = Effective(ask[c].role, override[u]))
  BY <1>1 DEF AskInv
<1>3. e \in Entry /\ e.role = ask[c].role /\ e.yes = ask[c].yes
      /\ e.late = ask[c].late
  BY <1>1 DEF Entry, Asking
<1>4. a \in Asking /\ a.pc = "answered" /\ a.user = u /\ a.role = ask[c].role
      /\ a.yes = ask[c].yes
  BY <1>1 DEF Asking
<1>5. ask' = [ask EXCEPT ![c] = a] /\ cache' = [cache EXCEPT ![u] = e]
      /\ override' = override /\ had' = had /\ role' = role /\ begun' = begun
  BY DEF Keep, Answers, PermInv, PermTypeOK
<1> HIDE DEF a, e, u
<1>6. \A d \in Callers : ask'[d] = IF d = c THEN a ELSE ask[d]
  BY <1>5 DEF PermInv, PermTypeOK
<1>7. PermTypeOK'
  BY <1>1, <1>3, <1>4, <1>5 DEF PermInv, PermTypeOK
<1>8. \A d \in Callers : AskInv(ask[d])'
  BY <1>1, <1>2, <1>4, <1>5, <1>6 DEF PermInv, AskInv, Founded
<1>9. ASSUME NEW v \in Users PROVE CacheInv(v)'
  <2>1. CASE v = u
    <3>1. cache'[v] = e
      BY <1>5, <2>1 DEF PermInv, PermTypeOK
    <3>2. QED BY <1>2, <1>3, <1>5, <2>1, <3>1 DEF CacheInv, Founded
  <2>2. CASE v # u
    <3>1. cache'[v] = cache[v] /\ CacheInv(v)
      BY <1>5, <2>2 DEF PermInv, PermTypeOK
    <3>2. BeingChanged(v) => BeingChanged(v)'
      BY <1>1, <1>6 DEF BeingChanged
    <3>3. QED BY <1>5, <3>1, <3>2 DEF CacheInv, Founded
  <2>3. QED BY <2>1, <2>2
<1>10. QED BY <1>5, <1>7, <1>8, <1>9 DEF PermInv

LEMMA ExpireKeeps ==
    ASSUME PermInv, NEW u \in Users, Expire(u)
    PROVE  PermInv'
<1>1. cache' = [cache EXCEPT ![u] = None] /\ ask' = ask /\ override' = override
      /\ had' = had /\ role' = role /\ begun' = begun
  BY DEF Expire
<1>2. PermTypeOK' /\ (\A c \in Callers : AskInv(ask[c])')
  BY <1>1 DEF PermInv, PermTypeOK, AskInv, Founded
<1>3. \A v \in Users : CacheInv(v)'
  BY <1>1 DEF PermInv, PermTypeOK, CacheInv, BeingChanged, Founded
<1>4. QED BY <1>1, <1>2, <1>3 DEF PermInv

LEMMA InvalidateKeeps ==
    ASSUME PermInv, NEW c \in Callers, Invalidate(c)
    PROVE  PermInv'
<1> DEFINE u == ask[c].user
<1>1. u \in Users
  BY CallerFacts DEF Invalidate, AskInv
<1>2. cache' = [cache EXCEPT ![u] = None] /\ ask' = [ask EXCEPT ![c] = Quiet]
      /\ override' = override /\ had' = had /\ role' = role /\ begun' = begun
  BY DEF Invalidate
<1> HIDE DEF u
<1>3. \A d \in Callers : ask'[d] = IF d = c THEN Quiet ELSE ask[d]
  BY <1>2 DEF PermInv, PermTypeOK
<1>4. PermTypeOK'
  BY <1>1, <1>2, QuietIsAsking DEF PermInv, PermTypeOK
<1>5. \A d \in Callers : AskInv(ask[d])'
  BY <1>2, <1>3, QuietIsAsking DEF PermInv, AskInv, Founded
<1>6. ASSUME NEW v \in Users PROVE CacheInv(v)'
  <2>1. CASE v = u
    BY <1>2, <2>1 DEF PermInv, PermTypeOK, CacheInv
  <2>2. CASE v # u
    <3>1. cache'[v] = cache[v] /\ CacheInv(v)
      BY <1>2, <2>2 DEF PermInv, PermTypeOK
    <3>2. BeingChanged(v) => BeingChanged(v)'
      BY <1>3, <2>2 DEF BeingChanged, u
    <3>3. QED BY <1>2, <3>1, <3>2 DEF CacheInv, Founded
  <2>3. QED BY <2>1, <2>2
<1>7. QED BY <1>2, <1>4, <1>5, <1>6 DEF PermInv

LEMMA WriteRoleKeeps ==
    ASSUME PermInv, NEW c \in Callers, WriteRole(c)
    PROVE  PermInv'
<1> DEFINE a == IF ask[c].to # ask[c].role THEN [ask[c] EXCEPT !.pc = "invalidate"]
                ELSE Quiet
<1>1. ask[c].pc = "role" /\ ask[c].user \in Users /\ ask[c].to \in Roles
      /\ ask[c] \in Asking
  BY CallerFacts DEF WriteRole, AskInv
<1>2. a \in Asking /\ AskInv(a)
  BY <1>1, QuietIsAsking DEF Asking, AskInv
<1>3. role' = [role EXCEPT ![ask[c].user] = ask[c].to]
      /\ ask' = [ask EXCEPT ![c] = a] /\ override' = override /\ cache' = cache
      /\ had' = had /\ begun' = begun
  BY DEF WriteRole, PermInv, PermTypeOK
<1> HIDE DEF a
<1>4. \A d \in Callers : ask'[d] = IF d = c THEN a ELSE ask[d]
  BY <1>3 DEF PermInv, PermTypeOK
<1>5. PermTypeOK'
  BY <1>1, <1>2, <1>3 DEF PermInv, PermTypeOK
<1>6. \A d \in Callers : AskInv(ask[d])'
  BY <1>2, <1>3, <1>4 DEF PermInv, AskInv, Founded
<1>7. ASSUME NEW v \in Users PROVE CacheInv(v)'
  <2>1. BeingChanged(v) => BeingChanged(v)'
    BY <1>1, <1>4 DEF BeingChanged
  <2>2. CacheInv(v)
    BY DEF PermInv
  <2>3. QED BY <1>3, <2>1, <2>2 DEF CacheInv, Founded
<1>8. QED BY <1>3, <1>5, <1>6, <1>7 DEF PermInv

\* The write makes every reading that is under way late, and is about to
\* delete what is kept.
LEMMA WriteOverrideKeeps ==
    ASSUME PermInv, NEW c \in Callers, WriteOverride(c)
    PROVE  PermInv'
<1> DEFINE u == ask[c].user
           o == ask[c].to
           mine == [ask[c] EXCEPT !.pc = "invalidate"]
           Overtaken(d) == ask[d].pc = "store" /\ ask[d].user = u
<1>1. ask[c].pc = "override" /\ u \in Users /\ o \in Overrides
      /\ ask[c] \in Asking
  BY CallerFacts DEF WriteOverride, AskInv
<1>2. override' = [override EXCEPT ![u] = o]
      /\ had' = [had EXCEPT ![u] = had[u] \cup {o}]
      /\ role' = role /\ cache' = cache /\ begun' = begun
  BY DEF WriteOverride, PermInv, PermTypeOK
<1>3. \A d \in Callers :
        ask'[d] = IF d = c THEN mine
                  ELSE IF Overtaken(d) THEN [ask[d] EXCEPT !.late = TRUE]
                  ELSE ask[d]
  BY DEF WriteOverride
<1>4. mine \in Asking /\ mine.pc = "invalidate" /\ mine.user = u
  BY <1>1 DEF Asking
<1>5. \A v \in Users : had[v] \subseteq had'[v]
  BY <1>2 DEF PermInv, PermTypeOK
<1> HIDE DEF mine, u, o
<1>6. ASSUME NEW d \in Callers
      PROVE  ask'[d] \in Asking /\ AskInv(ask[d])'
  <2>1. ask[d] \in Asking /\ AskInv(ask[d])
    BY CallerFacts
  <2>2. CASE d = c
    BY <1>1, <1>3, <1>4, <2>2 DEF AskInv
  <2>3. CASE d # c /\ Overtaken(d)
    <3> DEFINE b == [ask[d] EXCEPT !.late = TRUE]
    <3>1. ask'[d] = b /\ b \in Asking /\ b.pc = "store" /\ b.late
          /\ b.user = ask[d].user /\ b.role = ask[d].role /\ b.yes = ask[d].yes
      BY <1>3, <2>1, <2>3 DEF Asking
    <3>2. ask[d].user \in Users /\ ask[d].role \in Roles
          /\ Founded(ask[d].user, ask[d].role, ask[d].yes)
      BY <2>1, <2>3 DEF AskInv
    <3>3. \E p \in had'[ask[d].user] : ask[d].yes = Effective(ask[d].role, p)
      BY <1>5, <3>2 DEF Founded
    <3> HIDE DEF b
    <3>4. QED BY <3>1, <3>2, <3>3 DEF AskInv, Founded
  <2>4. CASE d # c /\ ~Overtaken(d)
    <3>1. ask'[d] = ask[d]
      BY <1>3, <2>4
    <3>2. ask[d].pc # "idle" => ask[d].user \in Users
      BY <2>1 DEF AskInv
    <3>3. ask[d].pc = "store" => override'[ask[d].user] = override[ask[d].user]
      BY <1>1, <1>2, <2>4, <3>2 DEF PermInv, PermTypeOK
    <3>4. ask[d].pc \in {"store", "answered"} =>
             \E p \in had'[ask[d].user] : ask[d].yes = Effective(ask[d].role, p)
      BY <1>5, <2>1, <3>2 DEF AskInv, Founded
    <3>5. QED BY <2>1, <3>1, <3>2, <3>3, <3>4 DEF AskInv, Founded
  <2>5. QED BY <2>2, <2>3, <2>4
<1>7. PermTypeOK'
  <2>1. ask' \in [Callers -> Asking]
    <3>1. ask' = [d \in Callers |-> ask'[d]]
      BY DEF WriteOverride
    <3>2. QED BY <1>6, <3>1
  <2>2. had' \in [Users -> SUBSET Overrides]
    BY <1>1, <1>2 DEF PermInv, PermTypeOK
  <2>3. QED BY <1>1, <1>2, <2>1, <2>2 DEF PermInv, PermTypeOK
<1>8. ASSUME NEW v \in Users PROVE CacheInv(v)' /\ override'[v] \in had'[v]
  <2>1. CASE v = u
    <3>1. BeingChanged(v)'
      BY <1>3, <1>4, <2>1 DEF BeingChanged
    <3>2. cache[v] # None =>
             \E p \in had'[v] : cache[v].yes = Effective(cache[v].role, p)
      BY <1>5 DEF PermInv, CacheInv, Founded
    <3>3. QED BY <1>1, <1>2, <2>1, <3>1, <3>2
              DEF PermInv, PermTypeOK, CacheInv, Founded
  <2>2. CASE v # u
    <3>1. override'[v] = override[v] /\ had'[v] = had[v] /\ CacheInv(v)
          /\ override[v] \in had[v]
      BY <1>1, <1>2, <2>2 DEF PermInv, PermTypeOK
    <3>2. BeingChanged(v) => BeingChanged(v)'
      BY <1>1, <1>3 DEF BeingChanged
    <3>3. QED BY <1>2, <3>1, <3>2 DEF CacheInv, Founded
  <2>3. QED BY <2>1, <2>2
<1>9. QED BY <1>6, <1>7, <1>8 DEF PermInv

LEMMA GoesOnKeeps ==
    ASSUME PermInv, NEW c \in Callers, GoesOn(c)
    PROVE  PermInv'
BY AskCachedKeeps, AskDatabaseKeeps, KeepKeeps, WriteOverrideKeeps,
   WriteRoleKeeps, InvalidateKeeps DEF GoesOn

-----------------------------------------------------------------------------
(* The bell. *)

\* The rows a list that was read when there were n of them would show.
NewestUpTo(n) ==
    {i \in Mine : i <= n /\ Cardinality({j \in Mine : i < j /\ j <= n}) < Page}

\* A caller that warns found no warning of the day, or has been overtaken; one
\* that shows the list shows the newest rows there were.
JobInv(x, seen) ==
    /\ x.low /\ x.pc \in {"staff", "loop", "write"} =>
          ~WarnedToday \/ day \in overlapped
    /\ x.pc \in {"listed", "readAll"} =>
          x.upto \in 0..Len(notes) /\ x.items = NewestUpTo(x.upto)
    /\ x.pc = "readAll" => x.items \subseteq seen

\* Rows are of today or before, and two of one day for one user mean that two
\* warnings were written together.
Once ==
    /\ \A i \in DOMAIN notes : notes[i].day <= day
    /\ \A i, j \in DOMAIN notes :
          /\ i # j /\ notes[i].low /\ notes[j].low
          /\ notes[i].user = notes[j].user /\ notes[i].day = notes[j].day
          => notes[i].day \in overlapped

PageTypes ==
    /\ stream \in [open : BOOLEAN, no : Nat, sent : Seq(Nat)] /\ badge \in Nat
    /\ poll \in [Polls -> [pc : {"idle", "answered"}, count : Nat]]
    /\ events \in 0..MaxEvents

BellInv ==
    /\ PermInv /\ TypeOK /\ Once /\ ReadWasShown
    /\ \A c \in Callers : JobInv(job[c], shown)

LEMMA FunctionIsSeq ==
    ASSUME NEW T, NEW n \in Nat, NEW f \in [1..n -> T]
    PROVE  f \in Seq(T) /\ Len(f) = n
<1> DEFINE g == [i \in 1..n |-> f[i]]
<1>1. f = g
  OBVIOUS
<1>2. g \in Seq(T) /\ Len(g) = n
  OBVIOUS
<1>3. QED BY <1>1, <1>2

\* The rows of one warning: one for each who is told.
Written(j, d) ==
    SetToSeq({[user |-> u, low |-> j.low, day |-> d, read |-> FALSE] : u \in j.tell})

LEMMA WrittenRows ==
    ASSUME NEW j \in Job, NEW d \in Nat
    PROVE  LET s == Written(j, d)
           IN  /\ s \in Seq(Row)
               /\ \A i \in 1..Len(s) : s[i].low = j.low /\ s[i].day = d /\ ~s[i].read
               /\ \A i, k \in 1..Len(s) : s[i].user = s[k].user => i = k
<1> DEFINE low == j.low
           tell == j.tell
<1>0. tell \in SUBSET (Users \cup Partners) /\ low \in BOOLEAN
  BY DEF Job
<1> USE <1>0
<1> DEFINE S == {[user |-> u, low |-> low, day |-> d, read |-> FALSE] : u \in tell}
<1>1. IsFiniteSet(S)
  <2> DEFINE f == [u \in tell |-> [user |-> u, low |-> low, day |-> d,
                                   read |-> FALSE]]
  <2>1. IsFiniteSet(tell)
    <3>1. IsFiniteSet(Users \cup Partners)
      BY FS_Union
    <3>2. QED BY <3>1, FS_Subset
  <2>2. f \in Surjection(tell, S)
    BY DEF Surjection
  <2>3. QED BY <2>1, <2>2, FS_Surjection
<1>2. PICK f \in [1..Cardinality(S) -> S] : IsInjective(f)
  BY <1>1, FS_CardinalityType DEF ExistsBijection, Bijection, Injection
<1> DEFINE s == SetToSeq(S)
<1>3. s \in [1..Cardinality(S) -> S] /\ IsInjective(s)
  BY <1>2 DEF SetToSeq
<1>4. Cardinality(S) \in Nat
  BY <1>1, FS_CardinalityType
<1> HIDE DEF s
<1>5. s \in Seq(S) /\ Len(s) = Cardinality(S)
  BY <1>3, <1>4, FunctionIsSeq
<1>6. ASSUME NEW x \in S
      PROVE  /\ x \in Row /\ x.low = low /\ x.day = d /\ ~x.read
             /\ x = [user |-> x.user, low |-> low, day |-> d, read |-> FALSE]
  <2>1. \E u \in tell : x = [user |-> u, low |-> low, day |-> d, read |-> FALSE]
    BY Zenon
  <2>2. PICK u \in tell : x = [user |-> u, low |-> low, day |-> d, read |-> FALSE]
    BY <2>1
  <2>3. u \in Users \cup Partners
    OBVIOUS
  <2>4. QED BY <2>2, <2>3 DEF Row
<1>7. ASSUME NEW x \in S, NEW y \in S, x.user = y.user
      PROVE  x = y
  BY <1>6, <1>7
<1>8. \A i \in 1..Len(s) : s[i] \in S
  BY <1>5, ElementOfSeq
<1>9. s \in Seq(Row)
  <2>1. S \subseteq Row
    BY <1>6
  <2>2. QED BY <1>5, <2>1
<1>10. \A i, k \in 1..Len(s) : s[i].user = s[k].user => i = k
  BY <1>3, <1>5, <1>7, <1>8 DEF IsInjective
<1>11. QED BY <1>6, <1>8, <1>9, <1>10 DEF s, Written

LEMMA PermStays ==
    ASSUME PermInv, UNCHANGED permVars
    PROVE  PermInv'
BY DEF PermInv, PermTypeOK, permVars, AskInv, CacheInv, BeingChanged, Founded

LEMMA BeginsPerm ==
    ASSUME PermInv, NEW c \in Callers, NEW work, Turn(c, work),
           UNCHANGED <<role, override, cache, ask, had>>
    PROVE  PermInv'
<1>1. begun' \in 0..MaxCalls
  BY TurnBounds
<1>2. QED
  BY <1>1 DEF PermInv, PermTypeOK, AskInv, CacheInv, BeingChanged, Founded

\* The rows are a finite sequence.
LEMMA MineFinite ==
    ASSUME BellInv
    PROVE  /\ Len(notes) \in Nat /\ DOMAIN notes = 1..Len(notes)
           /\ \A S \in SUBSET Mine : IsFiniteSet(S) /\ Cardinality(S) \in Nat
<1>1. notes \in Seq(Row)
  BY DEF BellInv, TypeOK
<1>2. Len(notes) \in Nat /\ DOMAIN notes = 1..Len(notes)
  BY <1>1
<1>3. Mine \subseteq 1..Len(notes)
  BY <1>2 DEF Mine
<1>4. IsFiniteSet(1..Len(notes))
  BY <1>2, FS_Interval
<1>5. ASSUME NEW S \in SUBSET Mine
      PROVE  IsFiniteSet(S) /\ Cardinality(S) \in Nat
  BY <1>3, <1>4, FS_Subset, FS_CardinalityType
<1>6. QED BY <1>2, <1>5

\* Rows, the day and what callers do stay.
LEMMA PageMoves ==
    ASSUME BellInv, PermInv', PageTypes', UNCHANGED <<notes, job, day, history>>
    PROVE  BellInv'
<1>1. TypeOK'
  BY DEF BellInv, TypeOK, PageTypes, PermInv, history
<1>2. Once' /\ ReadWasShown'
  BY DEF BellInv, Once, ReadWasShown, Mine, history
<1>3. \A c \in Callers : JobInv(job[c], shown)'
  BY DEF BellInv, JobInv, WarnedToday, NewestUpTo, Mine, history
<1>4. QED BY <1>1, <1>2, <1>3 DEF BellInv

\* A caller moves, and the rows and the day stay.
LEMMA CallerMoves ==
    ASSUME BellInv, PermInv', PageTypes', NEW c \in Callers, NEW x \in Job,
           job' = [job EXCEPT ![c] = x], JobInv(x, shown'),
           shown \subseteq shown', shown' \subseteq Nat,
           UNCHANGED <<notes, day, excused, overlapped>>
    PROVE  BellInv'
<1>1. TypeOK'
  BY DEF BellInv, TypeOK, PageTypes, PermInv
<1>2. Once' /\ ReadWasShown'
  BY DEF BellInv, Once, ReadWasShown, Mine
<1>3. \A d \in Callers : job'[d] = IF d = c THEN x ELSE job[d]
  BY DEF BellInv, TypeOK
<1>4. \A d \in Callers : JobInv(job[d], shown)'
  <2>1. WarnedToday' = WarnedToday /\ \A n : NewestUpTo(n)' = NewestUpTo(n)
    BY DEF WarnedToday, NewestUpTo, Mine
  <2>2. QED BY <1>3, <2>1 DEF BellInv, JobInv
<1>5. QED BY <1>1, <1>2, <1>4 DEF BellInv

\* Rows are marked, and what they are stays.
LEMMA RowsMarked ==
    ASSUME BellInv, PermInv', PageTypes', NEW c \in Callers, NEW x \in Job,
           job' = [job EXCEPT ![c] = x], x.pc \in {"idle", "count"},
           notes' \in Seq(Row), Len(notes') = Len(notes),
           \A i \in 1..Len(notes) : /\ notes'[i].user = notes[i].user
                                    /\ notes'[i].low = notes[i].low
                                    /\ notes'[i].day = notes[i].day,
           excused' \subseteq Nat, ReadWasShown',
           UNCHANGED <<day, shown, overlapped>>
    PROVE  BellInv'
<1>1. TypeOK'
  BY DEF BellInv, TypeOK, PageTypes, PermInv
<1>2. Len(notes) \in Nat /\ DOMAIN notes = 1..Len(notes)
      /\ DOMAIN notes' = 1..Len(notes)
  BY DEF BellInv, TypeOK
<1>3. Mine' = Mine /\ WarnedToday' = WarnedToday
  BY <1>2 DEF Mine, WarnedToday
<1>4. Once'
  BY <1>2 DEF BellInv, Once
<1>5. \A d \in Callers : job'[d] = IF d = c THEN x ELSE job[d]
  BY DEF BellInv, TypeOK
<1>6. \A n : NewestUpTo(n)' = NewestUpTo(n)
  BY <1>3 DEF NewestUpTo
<1>7. \A d \in Callers : JobInv(job[d], shown)'
  BY <1>3, <1>5, <1>6 DEF BellInv, JobInv
<1>8. QED BY <1>1, <1>4, <1>7 DEF BellInv

-----------------------------------------------------------------------------
LEMMA CallerJob ==
    ASSUME BellInv, NEW c \in Callers
    PROVE  /\ job[c] \in Job /\ JobInv(job[c], shown) /\ PermInv /\ PageTypes
           /\ shown \subseteq Nat /\ excused \subseteq Nat /\ day \in Nat
           /\ notes \in Seq(Row)
BY DEF BellInv, TypeOK, PageTypes

LEMMA FreeIsJob == Free \in Job
BY DEF Free, Job

LEMMA BeginsKeeps ==
    ASSUME BellInv, NEW c \in Callers, NEW work, NEW x \in Job,
           Begins(c, work, x), JobInv(x, shown),
           UNCHANGED <<notes, day, pageVars, history>>
    PROVE  BellInv'
<1>1. PermInv'
  BY CallerJob, BeginsPerm DEF Begins
<1>2. PageTypes'
  BY CallerJob DEF PageTypes, pageVars
<1>3. QED BY <1>1, <1>2, CallerMoves, CallerJob DEF Begins, history

LEMMA LowStockKeeps ==
    ASSUME BellInv, NEW c \in Callers, LowStock(c)
    PROVE  BellInv'
<1> DEFINE x == [Free EXCEPT !.pc = "staff", !.low = TRUE, !.tell = Partners]
<1>1. x \in Job /\ x.pc = "staff"
  BY DEF Free, Job
<1>2. JobInv(x, shown)
  BY <1>1 DEF LowStock, JobInv
<1>3. QED BY <1>1, <1>2, BeginsKeeps DEF LowStock

LEMMA NotifyKeeps ==
    ASSUME BellInv, NEW c \in Callers, Notify(c)
    PROVE  BellInv'
<1> DEFINE x == [Free EXCEPT !.pc = "write", !.tell = {Viewer}]
<1>1. x \in Job /\ x.pc = "write" /\ x.low = FALSE
  BY DEF Free, Job
<1>2. JobInv(x, shown)
  BY <1>1 DEF JobInv
<1>3. QED BY <1>1, <1>2, BeginsKeeps DEF Notify

LEMMA OpenBellKeeps ==
    ASSUME BellInv, NEW c \in Callers, OpenBell(c)
    PROVE  BellInv'
<1> DEFINE x == [Free EXCEPT !.pc = "listed", !.items = Newest,
                   !.upto = Len(notes), !.low = Newest \cap Unread # {}]
<1>1. Len(notes) \in Nat /\ DOMAIN notes = 1..Len(notes)
  BY MineFinite
<1>2. Newest \subseteq Nat /\ Newest = NewestUpTo(Len(notes))
  <2>1. \A i \in Mine : i \in Nat /\ i <= Len(notes)
    BY <1>1 DEF Mine
  <2>2. \A i \in Mine :
           {j \in Mine : j > i} = {j \in Mine : i < j /\ j <= Len(notes)}
    BY <2>1
  <2>3. QED BY <2>1, <2>2 DEF Newest, NewestUpTo
<1>3. x \in Job /\ x.pc = "listed" /\ x.items = Newest /\ x.upto = Len(notes)
  BY <1>1, <1>2 DEF Free, Job
<1>4. JobInv(x, shown)
  BY <1>1, <1>2, <1>3 DEF JobInv
<1>5. QED BY <1>3, <1>4, BeginsKeeps DEF OpenBell

\* A caller that goes on without the page, the rows and the permissions.
LEMMA GoesKeeps ==
    ASSUME BellInv, NEW c \in Callers, NEW x \in Job, JobInv(x, shown),
           job' = [job EXCEPT ![c] = x],
           PermInv', UNCHANGED <<notes, day, pageVars, history>>
    PROVE  BellInv'
<1>1. PageTypes'
  BY CallerJob DEF PageTypes, pageVars
<1>2. QED BY <1>1, CallerMoves, CallerJob DEF history

LEMMA ReadStaffKeeps ==
    ASSUME BellInv, NEW c \in Callers, ReadStaff(c)
    PROVE  BellInv'
<1> DEFINE them == {<<u, role[u]>> : u \in {v \in Users : role[v] # "DRIVER"}}
           x == [job[c] EXCEPT !.pc = "loop", !.staff = them]
<1>1. job[c] \in Job /\ job[c].pc = "staff" /\ PermInv /\ JobInv(job[c], shown)
  BY CallerJob DEF ReadStaff
<1>2. them \in SUBSET (Users \X Roles)
  BY <1>1 DEF PermInv, PermTypeOK
<1>3. x \in Job /\ x.pc = "loop" /\ x.low = job[c].low
  BY <1>1, <1>2 DEF Job
<1>4. JobInv(x, shown)
  BY <1>1, <1>3 DEF JobInv
<1>5. job' = [job EXCEPT ![c] = x]
  BY DEF ReadStaff, BellInv, TypeOK
<1>6. QED BY <1>1, <1>3, <1>4, <1>5, GoesKeeps, PermStays DEF ReadStaff

LEMMA AskNextKeeps ==
    ASSUME BellInv, NEW c \in Callers, AskNext(c)
    PROVE  BellInv'
<1>1. job[c] \in Job /\ job[c].pc = "loop" /\ PermInv /\ JobInv(job[c], shown)
  BY CallerJob DEF AskNext
<1>2. CASE Goes(c, "write") /\ UNCHANGED permVars
  <2> DEFINE x == [job[c] EXCEPT !.pc = "write"]
  <2>1. x \in Job /\ x.pc = "write" /\ x.low = job[c].low
    BY <1>1 DEF Job
  <2>2. JobInv(x, shown)
    BY <1>1, <2>1 DEF JobInv
  <2>3. job' = [job EXCEPT ![c] = x]
    BY <1>2 DEF Goes, BellInv, TypeOK
  <2>4. QED BY <1>1, <1>2, <2>1, <2>2, <2>3, GoesKeeps, PermStays DEF AskNext
<1>3. ASSUME NEW s \in job[c].staff,
             job' = [job EXCEPT ![c].staff = @ \ {s}],
             ask' = [ask EXCEPT ![c] = Asks(s[1], s[2])],
             UNCHANGED <<role, override, cache, begun, had>>
      PROVE  BellInv'
  <2> DEFINE x == [job[c] EXCEPT !.staff = job[c].staff \ {s}]
  <2>1. s[1] \in Users /\ s[2] \in Roles
    BY <1>1, <1>3 DEF Job
  <2>2. Asks(s[1], s[2]) \in Asking /\ AskInv(Asks(s[1], s[2]))
    BY <2>1, AsksIsAsking
  <2>3. ask[c].pc = "idle" /\ begun' \in 0..MaxCalls
    BY <1>1, <1>3 DEF AskNext, PermInv, PermTypeOK
  <2>4. PermInv'
    BY <1>1, <1>3, <2>2, <2>3, AskMoves
  <2>5. x \in Job /\ x.pc = "loop" /\ x.low = job[c].low
    BY <1>1 DEF Job
  <2>6. JobInv(x, shown)
    BY <1>1, <2>5 DEF JobInv
  <2>7. job' = [job EXCEPT ![c] = x]
    BY <1>3 DEF BellInv, TypeOK
  <2>8. QED BY <2>4, <2>5, <2>6, <2>7, GoesKeeps DEF AskNext
<1>4. QED BY <1>2, <1>3 DEF AskNext

LEMMA UseAnswerKeeps ==
    ASSUME BellInv, NEW c \in Callers, UseAnswer(c)
    PROVE  BellInv'
<1> DEFINE them == IF job[c].pc = "loop" /\ ask[c].yes
                   THEN job[c].tell \cup {ask[c].user} ELSE job[c].tell
           x == [job[c] EXCEPT !.tell = them]
<1>1. job[c] \in Job /\ PermInv /\ JobInv(job[c], shown)
  BY CallerJob
<1>2. ask[c].pc = "answered" /\ ask[c].user \in Users /\ begun \in 0..MaxCalls
  BY <1>1, CallerFacts DEF UseAnswer, AskInv
<1>3. PermInv'
  BY <1>1, <1>2, QuietIsAsking, AskMoves DEF UseAnswer
<1>4. x \in Job /\ x.pc = job[c].pc /\ x.low = job[c].low
      /\ x.upto = job[c].upto /\ x.items = job[c].items
  BY <1>1, <1>2 DEF Job
<1>5. JobInv(x, shown)
  BY <1>1, <1>4 DEF JobInv
<1>6. job' = [job EXCEPT ![c] = x]
  BY DEF UseAnswer, BellInv, TypeOK
<1>7. QED BY <1>3, <1>4, <1>5, <1>6, GoesKeeps DEF UseAnswer

\* What a caller does after a write: nothing, or count for the streams.
LEMMA PushToMoves ==
    ASSUME BellInv, NEW c \in Callers, NEW told \in BOOLEAN, PushTo(c, told)
    PROVE  \E x \in Job : /\ job' = [job EXCEPT ![c] = x]
                         /\ x.pc \in {"idle", "count"}
<1>1. stream.no \in Nat
  BY DEF BellInv, TypeOK
<1> DEFINE x == [Free EXCEPT !.pc = "count", !.stream = stream.no]
<1>2. x \in Job /\ x.pc = "count"
  BY <1>1 DEF Free, Job
<1>3. Free \in Job /\ Free.pc = "idle"
  BY DEF Free, Job
<1>4. QED BY <1>2, <1>3 DEF PushTo, Ends

LEMMA WriteNotesKeeps ==
    ASSUME BellInv, NEW c \in Callers, WriteNotes(c)
    PROVE  BellInv'
<1> DEFINE low == job[c].low
           rows == Written(job[c], day)
           n == Len(notes)
<1>1. job[c] \in Job /\ job[c].pc = "write" /\ PermInv /\ PageTypes
      /\ notes \in Seq(Row) /\ day \in Nat /\ JobInv(job[c], shown)
  BY CallerJob DEF WriteNotes
<1>2. low \in BOOLEAN /\ job[c].tell \in SUBSET (Users \cup Partners)
  BY <1>1 DEF Job
<1>3. /\ rows \in Seq(Row)
      /\ \A i \in 1..Len(rows) : /\ rows[i].low = low /\ rows[i].day = day
                                 /\ ~rows[i].read
      /\ \A i, j \in 1..Len(rows) : rows[i].user = rows[j].user => i = j
  BY <1>1, WrittenRows
<1>4. /\ notes' = notes \o rows /\ day' = day
      /\ overlapped' = IF low /\ \E d \in Callers \ {c} : Warning(d)
                       THEN overlapped \cup {day} ELSE overlapped
      /\ PushTo(c, Viewer \in job[c].tell)
      /\ UNCHANGED <<permVars, pageVars, shown, excused>>
  BY DEF WriteNotes, Written
<1> HIDE DEF rows, low
<1>5. PICK x \in Job : job' = [job EXCEPT ![c] = x] /\ x.pc \in {"idle", "count"}
  <2> DEFINE told == Viewer \in job[c].tell
  <2>1. told \in BOOLEAN /\ PushTo(c, told)
    BY <1>4
  <2> HIDE DEF told
  <2>2. QED BY <2>1, PushToMoves
<1>6. /\ notes' \in Seq(Row) /\ n \in Nat /\ Len(rows) \in Nat
      /\ Len(notes') = n + Len(rows)
      /\ DOMAIN notes = 1..n /\ DOMAIN notes' = 1..(n + Len(rows))
      /\ \A i \in 1..n : notes'[i] = notes[i]
      /\ \A i \in (n + 1)..(n + Len(rows)) :
            i - n \in 1..Len(rows) /\ notes'[i] = rows[i - n]
  BY <1>1, <1>3, <1>4
<1>7. \A i \in DOMAIN notes' :
        \/ i \in DOMAIN notes /\ notes'[i] = notes[i]
        \/ /\ i \notin DOMAIN notes /\ notes'[i].low = low
           /\ notes'[i].day = day /\ ~notes'[i].read
  BY <1>3, <1>6
<1>8. overlapped' \subseteq Nat /\ overlapped \subseteq overlapped'
  BY <1>1, <1>4 DEF BellInv, TypeOK
<1>9. PermInv' /\ PageTypes'
  BY <1>1, <1>4, PermStays DEF PageTypes, pageVars
<1>10. TypeOK'
  BY <1>1, <1>4, <1>5, <1>6, <1>8, <1>9 DEF BellInv, TypeOK, PageTypes, PermInv
<1>11. low => ~WarnedToday \/ day \in overlapped
  BY <1>1 DEF JobInv, low
<1>12. Once'
  <2>1. \A i \in DOMAIN notes' : notes'[i].day <= day'
    BY <1>1, <1>4, <1>7 DEF BellInv, Once
  <2>2. ASSUME NEW i \in DOMAIN notes', NEW j \in DOMAIN notes', i # j,
               notes'[i].low, notes'[j].low,
               notes'[i].user = notes'[j].user, notes'[i].day = notes'[j].day
        PROVE  notes'[i].day \in overlapped'
    <3>1. CASE i \in DOMAIN notes /\ j \in DOMAIN notes
      BY <1>6, <1>8, <2>2, <3>1 DEF BellInv, Once
    <3>2. CASE i \notin DOMAIN notes /\ j \notin DOMAIN notes
      <4>1. i \in (n + 1)..(n + Len(rows)) /\ j \in (n + 1)..(n + Len(rows))
        BY <1>6, <3>2
      <4>2. rows[i - n].user = rows[j - n].user /\ i - n # j - n
            /\ i - n \in 1..Len(rows) /\ j - n \in 1..Len(rows)
        BY <1>6, <2>2, <4>1
      <4>3. QED BY <1>3, <4>2
    <3>3. ASSUME NEW a \in DOMAIN notes', NEW b \in DOMAIN notes',
                 a \in DOMAIN notes, b \notin DOMAIN notes,
                 notes'[a].low, notes'[b].low, notes'[a].day = notes'[b].day
          PROVE  notes'[a].day \in overlapped'
      <4>1. notes[a].low /\ notes[a].day = day /\ low /\ notes'[a].day = day
        BY <1>7, <3>3
      <4>2. WarnedToday
        BY <3>3, <4>1 DEF WarnedToday
      <4>3. QED BY <1>8, <1>11, <4>1, <4>2
    <3>4. QED BY <2>2, <3>1, <3>2, <3>3
  <2>3. QED BY <2>1, <2>2 DEF Once
<1>13. ReadWasShown'
  <2>1. ASSUME NEW i \in Mine', notes'[i].read
        PROVE  i \in (shown \cup excused)'
    <3>1. i \in DOMAIN notes' /\ notes'[i].user = Viewer
      BY DEF Mine
    <3>2. i \in DOMAIN notes /\ notes'[i] = notes[i]
      BY <1>7, <2>1, <3>1
    <3>3. QED BY <1>4, <2>1, <3>1, <3>2 DEF BellInv, ReadWasShown, Mine
  <2>2. QED BY <2>1 DEF ReadWasShown
<1>14. ASSUME NEW d \in Callers
       PROVE  JobInv(job[d], shown)'
  <2>1. CASE d = c
    <3>1. job'[d] = x
      BY <1>5, <2>1 DEF BellInv, TypeOK
    <3>2. QED BY <1>5, <3>1 DEF JobInv
  <2>2. CASE d # c
    <3>1. job'[d] = job[d] /\ JobInv(job[d], shown) /\ shown' = shown
      BY <1>4, <1>5, <2>2 DEF BellInv, TypeOK
    <3>2. ASSUME job[d].low, job[d].pc \in {"staff", "loop", "write"}
          PROVE  ~WarnedToday' \/ day' \in overlapped'
      <4>1. CASE low
        BY <1>4, <2>2, <3>2, <4>1 DEF Warning
      <4>2. CASE ~low
        <5>1. WarnedToday' => WarnedToday
          BY <1>4, <1>7, <4>2 DEF WarnedToday
        <5>2. QED BY <1>4, <1>8, <3>1, <3>2, <5>1 DEF JobInv
      <4>3. QED BY <4>1, <4>2
    <3>3. ASSUME NEW m \in 0..n
          PROVE  NewestUpTo(m)' = NewestUpTo(m)
      <4>1. \A i : i \in Mine' /\ i <= m <=> i \in Mine /\ i <= m
        BY <1>6 DEF Mine
      <4>2. \A i : {j \in Mine' : i < j /\ j <= m} = {j \in Mine : i < j /\ j <= m}
        BY <4>1
      <4>3. QED BY <4>1, <4>2 DEF NewestUpTo
    <3>4. job[d].pc \in {"listed", "readAll"} =>
             /\ job[d].upto \in 0..Len(notes')
             /\ job[d].items = NewestUpTo(job[d].upto)
             /\ job[d].upto \in 0..n
      BY <1>6, <3>1 DEF JobInv
    <3>5. QED BY <3>1, <3>2, <3>3, <3>4 DEF JobInv
  <2>3. QED BY <2>1, <2>2
<1>15. QED BY <1>9, <1>10, <1>12, <1>13, <1>14 DEF BellInv

LEMMA PushingKeeps ==
    ASSUME BellInv, NEW c \in Callers, Pushing(c)
    PROVE  BellInv'
<1>1. job[c] \in Job /\ PermInv /\ PageTypes /\ shown \subseteq Nat
  BY CallerJob
<1>2. PermInv'
  BY <1>1, PermStays DEF Pushing, Count, Send
<1>3. Cardinality(Unread) \in Nat
  BY MineFinite DEF Unread
<1>4. CASE Count(c)
  <2> DEFINE x == [job[c] EXCEPT !.pc = "send", !.count = Cardinality(Unread)]
  <2>1. x \in Job /\ x.pc = "send"
    BY <1>1, <1>3 DEF Job
  <2>2. JobInv(x, shown)
    BY <2>1 DEF JobInv
  <2>3. job' = [job EXCEPT ![c] = x]
    BY <1>4 DEF Count, BellInv, TypeOK
  <2>4. QED BY <1>2, <1>4, <2>1, <2>2, <2>3, GoesKeeps DEF Count
<1>5. CASE Send(c)
  <2>1. Free \in Job /\ JobInv(Free, shown)
    BY FreeIsJob DEF Free, JobInv
  <2>2. job[c].count \in Nat
    BY <1>1 DEF Job
  <2> DEFINE more == Append(stream.sent, job[c].count)
             st == [stream EXCEPT !.sent = more]
  <2>6. more \in Seq(Nat) /\ stream \in [open : BOOLEAN, no : Nat, sent : Seq(Nat)]
    BY <1>1, <2>2 DEF PageTypes
  <2>7. stream' = st \/ stream' = stream
    BY <1>5 DEF Send
  <2> HIDE DEF more
  <2>8. st \in [open : BOOLEAN, no : Nat, sent : Seq(Nat)]
    BY <2>6
  <2>3. stream' \in [open : BOOLEAN, no : Nat, sent : Seq(Nat)]
    BY <2>6, <2>7, <2>8
  <2>4. PageTypes'
    BY <1>1, <1>5, <2>3 DEF Send, PageTypes
  <2>5. QED BY <1>1, <1>2, <1>5, <2>1, <2>4, CallerMoves DEF Send, Ends, history
<1>6. QED BY <1>4, <1>5 DEF Pushing

LEMMA ShowListKeeps ==
    ASSUME BellInv, NEW c \in Callers, ShowList(c)
    PROVE  BellInv'
<1>1. job[c] \in Job /\ job[c].pc = "listed" /\ PermInv /\ PageTypes
      /\ shown \subseteq Nat /\ JobInv(job[c], shown)
  BY CallerJob DEF ShowList
<1>2. shown' = shown \cup job[c].items /\ shown' \subseteq Nat
  BY <1>1 DEF ShowList, Job
<1>3. PermInv' /\ PageTypes'
  BY <1>1, PermStays DEF ShowList, PageTypes, pageVars
<1>4. CASE Goes(c, "readAll")
  <2> DEFINE x == [job[c] EXCEPT !.pc = "readAll"]
  <2>1. x \in Job /\ x.pc = "readAll" /\ x.items = job[c].items
        /\ x.upto = job[c].upto
    BY <1>1 DEF Job
  <2>2. JobInv(x, shown')
    BY <1>1, <1>2, <2>1 DEF JobInv
  <2>3. job' = [job EXCEPT ![c] = x]
    BY <1>4 DEF Goes, BellInv, TypeOK
  <2>4. QED BY <1>2, <1>3, <2>1, <2>2, <2>3, CallerMoves DEF ShowList
<1>5. CASE Ends(c)
  <2>1. Free \in Job /\ JobInv(Free, shown')
    BY FreeIsJob DEF Free, JobInv
  <2>2. QED BY <1>2, <1>3, <1>5, <2>1, CallerMoves DEF ShowList, Ends
<1>6. QED BY <1>4, <1>5 DEF ShowList

LEMMA MarkingLostKeeps ==
    ASSUME BellInv, NEW c \in Callers, MarkingLost(c)
    PROVE  BellInv'
<1>1. PermInv /\ PageTypes /\ shown \subseteq Nat
  BY CallerJob
<1>2. PermInv' /\ PageTypes'
  BY <1>1, PermStays DEF MarkingLost, PageTypes
<1>3. Free \in Job /\ JobInv(Free, shown)
  BY FreeIsJob DEF Free, JobInv
<1>4. QED BY <1>1, <1>2, <1>3, CallerMoves DEF MarkingLost, Ends, history

\* Everything is marked: a row was on the list, came after it or was too old.
LEMMA MarkAllReadKeeps ==
    ASSUME BellInv, NEW c \in Callers, MarkAllRead(c)
    PROVE  BellInv'
<1> DEFINE n == Len(notes)
           upto == job[c].upto
           Marked(i) == [notes[i] EXCEPT !.read = @ \/ notes[i].user = Viewer]
<1>1. job[c] \in Job /\ job[c].pc = "readAll" /\ PermInv /\ PageTypes
      /\ excused \subseteq Nat /\ notes \in Seq(Row) /\ JobInv(job[c], shown)
  BY CallerJob DEF MarkAllRead
<1>2. n \in Nat /\ DOMAIN notes = 1..n
  BY MineFinite
<1>3. notes' = [i \in 1..n |-> Marked(i)]
  BY <1>2 DEF MarkAllRead
<1>4. \A i \in 1..n : /\ Marked(i) \in Row /\ Marked(i).user = notes[i].user
                      /\ Marked(i).low = notes[i].low
                      /\ Marked(i).day = notes[i].day
  <2>1. \A i \in 1..n : notes[i] \in Row
    BY <1>1, <1>2
  <2>2. QED BY <2>1 DEF Row
<1> HIDE DEF Marked
<1>5. notes' \in [1..n -> Row] /\ \A i \in 1..n : notes'[i] = Marked(i)
  BY <1>3, <1>4
<1>6. notes' \in Seq(Row) /\ Len(notes') = n
  BY <1>2, <1>5, FunctionIsSeq
<1>7. \E x \in Job : job' = [job EXCEPT ![c] = x] /\ x.pc \in {"idle", "count"}
  BY PushToMoves DEF MarkAllRead
<1>8. PermInv' /\ PageTypes'
  BY <1>1, PermStays DEF MarkAllRead, PageTypes, pageVars
<1>9. excused' = excused \cup OffTheList(c) /\ excused' \subseteq Nat
  BY <1>1, <1>2 DEF MarkAllRead, OffTheList, Unread, Mine
<1>10. ASSUME NEW i \in Mine, ~notes[i].read
       PROVE  i \in shown \cup OffTheList(c)
  <2> DEFINE since == {j \in Mine : i < j /\ j <= upto}
  <2>1. Cardinality(since) \in Nat /\ i \in Nat
    BY <1>2, MineFinite DEF Mine
  <2>2. CASE i > upto \/ Cardinality(since) >= Page
    BY <1>10, <2>2 DEF OffTheList, Unread
  <2>3. CASE i <= upto /\ Cardinality(since) < Page
    BY <1>1, <2>3 DEF JobInv, NewestUpTo
  <2>4. upto \in Nat
    BY <1>1 DEF Job
  <2>5. QED BY <2>1, <2>2, <2>3, <2>4
<1>11. Mine' = Mine
  <2>1. DOMAIN notes' = 1..n
    BY <1>5
  <2>2. QED BY <1>2, <1>4, <1>5, <2>1 DEF Mine
<1>12. ReadWasShown'
  BY <1>9, <1>10, <1>11 DEF MarkAllRead, ReadWasShown, BellInv
<1>13. \A i \in 1..n : /\ notes'[i].user = notes[i].user
                      /\ notes'[i].low = notes[i].low
                      /\ notes'[i].day = notes[i].day
  BY <1>4, <1>5
<1>14. PICK x \in Job : job' = [job EXCEPT ![c] = x] /\ x.pc \in {"idle", "count"}
  BY <1>7
<1>15. QED
  BY <1>6, <1>8, <1>9, <1>12, <1>13, <1>14, RowsMarked DEF MarkAllRead

LEMMA MarkReadKeeps ==
    ASSUME BellInv, NEW c \in Callers, NEW i \in Mine, MarkRead(c, i)
    PROVE  BellInv'
<1> DEFINE n == Len(notes)
           x == [notes[i] EXCEPT !.read = TRUE]
<1>1. PermInv /\ PageTypes /\ excused \subseteq Nat /\ notes \in Seq(Row)
  BY CallerJob
<1>2. n \in Nat /\ DOMAIN notes = 1..n /\ i \in 1..n /\ i \in shown
  BY MineFinite DEF Mine, MarkRead
<1>3. x \in Row /\ x.user = notes[i].user /\ x.low = notes[i].low
      /\ x.day = notes[i].day
  <2>1. notes[i] \in Row
    BY <1>1, <1>2
  <2>2. QED BY <2>1 DEF Row
<1>4. notes' = [notes EXCEPT ![i] = x]
  BY <1>1 DEF MarkRead
<1> HIDE DEF x
<1>5. /\ notes' \in Seq(Row) /\ Len(notes') = n /\ DOMAIN notes' = 1..n
      /\ \A j \in 1..n : notes'[j] = IF j = i THEN x ELSE notes[j]
  BY <1>1, <1>2, <1>3, <1>4
<1>6. \E y \in Job : job' = [job EXCEPT ![c] = y] /\ y.pc \in {"idle", "count"}
  BY PushToMoves DEF MarkRead
<1>7. PermInv' /\ PageTypes'
  BY <1>1, BeginsPerm DEF MarkRead, PageTypes, pageVars
<1>8. ReadWasShown'
  BY <1>2, <1>3, <1>5 DEF MarkRead, ReadWasShown, Mine, BellInv, history
<1>9. \A j \in 1..n : /\ notes'[j].user = notes[j].user
                     /\ notes'[j].low = notes[j].low
                     /\ notes'[j].day = notes[j].day
  BY <1>3, <1>5
<1>10. PICK y \in Job : job' = [job EXCEPT ![c] = y] /\ y.pc \in {"idle", "count"}
  BY <1>6
<1>11. QED
  BY <1>1, <1>5, <1>7, <1>8, <1>9, <1>10, RowsMarked DEF MarkRead, history

\* The page and its stream.
LEMMA PageKeeps ==
    ASSUME BellInv,
           \/ \E p \in Polls : ServePoll(p) \/ NumberLost(p)
           \/ PushArrives \/ StreamCut \/ Reconnect
    PROVE  BellInv'
<1>1. PageTypes /\ PermInv
  BY DEF BellInv, TypeOK, PageTypes
<1>2. Cardinality(Unread) \in Nat
  BY MineFinite DEF Unread
<1>3. ASSUME NEW p \in Polls, ServePoll(p) \/ NumberLost(p)
      PROVE  BellInv'
  <2>1. poll[p].count \in Nat
    BY <1>1 DEF PageTypes
  <2>5. poll' \in [Polls -> [pc : {"idle", "answered"}, count : Nat]]
    BY <1>1, <1>2, <1>3
       DEF ServePoll, UnreadCount, NumberArrives, NumberLost, NoPoll, PageTypes
  <2>6. badge' \in Nat /\ events' \in 0..MaxEvents /\ stream' = stream
    BY <1>1, <1>3, <2>1
       DEF ServePoll, UnreadCount, NumberArrives, NumberLost, Event, PageTypes
  <2>2. PageTypes'
    BY <1>1, <2>5, <2>6 DEF PageTypes
  <2>3. PermInv'
    BY <1>1, <1>3, PermStays DEF ServePoll, UnreadCount, NumberArrives, NumberLost
  <2>4. QED
    BY <1>3, <2>2, <2>3, PageMoves
       DEF ServePoll, UnreadCount, NumberArrives, NumberLost, Event
<1>4. CASE PushArrives
  <2>1. Head(stream.sent) \in Nat /\ Tail(stream.sent) \in Seq(Nat)
    BY <1>1, <1>4 DEF PushArrives, PageTypes
  <2>2. PageTypes'
    BY <1>1, <1>4, <2>1 DEF PushArrives, PageTypes
  <2>3. QED BY <1>1, <1>4, <2>2, PageMoves, PermStays DEF PushArrives
<1>5. CASE StreamCut
  <2> DEFINE nothing == <<>>
             st == [stream EXCEPT !.open = FALSE, !.sent = nothing]
  <2>3. nothing \in Seq(Nat)
    OBVIOUS
  <2>4. stream' = st
    BY <1>5 DEF StreamCut
  <2> HIDE DEF nothing
  <2>5. st \in [open : BOOLEAN, no : Nat, sent : Seq(Nat)]
    BY <1>1, <2>3 DEF PageTypes
  <2> HIDE DEF st
  <2>1. PageTypes'
    BY <1>1, <1>5, <2>4, <2>5 DEF StreamCut, Event, PageTypes
  <2>2. QED BY <1>1, <1>5, <2>1, PageMoves, PermStays DEF StreamCut, Event
<1>6. CASE Reconnect
  <2> DEFINE st == [stream EXCEPT !.open = TRUE, !.no = @ + 1]
  <2>5. stream \in [open : BOOLEAN, no : Nat, sent : Seq(Nat)]
    BY <1>1 DEF PageTypes
  <2>6. stream.sent \in Seq(Nat) /\ stream.no + 1 \in Nat
    BY <2>5
  <2>7. st = [[stream EXCEPT !.open = TRUE] EXCEPT !.no = stream.no + 1]
    BY <2>5
  <2>8. [stream EXCEPT !.open = TRUE] \in [open : BOOLEAN, no : Nat, sent : Seq(Nat)]
    BY ONLY <2>5
  <2>3. st \in [open : BOOLEAN, no : Nat, sent : Seq(Nat)]
    BY ONLY <2>6, <2>7, <2>8
  <2>4. stream' = st
    BY <1>6 DEF Reconnect
  <2> HIDE DEF st
  <2>1. PageTypes'
    BY <1>1, <1>6, <2>3, <2>4 DEF Reconnect, PageTypes
  <2>2. QED BY <1>1, <1>6, <2>1, PageMoves, PermStays DEF Reconnect
<1>7. QED BY <1>3, <1>4, <1>5, <1>6

\* At midnight nobody has been warned of the new day.
LEMMA NewDayKeeps ==
    ASSUME BellInv, NewDay
    PROVE  BellInv'
<1>1. PermInv' /\ day \in Nat /\ day' = day + 1
  BY CallerJob, PermStays DEF NewDay, BellInv, TypeOK
<1>2. TypeOK'
  BY <1>1 DEF NewDay, Event, BellInv, TypeOK, PermInv, history
<1>3. \A i \in DOMAIN notes : notes[i] \in Row /\ notes[i].day \in Nat
  <2>1. notes \in Seq(Row)
    BY DEF BellInv, TypeOK
  <2>2. \A i \in DOMAIN notes : notes[i] \in Row
    BY <2>1, MineFinite, ElementOfSeq
  <2>3. QED BY <2>2 DEF Row
<1>4. Once' /\ ~WarnedToday'
  BY <1>1, <1>3 DEF NewDay, BellInv, Once, WarnedToday, history
<1>5. ReadWasShown'
  BY DEF NewDay, BellInv, ReadWasShown, Mine, history
<1>6. \A c \in Callers : JobInv(job[c], shown)'
  <2>1. \A n : NewestUpTo(n)' = NewestUpTo(n)
    BY DEF NewDay, NewestUpTo, Mine
  <2>2. QED BY <1>4, <2>1 DEF NewDay, BellInv, JobInv, history
<1>7. QED BY <1>1, <1>2, <1>4, <1>5, <1>6 DEF BellInv

-----------------------------------------------------------------------------
LEMMA AccessKeeps ==
    ASSUME BellInv, Access
    PROVE  BellInv'
<1>1. PermInv'
  <2>1. PermInv
    BY DEF BellInv
  <2>2. ASSUME NEW c \in Callers, Starts(c) \/ GoesOn(c) PROVE PermInv'
    BY <2>1, <2>2, StartsKeeps, GoesOnKeeps
  <2>3. ASSUME NEW u \in Users, Expire(u) PROVE PermInv'
    BY <2>1, <2>3, ExpireKeeps
  <2>4. QED BY <2>2, <2>3 DEF Access
<1>2. PageTypes'
  BY DEF BellInv, TypeOK, Access, PageTypes, pageVars
<1>3. QED BY <1>1, <1>2, PageMoves DEF Access

LEMMA BellInitKeeps == ASSUME Init PROVE BellInv
<1>1. PermInv
  BY PermInitKeeps DEF Init
<1>2. notes = <<>> /\ DOMAIN notes = {} /\ notes \in Seq(Row)
  BY DEF Init
<1>3. stream \in [open : BOOLEAN, no : Nat, sent : Seq(Nat)]
  <2> DEFINE nothing == <<>>
  <2>1. nothing \in Seq(Nat)
    OBVIOUS
  <2>2. stream = [open |-> TRUE, no |-> 0, sent |-> nothing]
    BY DEF Init
  <2> HIDE DEF nothing
  <2>3. QED BY <2>1, <2>2
<1>4. TypeOK
  BY <1>1, <1>2, <1>3, FreeIsJob DEF Init, TypeOK, PermInv, NoPoll
<1>5. Once /\ ReadWasShown
  BY <1>2 DEF Once, ReadWasShown, Mine
<1>6. \A c \in Callers : JobInv(job[c], shown)
  BY DEF Init, JobInv, Free
<1>7. QED BY <1>1, <1>4, <1>5, <1>6 DEF BellInv

LEMMA BellNextKeeps == BellInv /\ [Next]_vars => BellInv'
<1> SUFFICES ASSUME BellInv, [Next]_vars PROVE BellInv'
  OBVIOUS
<1>1. CASE UNCHANGED vars
  <2>1. PermInv' /\ PageTypes'
    BY <1>1, PermStays DEF vars, BellInv, TypeOK, PageTypes, pageVars
  <2>2. QED BY <1>1, <2>1, PageMoves DEF vars
<1>2. CASE Access
  BY <1>2, AccessKeeps
<1>3. ASSUME NEW c \in Callers,
             \/ LowStock(c) \/ ReadStaff(c) \/ AskNext(c)
             \/ UseAnswer(c) \/ Notify(c) \/ WriteNotes(c) \/ Pushing(c)
             \/ OpenBell(c) \/ ShowList(c) \/ MarkAllRead(c) \/ MarkingLost(c)
             \/ \E i \in Mine : MarkRead(c, i)
      PROVE  BellInv'
  BY <1>3, LowStockKeeps, ReadStaffKeeps, AskNextKeeps, UseAnswerKeeps,
     NotifyKeeps, WriteNotesKeeps, PushingKeeps, OpenBellKeeps, ShowListKeeps,
     MarkAllReadKeeps, MarkingLostKeeps, MarkReadKeeps
<1>4. CASE \/ \E p \in Polls : ServePoll(p) \/ NumberLost(p)
           \/ PushArrives \/ StreamCut \/ Reconnect
  BY <1>4, PageKeeps
<1>5. CASE NewDay
  BY <1>5, NewDayKeeps
<1>6. QED BY <1>1, <1>2, <1>3, <1>4, <1>5 DEF Next

LEMMA BellInvHolds == Spec => []BellInv
BY BellInitKeeps, BellNextKeeps, PTL DEF Spec

\* Permissions, rows, callers and the page keep their types.
THEOREM BellTypes == Spec => []TypeOK
<1>1. BellInv => TypeOK
  BY DEF BellInv
<1>2. QED BY <1>1, BellInvHolds, PTL

\* Whatever changes and readings cross, what is kept for a user answers as the
\* database would, or is late, or is about to be deleted
\* (permissions.service.ts:74), for any number of users and callers.
THEOREM KeptAlwaysCurrent == Spec => []KeptIsCurrent
<1>1. BellInv => KeptIsCurrent
  BY DEF BellInv, PermInv, CacheInv, KeptIsCurrent, Kept
<1>2. QED BY <1>1, BellInvHolds, PTL

\* No answer is of a role the asker has left (permissions.service.ts:52).
THEOREM AnswersAlwaysOfThatRole == Spec => []AnswersOfThatRole
<1>1. BellInv => AnswersOfThatRole
  BY DEF BellInv, PermInv, AskInv, Founded, AnswersOfThatRole
<1>2. QED BY <1>1, BellInvHolds, PTL

\* A day's warning of low stock is written once for each who is told, unless
\* two checks overlapped (notifications.service.ts:245).
THEOREM WarnedAlwaysOnceADay == Spec => []WarnedOnceADay
<1>1. ASSUME BellInv, NEW u \in Users \cup Partners, NEW d \in 0..MaxEvents,
             d \notin overlapped
      PROVE  Cardinality({i \in DOMAIN notes : notes[i].user = u /\ notes[i].low
                                                /\ notes[i].day = d}) <= 1
  <2> DEFINE W == {i \in DOMAIN notes : notes[i].user = u /\ notes[i].low
                                        /\ notes[i].day = d}
  <2>1. \A i, j \in W : i = j
    BY <1>1 DEF BellInv, Once
  <2>2. W = {} \/ \E i \in W : W = {i}
    BY <2>1
  <2>3. Cardinality(W) = 0 \/ Cardinality(W) = 1
    BY <2>2, FS_EmptySet, FS_Singleton
  <2>4. QED BY <2>3
<1>2. BellInv => WarnedOnceADay
  BY <1>1 DEF WarnedOnceADay
<1>3. QED BY <1>2, BellInvHolds, PTL

\* Nothing is marked read that the viewer was not shown, but what came after
\* the list or was too old for it (NotificationBell.jsx:66).
THEOREM ReadAlwaysShown == Spec => []ReadWasShown
<1>1. BellInv => ReadWasShown
  BY DEF BellInv
<1>2. QED BY <1>1, BellInvHolds, PTL
=============================================================================
