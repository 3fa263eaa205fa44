---------------------------- MODULE Permissions ----------------------------
(***************************************************************************)
(* May a user do what a permission names?  The role's defaults, with the   *)
(* user's own exceptions over them, are computed from the database and     *)
(* kept for a minute; a change of either deletes what is kept.  A caller   *)
(* asks (the guard of a request, or a loop over the staff) or changes, and *)
(* the database answers between two of its steps.                          *)
(*                                                                         *)
(* One key stands for all: inventory.view, which every role has by default *)
(* except the driver's (and the partner's, which is alike).                *)
(***************************************************************************)
EXTENDS Naturals, FiniteSets

CONSTANTS Users,     \* those who work at the shop
          Callers,
          Work,      \* bound: what a caller does
          MaxCalls,  \* bound: calls in all
          None

ASSUME PermissionsAssumption ==
    MaxCalls \in Nat /\ None \notin Users /\ IsFiniteSet(Users)

VARIABLES role, override,  \* the database
          cache,
          ask,             \* what a caller is about
          begun,           \* calls so far, for the bound
          had              \* history: the exceptions a user has had

permVars == <<role, override, cache, ask, begun, had>>

Roles == {"ADMIN", "MANAGER", "DRIVER"}
Overrides == {"none", "allowed", "denied"}
ROLE_DEFAULTS == {"ADMIN", "MANAGER"}

Effective(r, o) ==
    \/ r = "ADMIN"
    \/ o = "allowed"
    \/ o = "none" /\ r \in ROLE_DEFAULTS

\* late: computed from what a change had replaced when it was kept.
Entry == [role : Roles, yes : BOOLEAN, late : BOOLEAN]
Asking == [pc : {"idle", "ask", "store", "answered", "override", "role",
                 "invalidate"},
           user : Users \cup {None}, role : Roles \cup {None},
           to : Roles \cup Overrides \cup {None}, yes : BOOLEAN,
           late : BOOLEAN]
Quiet == [pc |-> "idle", user |-> None, role |-> None, to |-> None,
          yes |-> FALSE, late |-> FALSE]

Turn(c, work) ==
    /\ work \in Work[c] /\ ask[c].pc = "idle"
    /\ begun < MaxCalls /\ begun' = begun + 1
Asks(u, r) == [Quiet EXCEPT !.pc = "ask", !.user = u, !.role = r]
Answers(c, yes) == ask' = [ask EXCEPT ![c].pc = "answered", ![c].yes = yes]

-----------------------------------------------------------------------------
\* A request of a user: his role is read before the guard asks.
Request(c, u) ==
    /\ Turn(c, "request")
    /\ ask' = [ask EXCEPT ![c] = Asks(u, role[u])]
    /\ UNCHANGED <<role, override, cache, had>>

\* Mistake: what is kept for a user answers whatever role he asks with.
KeptForAnyRole(u, r) == cache[u] # None
\* What is kept may answer; it is for the role it was computed with.
Kept(u, r) == cache[u] # None /\ cache[u].role = r

AskCached(c) ==
    LET u == ask[c].user IN
    /\ ask[c].pc = "ask"
    /\ \/ ask[c].role = "ADMIN" /\ Answers(c, TRUE)
       \/ ask[c].role # "ADMIN" /\ Kept(u, ask[c].role) /\ Answers(c, cache[u].yes)
    /\ UNCHANGED <<role, override, cache, begun, had>>

AskDatabase(c) ==
    LET u == ask[c].user IN
    /\ ask[c].pc = "ask" /\ ask[c].role # "ADMIN" /\ ~Kept(u, ask[c].role)
    /\ ask' = [ask EXCEPT ![c].pc = "store",
                          ![c].yes = Effective(ask[c].role, override[u])]
    /\ UNCHANGED <<role, override, cache, begun, had>>

Keep(c) ==
    /\ ask[c].pc = "store"
    /\ cache' = [cache EXCEPT ![ask[c].user] =
          [role |-> ask[c].role, yes |-> ask[c].yes, late |-> ask[c].late]]
    /\ Answers(c, ask[c].yes)
    /\ UNCHANGED <<role, override, begun, had>>

\* The minute is over.
Expire(u) ==
    /\ cache[u] # None
    /\ cache' = [cache EXCEPT ![u] = None]
    /\ UNCHANGED <<role, override, ask, begun, had>>

-----------------------------------------------------------------------------
\* applyChanges: nobody takes a permission from an ADMIN.
ChangeOverride(c, u, o) ==
    /\ Turn(c, "override") /\ role[u] # "ADMIN"
    /\ ask' = [ask EXCEPT ![c] = [Quiet EXCEPT !.pc = "override", !.user = u,
                                               !.to = o]]
    /\ UNCHANGED <<role, override, cache, had>>

\* Mistake: what is kept is deleted before the change is written.
WriteOverrideLast(c) ==
    LET u == ask[c].user IN
    /\ ask[c].pc = "override"
    /\ override' = [override EXCEPT ![u] = ask[c].to]
    /\ had' = [had EXCEPT ![u] = @ \cup {ask[c].to}]
    /\ ask' = [ask EXCEPT ![c] = Quiet]
    /\ UNCHANGED <<role, cache, begun>>
WriteOverride(c) ==
    LET u == ask[c].user IN
    /\ ask[c].pc = "override"
    /\ override' = [override EXCEPT ![u] = ask[c].to]
    /\ had' = [had EXCEPT ![u] = @ \cup {ask[c].to}]
    /\ ask' = [d \in Callers |->
          IF d = c THEN [ask[c] EXCEPT !.pc = "invalidate"]
          ELSE IF ask[d].pc = "store" /\ ask[d].user = u
               THEN [ask[d] EXCEPT !.late = TRUE]
          ELSE ask[d]]
    /\ UNCHANGED <<role, cache, begun>>

\* users.service update: what is kept is deleted when the role he had, as
\* read before the write, is another.
ChangeRole(c, u, r) ==
    /\ Turn(c, "role")
    /\ ask' = [ask EXCEPT ![c] = [Quiet EXCEPT !.pc = "role", !.user = u,
                                               !.role = role[u], !.to = r]]
    /\ UNCHANGED <<role, override, cache, had>>

WriteRole(c) ==
    /\ ask[c].pc = "role"
    /\ role' = [role EXCEPT ![ask[c].user] = ask[c].to]
    /\ ask' = [ask EXCEPT ![c] =
          IF ask[c].to # ask[c].role THEN [@ EXCEPT !.pc = "invalidate"]
          ELSE Quiet]
    /\ UNCHANGED <<override, cache, begun, had>>

Invalidate(c) ==
    /\ ask[c].pc = "invalidate"
    /\ cache' = [cache EXCEPT ![ask[c].user] = None]
    /\ ask' = [ask EXCEPT ![c] = Quiet]
    /\ UNCHANGED <<role, override, begun, had>>

PermInit ==
    /\ role \in [Users -> Roles]
    /\ override = [u \in Users |-> "none"]
    /\ cache = [u \in Users |-> None]
    /\ ask = [c \in Callers |-> Quiet]
    /\ begun = 0
    /\ had = [u \in Users |-> {"none"}]

Starts(c) ==
    \E u \in Users :
       \/ Request(c, u)
       \/ \E o \in Overrides : ChangeOverride(c, u, o)
       \/ \E r \in Roles : ChangeRole(c, u, r)
GoesOn(c) ==
    \/ AskCached(c) \/ AskDatabase(c) \/ Keep(c)
    \/ WriteOverride(c) \/ WriteRole(c) \/ Invalidate(c)

-----------------------------------------------------------------------------
PermTypeOK ==
    /\ role \in [Users -> Roles] /\ override \in [Users -> Overrides]
    /\ cache \in [Users -> Entry \cup {None}]
    /\ ask \in [Callers -> Asking]
    /\ begun \in 0..MaxCalls /\ had \in [Users -> SUBSET Overrides]

BeingChanged(u) ==
    \E c \in Callers : ask[c].pc = "invalidate" /\ ask[c].user = u

\* What would answer a user's next request is what the database says now,
\* except before the change that is being made deletes it, or when a reading
\* that the change overtook was kept after it (permissions.service.ts:74), and
\* then only until the minute is over.
KeptIsCurrent ==
    \A u \in Users :
        Kept(u, role[u]) =>
            \/ cache[u].yes = Effective(role[u], override[u])
            \/ cache[u].late
            \/ BeingChanged(u)

\* However changes of roles and readings cross, an answer belongs to the role
\* it was asked for: never what the user might do in the role he left
\* (permissions.service.ts:52).
AnswersOfThatRole ==
    \A c \in Callers :
        ask[c].pc = "answered" =>
            \E o \in had[ask[c].user] :
                ask[c].yes = Effective(ask[c].role, o)
=============================================================================
