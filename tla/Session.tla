------------------------------ MODULE Session -------------------------------
(***************************************************************************)
(* How a browser stays logged in.  Its tabs share one refresh cookie; each *)
(* tab keeps an access token in memory.  A request that is answered 401    *)
(* asks for a new pair once per tab, the other requests of the tab wait    *)
(* for that one, and all are repeated.  The server rotates: it issues a    *)
(* new refresh token, then revokes the one it was shown; a revoked token   *)
(* that comes back revokes every token of the user.                        *)
(*                                                                         *)
(* The network loses requests and answers.  A refresh that reached the     *)
(* server is lost only once the server is through with it.  Sessions are   *)
(* also ended from outside: a password that is changed or reset and a user *)
(* who is deactivated revoke every token, and a week ends the cookie.      *)
(***************************************************************************)
EXTENDS FiniteSets

CONSTANTS Tabs, Calls,
          TabOf,      \* the tab that makes a call
          Restorer,   \* the call with which a tab restores its session
          Tokens,     \* bound: refresh tokens that matter at one time
          Endings,    \* bound: what may end a session from outside
          NoToken, None

ASSUME TabOfAssumption == TabOf \in [Calls -> Tabs]
ASSUME RestorerAssumption ==
    \A t \in Tabs : Restorer[t] \in Calls /\ TabOf[Restorer[t]] = t
ASSUME TokensAssumption == Tokens # {} /\ NoToken \notin Tokens
ASSUME NoCallAssumption == None \notin Calls

VARIABLES online,   \* there is coverage
          active,   \* the user may log in
          cookie,   \* the browser's refresh token
          live,     \* refresh tokens the server has not revoked
          tab, call,
          calm,     \* from now on the network holds and pages stay open
          excused   \* history: something happened that may end a session

sessionVars == <<online, active, cookie, live, tab, call, calm, excused>>

InFlight == {"asked", "read", "issued", "granted", "denied"}
CallState == [pc : {"idle", "sent", "joins", "ended"} \cup InFlight,
              bearer : BOOLEAN,  \* went out with an access token still valid
              again : BOOLEAN,   \* is the repetition after a refresh
              restores : BOOLEAN,
              token : Tokens \cup {NoToken}, new : Tokens \cup {NoToken},
              res : {"", "ok", "refused", "error", "session", "network"}]
Idle == [pc |-> "idle", bearer |-> FALSE, again |-> FALSE, restores |-> FALSE,
         token |-> NoToken, new |-> NoToken, res |-> ""]

CallsOf(t) == {c \in Calls : TabOf[c] = t}
Referenced == {cookie} \cup {call[c].token : c \in Calls}
                       \cup {call[c].new : c \in Calls}
\* jti is random: a token nobody holds any more stands for a new one.
NewTokens == Tokens \ Referenced
LiveWith(token) == (live \cap Referenced) \cup {token}
Loses == ~calm \/ ~online
Ended(res) == [Idle EXCEPT !.pc = "ended", !.res = res]
Sent(t) == [Idle EXCEPT !.pc = "sent", !.bearer = tab[t].access = "fresh"]

-----------------------------------------------------------------------------
\* Mistake: every 401 asks for itself.
AlwaysLeads(t) == TRUE
Leads(t) == tab[t].leader = None

\* Another tab has the same token on its way.
Raced(c) == \E d \in Calls : TabOf[d] # TabOf[c] /\ call[d].pc \in InFlight
                             /\ call[d].token = cookie

AskRefresh(c, restores) ==
    /\ call' = [call EXCEPT ![c] = [Idle EXCEPT !.pc = "asked",
                                      !.token = cookie, !.restores = restores]]
    /\ excused' = (excused \/ Raced(c))

\* An access token that has run out, or whose user is not active, is answered
\* 401; the request asks for a new pair once.
Unauthorized(c) ==
    /\ call[c].pc = "sent" /\ ~(call[c].bearer /\ active) /\ ~call[c].again /\ online
    /\ IF Leads(TabOf[c])
       THEN /\ AskRefresh(c, FALSE)
            /\ tab' = [tab EXCEPT ![TabOf[c]].leader = c]
       ELSE /\ call' = [call EXCEPT ![c] = [Idle EXCEPT !.pc = "joins"]]
            /\ UNCHANGED <<tab, excused>>
    /\ UNCHANGED <<online, active, calm, cookie, live>>

\* The repetition carries a new access token: 401 means the user is not active.
UnauthorizedAgain(c) ==
    /\ call[c].pc = "sent" /\ ~active /\ call[c].again /\ online
    /\ call' = [call EXCEPT ![c] = Ended("session")]
    /\ tab' = [tab EXCEPT ![TabOf[c]].user = FALSE, ![TabOf[c]].access = "none"]
    /\ UNCHANGED <<online, active, calm, cookie, live, excused>>

\* Mistake: only the leader learns how it ended.
LeaderOnly(c) == {c}
Waiting(c) == {c} \cup {d \in CallsOf(TabOf[c]) : call[d].pc = "joins"}

\* A refresh sets the tab's access token, a restore its user too.
TabAfter(c, outcome) ==
    LET row == tab[TabOf[c]] IN
    [open |-> row.open, leader |-> None,
     access |-> IF outcome = "granted" THEN "fresh"
                ELSE IF outcome = "denied" THEN "none" ELSE row.access,
     user |-> /\ outcome # "denied"
              /\ row.user \/ (outcome = "granted" /\ call[c].restores)]

\* The promise of the tab settles: the leader and all who joined it go on.
Settle(c, outcome) ==
    LET t == TabOf[c]
        after(d) == IF call[d].restores THEN Idle
                    ELSE CASE outcome = "granted" ->
                                 [Idle EXCEPT !.pc = "sent", !.bearer = TRUE,
                                              !.again = TRUE]
                           [] outcome = "denied" -> Ended("session")
                           [] OTHER -> Ended("network")
    IN /\ call' = [d \in Calls |-> IF d \in Waiting(c) THEN after(d) ELSE call[d]]
       /\ tab' = [tab EXCEPT ![t] = TabAfter(c, outcome)]

ReadToken(c) ==
    /\ call[c].pc = "asked" /\ online
    /\ call' = [call EXCEPT ![c].pc = IF call[c].token \in live /\ active
                                      THEN "read" ELSE "denied"]
    /\ live' = IF call[c].token \in live \cup {NoToken}
               THEN live ELSE {}
    /\ UNCHANGED <<online, active, calm, cookie, tab, excused>>

IssueTokens(c) ==
    /\ call[c].pc = "read"
    /\ \E token \in NewTokens :
          /\ call' = [call EXCEPT ![c].pc = "issued", ![c].new = token]
          /\ live' = LiveWith(token)
    /\ UNCHANGED <<online, active, calm, cookie, tab, excused>>

RevokeOld(c) ==
    /\ call[c].pc = "issued"
    /\ call' = [call EXCEPT ![c].pc = "granted"]
    /\ live' = live \ {call[c].token}
    /\ UNCHANGED <<online, active, calm, cookie, tab, excused>>

\* Mistake: the new refresh token does not reach the cookie.
CookieStays(c) == cookie
CookieAfter(c) == IF call[c].pc = "granted" THEN call[c].new ELSE cookie
RefreshAnswered(c) ==
    /\ call[c].pc \in {"granted", "denied"} /\ online
    /\ cookie' = CookieAfter(c)
    /\ Settle(c, call[c].pc)
    /\ UNCHANGED <<online, active, calm, live, excused>>

\* The refresh itself is answered 429 or 5xx: taken for a refusal.
RefreshRefused(c) ==
    /\ call[c].pc = "asked" /\ online
    /\ Settle(c, "denied") /\ excused' = TRUE
    /\ UNCHANGED <<online, active, calm, cookie, live>>

\* The refresh is lost on its way there, or its answer on the way back.
RefreshLost(c) ==
    /\ call[c].pc \in {"asked", "granted", "denied"} /\ Loses
    /\ Settle(c, "network")
    /\ excused' = (excused \/ call[c].pc = "granted")
    /\ UNCHANGED <<online, active, calm, cookie, live>>

RefreshStep(c) ==
    \/ ReadToken(c) \/ IssueTokens(c) \/ RevokeOld(c) \/ RefreshAnswered(c)

-----------------------------------------------------------------------------
\* Fifteen minutes pass.
AccessExpires(t) ==
    /\ tab[t].access = "fresh"
    /\ tab' = [tab EXCEPT ![t].access = "stale"]
    /\ UNCHANGED <<online, active, calm, cookie, live, call, excused>>

Login(t) ==
    /\ tab[t].open /\ ~tab[t].user /\ online /\ active /\ tab[t].leader = None
    /\ \E token \in NewTokens : cookie' = token /\ live' = LiveWith(token)
    /\ tab' = [tab EXCEPT ![t].user = TRUE, ![t].access = "fresh"]
    /\ UNCHANGED <<online, active, calm, call, excused>>

\* The page does not wait for the logout's answer.  The logout is an ordinary
\* request: without coverage, or with an access token run out, it does nothing
\* at the server, and the cookie stays.
Logout(t) ==
    /\ tab[t].user
    /\ \/ /\ tab[t].access = "fresh" /\ online /\ active
          /\ live' = live \ {cookie} /\ cookie' = NoToken
       \/ UNCHANGED <<live, cookie>>
    /\ tab' = [tab EXCEPT ![t].user = FALSE, ![t].access = "none"]
    /\ excused' = TRUE
    /\ UNCHANGED <<online, active, calm, call>>

\* Every token of the user is revoked.  The pair a change of password issues
\* reaches the page, which keeps the access token only; the cookie stays the
\* old one and its successor is nobody's.
ChangePassword(t) ==
    /\ "change" \in Endings
    /\ tab[t].user /\ tab[t].access = "fresh" /\ online /\ active
    /\ live' = {} /\ excused' = TRUE
    /\ UNCHANGED <<online, active, calm, cookie, tab, call>>

\* An administrator resets the password, or deactivates the user; the user may
\* be made active again.
ResetPassword ==
    /\ "reset" \in Endings
    /\ live' = {} /\ excused' = TRUE
    /\ UNCHANGED <<online, active, calm, cookie, tab, call>>
Deactivate ==
    /\ "deactivate" \in Endings
    /\ active' = FALSE /\ live' = {} /\ excused' = TRUE
    /\ UNCHANGED <<online, calm, cookie, tab, call>>
Activate ==
    /\ "deactivate" \in Endings /\ ~active /\ active' = TRUE
    /\ UNCHANGED <<online, calm, cookie, live, tab, call, excused>>

\* A week passes without a refresh: the browser drops the cookie, and the
\* server would refuse its token without taking it for stolen.
CookieExpires ==
    /\ "week" \in Endings /\ cookie # NoToken
    /\ \A c \in Calls : call[c].pc \notin InFlight
    /\ cookie' = NoToken /\ excused' = TRUE
    /\ UNCHANGED <<online, active, calm, live, tab, call>>

\* A page is closed, killed by the telephone or reloaded: its memory is gone.
ClosePage(t) ==
    /\ tab[t].open /\ ~calm
    /\ \A c \in CallsOf(t) : call[c].pc \notin {"read", "issued"}
    /\ tab' = [tab EXCEPT ![t] = [open |-> FALSE, user |-> FALSE,
                                  access |-> "none", leader |-> None]]
    /\ call' = [c \in Calls |-> IF TabOf[c] = t THEN Idle ELSE call[c]]
    /\ excused' = (excused \/ \E c \in CallsOf(t) : call[c].pc = "granted")
    /\ UNCHANGED <<online, active, calm, cookie, live>>

\* The page restores its session from the cookie.
OpenPage(t) ==
    /\ ~tab[t].open
    /\ tab' = [tab EXCEPT ![t].open = TRUE, ![t].leader = Restorer[t]]
    /\ AskRefresh(Restorer[t], TRUE)
    /\ UNCHANGED <<online, active, calm, cookie, live>>

GoOnline ==
    /\ ~online /\ online' = TRUE
    /\ UNCHANGED <<active, calm, cookie, live, tab, call, excused>>
GoOffline ==
    /\ online /\ ~calm /\ online' = FALSE
    /\ UNCHANGED <<active, calm, cookie, live, tab, call, excused>>
CalmDown ==
    /\ ~calm /\ calm' = TRUE
    /\ UNCHANGED <<online, active, cookie, live, tab, call, excused>>

\* Any request of a page, and how it ends; OfflineQueue says what they do.
Ask(c) ==
    /\ tab[TabOf[c]].user /\ call[c].pc = "idle"
    /\ call' = [call EXCEPT ![c] = Sent(TabOf[c])]
    /\ UNCHANGED <<online, active, calm, cookie, live, tab, excused>>
Reply(c) ==
    /\ call[c].pc = "sent" /\ ((call[c].bearer /\ active) \/ Loses)
    /\ call' = [call EXCEPT ![c] = Idle]
    /\ UNCHANGED <<online, active, calm, cookie, live, tab, excused>>
Acknowledge(c) ==
    /\ call[c].pc = "ended"
    /\ call' = [call EXCEPT ![c] = Idle]
    /\ UNCHANGED <<online, active, calm, cookie, live, tab, excused>>

SessionInit ==
    /\ online = TRUE /\ active = TRUE /\ calm = FALSE /\ cookie \in Tokens /\ live = {cookie}
    /\ tab = [t \in Tabs |-> [open |-> FALSE, user |-> FALSE,
                              access |-> "none", leader |-> None]]
    /\ call = [c \in Calls |-> Idle]
    /\ excused = FALSE

\* What the session does by itself, beside the requests made in it.
SessionNext ==
    \/ \E c \in Calls : Unauthorized(c) \/ UnauthorizedAgain(c) \/ RefreshStep(c)
                        \/ RefreshRefused(c) \/ RefreshLost(c)
    \/ \E t \in Tabs : AccessExpires(t) \/ Login(t) \/ Logout(t) \/ OpenPage(t)
                       \/ ChangePassword(t)
    \/ ResetPassword \/ Deactivate \/ Activate \/ CookieExpires

SessionSpec ==
    /\ SessionInit
    /\ [][\/ SessionNext \/ GoOnline \/ GoOffline
          \/ \E c \in Calls : Ask(c) \/ Reply(c) \/ Acknowledge(c)
          \/ \E t \in Tabs : ClosePage(t)]_sessionVars

SessionTypeOK ==
    /\ online \in BOOLEAN /\ active \in BOOLEAN /\ calm \in BOOLEAN /\ excused \in BOOLEAN
    /\ cookie \in Tokens \cup {NoToken}
    /\ live \subseteq Tokens
    /\ tab \in [Tabs -> [open : BOOLEAN, user : BOOLEAN,
                         access : {"none", "stale", "fresh"},
                         leader : Calls \cup {None}]]
    /\ call \in [Calls -> CallState]

\* A driver is sent back to the login page only for a reason: a logout, a
\* password changed or reset, a deactivation, a week's absence, an answer of
\* the server that was lost or was an error, or two tabs that refreshed with
\* the same token.  Requests of one tab that fail together
\* never take each other's token for stolen (api.js:98, auth.service.ts:144).
SessionEndsForAReason == \A c \in Calls : call[c].pc = "denied" => excused

\* A request that waits for the tab's refresh does not wait for ever.
JoinersResume == \A c \in Calls : call[c].pc = "joins" ~> call[c].pc # "joins"

\* A cookie the server would take for a stolen token needs the same reasons.
CookieIsLive ==
    ~excused /\ (\A c \in Calls : call[c].pc \notin InFlight) => cookie \in live

\* A change of password ends the old sessions and gives this page a new pair:
\* the comments of auth.service.ts:222 and AuthContext.jsx:49 say so, and
\* api.js:24 that the refresh token comes in the cookie.
ChangedPasswordGoesOn ==
    [][\A t \in Tabs : ChangePassword(t) => cookie' \in live']_sessionVars
=============================================================================
