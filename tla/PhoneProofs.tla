---------------------------- MODULE PhoneProofs -----------------------------
(***************************************************************************)
(* A session ends for a reason only, for every set of tabs and calls and   *)
(* however many requests fail together; and a confirmation the driver was  *)
(* told is kept stays until the server has answered it, for every set of   *)
(* pages, sheets and confirmations.                                        *)
(***************************************************************************)
EXTENDS OfflineQueue, SequenceTheorems, TLAPS

USE TabOfAssumption, RestorerAssumption, TokensAssumption, NoCallAssumption
    DEF TabOfAssumption, RestorerAssumption, TokensAssumption, NoCallAssumption

Before == {"asked", "read", "issued"}   \* the token it showed still counts
After == {"issued", "granted"}          \* the server has issued its new one

\* Only the leader of a tab has a refresh on its way; a closed page does nothing.
Leading ==
    /\ \A c \in Calls : call[c].pc \in InFlight => tab[TabOf[c]].leader = c
    /\ \A t \in Tabs : /\ ~tab[t].open => tab[t].leader = None
                       /\ tab[t].user => tab[t].open
    /\ \A c \in Calls : call[c].pc # "idle" => tab[TabOf[c]].open

\* Nobody shows a token the server would take for stolen: tokens on their way
\* count until they are replaced, no two calls show or get the same one, and
\* the cookie counts or is being replaced.
Sound ==
    /\ \A c \in Calls :
          /\ call[c].pc # "denied"
          /\ call[c].pc \in Before => call[c].token \in live
          /\ call[c].pc \in After => call[c].new \in live /\ call[c].new # cookie
    /\ \A c, d \in Calls :
          call[c].pc \in InFlight /\ call[d].pc \in InFlight =>
             /\ c # d => call[c].token # call[d].token
             /\ call[d].pc \in After => call[c].token # call[d].new
             /\ c # d /\ call[c].pc \in After /\ call[d].pc \in After =>
                   call[c].new # call[d].new
    /\ cookie \in live \/ \E c \in Calls : call[c].pc = "granted" /\ call[c].token = cookie

SessionInv == SessionTypeOK /\ Leading /\ (excused \/ Sound) /\ (active \/ excused)

-----------------------------------------------------------------------------
(* The records the steps write.                                            *)

TabRow == [open : BOOLEAN, user : BOOLEAN, access : {"none", "stale", "fresh"},
           leader : Calls \cup {None}]

LEMMA IdleCall == Idle \in CallState /\ Idle.pc = "idle"
BY DEF Idle, CallState

LEMMA PcCall ==
    ASSUME NEW k \in CallState,
           NEW p \in {"idle", "sent", "joins", "ended"} \cup InFlight
    PROVE  /\ [k EXCEPT !.pc = p] \in CallState /\ [k EXCEPT !.pc = p].pc = p
           /\ [k EXCEPT !.pc = p].token = k.token /\ [k EXCEPT !.pc = p].new = k.new
           /\ [k EXCEPT !.pc = p].restores = k.restores
BY DEF CallState

LEMMA EndedCall ==
    ASSUME NEW res \in {"", "ok", "refused", "error", "session", "network"}
    PROVE  Ended(res) \in CallState /\ Ended(res).pc = "ended" /\ Ended(res).res = res
<1>1. [Idle EXCEPT !.pc = "ended"] \in CallState
  BY IdleCall DEF CallState
<1>2. Ended(res) = [[Idle EXCEPT !.pc = "ended"] EXCEPT !.res = res]
  BY IdleCall DEF Ended, CallState
<1>3. QED BY <1>1, <1>2 DEF CallState

LEMMA SentCall ==
    ASSUME NEW t
    PROVE  Sent(t) \in CallState /\ Sent(t).pc = "sent"
<1>1. [Idle EXCEPT !.pc = "sent"] \in CallState
  BY IdleCall DEF CallState
<1>2. (tab[t].access = "fresh") \in BOOLEAN
  OBVIOUS
<1>3. Sent(t) = [[Idle EXCEPT !.pc = "sent"] EXCEPT !.bearer = (tab[t].access = "fresh")]
  BY IdleCall DEF Sent, CallState
<1>4. QED BY <1>1, <1>2, <1>3 DEF CallState

Joined == [Idle EXCEPT !.pc = "joins"]
Repeated == [Idle EXCEPT !.pc = "sent", !.bearer = TRUE, !.again = TRUE]
LEMMA SettledCalls ==
    /\ Joined \in CallState /\ Joined.pc = "joins"
    /\ Repeated \in CallState /\ Repeated.pc = "sent"
<1>1. Joined \in CallState /\ Joined.pc = "joins"
  BY IdleCall DEF Joined, CallState
<1>2. [Idle EXCEPT !.pc = "sent"] \in CallState
  BY IdleCall DEF CallState
<1> DEFINE sent == [[Idle EXCEPT !.pc = "sent"] EXCEPT !.bearer = TRUE]
<1>3. sent \in CallState /\ sent.pc = "sent"
  BY <1>2 DEF CallState
<1>4. Repeated = [sent EXCEPT !.again = TRUE]
  BY IdleCall DEF Repeated, CallState
<1> HIDE DEF sent
<1>5. QED BY <1>1, <1>3, <1>4 DEF CallState

Asked(restores) == [Idle EXCEPT !.pc = "asked", !.token = cookie, !.restores = restores]
LEMMA AskedCall ==
    ASSUME SessionTypeOK, NEW restores \in BOOLEAN
    PROVE  /\ Asked(restores) \in CallState /\ Asked(restores).pc = "asked"
           /\ Asked(restores).token = cookie /\ Asked(restores).restores = restores
<1>1. [Idle EXCEPT !.pc = "asked"] \in CallState
  BY IdleCall DEF CallState, InFlight
<1>2. [[Idle EXCEPT !.pc = "asked"] EXCEPT !.token = cookie] \in CallState
  BY <1>1 DEF CallState, SessionTypeOK
<1>3. Asked(restores) = [[[Idle EXCEPT !.pc = "asked"] EXCEPT !.token = cookie]
                            EXCEPT !.restores = restores]
  BY IdleCall DEF Asked, CallState
<1>4. QED BY <1>1, <1>2, <1>3 DEF CallState

-----------------------------------------------------------------------------
(* Steps that keep what is on its way, or less.                            *)

\* Calls only stop being on their way, and none that holds the cookie's
\* successor does.
LEMMA SoundFewer ==
    ASSUME Sound, UNCHANGED <<cookie, live>>,
           \A c \in Calls : call'[c].pc \in InFlight => call'[c] = call[c],
           \A c \in Calls : call[c].pc = "granted" => call'[c] = call[c]
    PROVE  Sound'
<1>1. \A c \in Calls : call'[c].pc \in Before \cup After \cup {"denied"} =>
         call'[c] = call[c]
  BY DEF Before, After, InFlight
<1>2. \A c \in Calls :
          /\ call'[c].pc # "denied"
          /\ call'[c].pc \in Before => call'[c].token \in live'
          /\ call'[c].pc \in After => call'[c].new \in live' /\ call'[c].new # cookie'
  BY <1>1 DEF Sound, Before, After
<1>3. ASSUME NEW c \in Calls, NEW d \in Calls,
             call'[c].pc \in InFlight, call'[d].pc \in InFlight
      PROVE  /\ c # d => call'[c].token # call'[d].token
             /\ call'[d].pc \in After => call'[c].token # call'[d].new
             /\ c # d /\ call'[c].pc \in After /\ call'[d].pc \in After =>
                   call'[c].new # call'[d].new
  <2>1. call'[c] = call[c] /\ call'[d] = call[d]
    BY <1>3
  <2>2. QED BY <1>3, <2>1 DEF Sound
<1>4. cookie' \in live' \/ \E c \in Calls : call'[c].pc = "granted" /\ call'[c].token = cookie'
  BY DEF Sound
<1>5. QED BY <1>2, <1>3, <1>4 DEF Sound

\* A step of calls and tabs that asks for no refresh.
LEMMA QuietStep ==
    ASSUME SessionInv, UNCHANGED <<cookie, live>>, excused => excused',
           call' \in [Calls -> CallState], tab' \in [Tabs -> TabRow],
           UNCHANGED active, online' \in BOOLEAN, calm' \in BOOLEAN, excused' \in BOOLEAN,
           \A c \in Calls : call'[c].pc \in InFlight =>
              call'[c] = call[c] /\ tab'[TabOf[c]].leader = tab[TabOf[c]].leader,
           \A t \in Tabs : /\ ~tab'[t].open => tab'[t].leader = None
                           /\ tab'[t].user => tab'[t].open,
           \A c \in Calls : call'[c].pc # "idle" => tab'[TabOf[c]].open,
           excused' \/ \A c \in Calls : call[c].pc = "granted" => call'[c] = call[c]
    PROVE  SessionInv'
<1>1. SessionTypeOK'
  BY DEF SessionInv, SessionTypeOK, TabRow
<1>2. Leading'
  <2>1. ASSUME NEW c \in Calls, call'[c].pc \in InFlight
        PROVE  tab'[TabOf[c]].leader = c
    <3>1. /\ call'[c] = call[c] /\ tab'[TabOf[c]].leader = tab[TabOf[c]].leader
          /\ call[c].pc \in InFlight
      BY <2>1
    <3>2. tab[TabOf[c]].leader = c
      BY <3>1 DEF SessionInv, Leading
    <3>3. QED BY <3>1, <3>2
  <2>2. /\ \A t \in Tabs : /\ ~tab'[t].open => tab'[t].leader = None
                           /\ tab'[t].user => tab'[t].open
        /\ \A c \in Calls : call'[c].pc # "idle" => tab'[TabOf[c]].open
    OBVIOUS
  <2>3. \A c \in Calls : call'[c].pc \in InFlight => tab'[TabOf[c]].leader = c
    BY <2>1
  <2>4. QED BY ONLY <2>2, <2>3 DEF Leading
<1>3. ASSUME ~excused' PROVE Sound'
  BY <1>3, SoundFewer DEF SessionInv
<1>4. QED BY <1>1, <1>2, <1>3 DEF SessionInv

LEMMA SessionTypes ==
    ASSUME SessionInv
    PROVE  /\ online \in BOOLEAN /\ active \in BOOLEAN
           /\ calm \in BOOLEAN /\ excused \in BOOLEAN /\ (active \/ excused)
           /\ cookie \in Tokens \cup {NoToken} /\ live \subseteq Tokens
           /\ tab \in [Tabs -> TabRow] /\ call \in [Calls -> CallState]
BY DEF SessionInv, SessionTypeOK, TabRow

\* A call that is not on its way goes on to another such state.
LEMMA QuietCall ==
    ASSUME SessionInv, NEW c \in Calls, NEW k \in CallState,
           call[c].pc \notin InFlight, k.pc \notin InFlight,
           call' = [call EXCEPT ![c] = k],
           k.pc # "idle" => tab[TabOf[c]].open,
           UNCHANGED <<online, active, calm, cookie, live, tab, excused>>
    PROVE  SessionInv'
<1>1. call' \in [Calls -> CallState]
  BY SessionTypes
<1>2. \A d \in Calls : call'[d] = IF d = c THEN k ELSE call[d]
  BY SessionTypes
<1>3. \A d \in Calls : call[d].pc = "granted" => call'[d] = call[d]
  BY <1>2 DEF InFlight
<1>4. /\ \A t \in Tabs : /\ ~tab[t].open => tab[t].leader = None
                         /\ tab[t].user => tab[t].open
      /\ \A d \in Calls : call'[d].pc # "idle" => tab[TabOf[d]].open
  BY <1>2 DEF SessionInv, Leading
<1>5. QED BY <1>1, <1>2, <1>3, <1>4, SessionTypes, QuietStep

\* Rows of tabs.
LEMMA CallTab == ASSUME NEW c \in Calls PROVE TabOf[c] \in Tabs
OBVIOUS

\* When a refresh settles, its tab's waiting calls stop waiting and nothing
\* else moves; what else is on its way belongs to other tabs.
LEMMA SettleFacts ==
    ASSUME SessionInv, NEW c \in Calls, call[c].pc \in InFlight,
           NEW outcome \in {"granted", "denied", "network"}, Settle(c, outcome)
    PROVE  /\ call' \in [Calls -> CallState] /\ tab' \in [Tabs -> TabRow]
           /\ call'[c].pc \notin InFlight
           /\ \A d \in Calls : call'[d].pc \in InFlight =>
                 d # c /\ call'[d] = call[d] /\ TabOf[d] # TabOf[c]
           /\ \A d \in Calls : d # c /\ call[d].pc \in InFlight => call'[d] = call[d]
           /\ \A t \in Tabs : t # TabOf[c] => tab'[t] = tab[t]
           /\ tab'[TabOf[c]].leader = None /\ tab'[TabOf[c]].open
           /\ \A d \in Calls : call'[d].pc # "idle" => call[d].pc # "idle"
<1> DEFINE t == TabOf[c]
           after(d) == IF call[d].restores THEN Idle
                       ELSE CASE outcome = "granted" -> Repeated
                              [] outcome = "denied" -> Ended("session")
                              [] OTHER -> Ended("network")
<1>0. t \in Tabs /\ tab[t] \in TabRow
  BY SessionTypes
<1>1. \A d \in Calls : after(d) \in CallState /\ after(d).pc \notin InFlight
  <2>1. Repeated \in CallState /\ Repeated.pc \notin InFlight
    BY SettledCalls DEF InFlight
  <2>2. Idle \in CallState /\ Idle.pc \notin InFlight
    BY IdleCall DEF InFlight
  <2>3. /\ Ended("session") \in CallState /\ Ended("session").pc \notin InFlight
        /\ Ended("network") \in CallState /\ Ended("network").pc \notin InFlight
    BY EndedCall DEF InFlight
  <2>4. QED BY <2>1, <2>2, <2>3
<1>2. call' = [d \in Calls |-> IF d \in Waiting(c) THEN after(d) ELSE call[d]]
  BY DEF Settle, Repeated
<1> HIDE DEF after
<1>3. call' \in [Calls -> CallState]
  BY <1>1, <1>2, SessionTypes
<1>4. c \in Waiting(c) /\ \A d \in Waiting(c) : d = c \/ call[d].pc = "joins"
  BY DEF Waiting
<1>5. call'[c].pc \notin InFlight
  BY <1>1, <1>2, <1>4
<1>6. ASSUME NEW d \in Calls, d # c, call[d].pc \in InFlight
      PROVE  call'[d] = call[d] /\ TabOf[d] # t
  <2>1. d \notin Waiting(c)
    BY <1>4, <1>6 DEF InFlight
  <2>2. tab[TabOf[d]].leader = d /\ tab[t].leader = c
    BY <1>6 DEF SessionInv, Leading
  <2>3. QED BY <1>2, <1>6, <2>1, <2>2
<1>7. ASSUME NEW d \in Calls, call'[d].pc \in InFlight
      PROVE  d # c /\ call'[d] = call[d]
  <2>1. d \notin Waiting(c)
    BY <1>1, <1>2, <1>7
  <2>2. QED BY <1>2, <1>4, <2>1
<1> DEFINE row == TabAfter(c, outcome)
<1>8. tab' = [tab EXCEPT ![t] = row]
  BY DEF Settle
<1>9. tab[t].open
  BY DEF SessionInv, Leading, InFlight
<1>10. row \in TabRow /\ row.leader = None /\ row.open
  BY <1>0, <1>9, SessionTypes DEF TabAfter, TabRow, CallState
<1> HIDE DEF row
<1>11. /\ tab' \in [Tabs -> TabRow] /\ tab'[t].leader = None /\ tab'[t].open
       /\ \A u \in Tabs : u # t => tab'[u] = tab[u]
  BY <1>0, <1>8, <1>10, SessionTypes
<1>12. \A d \in Calls : call'[d].pc # "idle" => call[d].pc # "idle"
  BY <1>2, <1>4 DEF InFlight
<1>13. QED BY <1>3, <1>5, <1>6, <1>7, <1>11, <1>12

LEMMA SettleKeeps ==
    ASSUME SessionInv, NEW c \in Calls, call[c].pc \in InFlight,
           NEW outcome \in {"granted", "denied", "network"}, Settle(c, outcome),
           UNCHANGED <<active, cookie, live>>, online' \in BOOLEAN, calm' \in BOOLEAN,
           excused' \in BOOLEAN, excused => excused',
           call[c].pc = "granted" => excused'
    PROVE  SessionInv'
<1>1. \A d \in Calls : call'[d].pc \in InFlight =>
         call'[d] = call[d] /\ tab'[TabOf[d]].leader = tab[TabOf[d]].leader
  BY SettleFacts
<1>2. /\ \A t \in Tabs : /\ ~tab'[t].open => tab'[t].leader = None
                         /\ tab'[t].user => tab'[t].open
      /\ \A d \in Calls : call'[d].pc # "idle" => tab'[TabOf[d]].open
  <2>1. /\ \A t \in Tabs : /\ ~tab[t].open => tab[t].leader = None
                           /\ tab[t].user => tab[t].open
        /\ \A d \in Calls : call[d].pc # "idle" => tab[TabOf[d]].open
    BY DEF SessionInv, Leading
  <2>2. /\ \A t \in Tabs : t # TabOf[c] => tab'[t] = tab[t]
        /\ tab'[TabOf[c]].leader = None /\ tab'[TabOf[c]].open
        /\ \A d \in Calls : call'[d].pc # "idle" => call[d].pc # "idle"
    BY SettleFacts
  <2>3. QED BY <2>1, <2>2
<1>3. excused' \/ \A d \in Calls : call[d].pc = "granted" => call'[d] = call[d]
  <2>1. \A d \in Calls : call[d].pc = "granted" => call[d].pc \in InFlight
    BY DEF InFlight
  <2>2. QED BY <2>1, SettleFacts
<1>4. QED BY <1>1, <1>2, <1>3, SettleFacts, QuietStep

\* A refresh that is answered with a new pair: the cookie is its token.
LEMMA AnsweredKeeps ==
    ASSUME SessionInv, NEW c \in Calls, RefreshAnswered(c)
    PROVE  SessionInv'
<1>0. call[c].pc \in InFlight /\ call[c].pc \in {"granted", "denied"}
      /\ Settle(c, call[c].pc)
      /\ cookie' = (IF call[c].pc = "granted" THEN call[c].new ELSE cookie)
      /\ UNCHANGED <<online, active, calm, live, excused>>
  BY DEF RefreshAnswered, InFlight, CookieAfter
<1>1. CASE call[c].pc = "denied"
  <2>1. excused
    BY <1>1 DEF SessionInv, Sound
  <2>2. UNCHANGED <<cookie, live>> /\ Settle(c, "denied")
    BY <1>0, <1>1
  <2>3. QED BY <1>0, <1>1, <2>1, <2>2, SessionTypes, SettleKeeps
<1>2. CASE call[c].pc = "granted"
  <2>0. Settle(c, "granted") /\ cookie' = call[c].new
    BY <1>0, <1>2
  <2>1. /\ call' \in [Calls -> CallState] /\ tab' \in [Tabs -> TabRow]
        /\ \A d \in Calls : call'[d].pc \in InFlight =>
              d # c /\ call'[d] = call[d] /\ TabOf[d] # TabOf[c]
        /\ \A t \in Tabs : t # TabOf[c] => tab'[t] = tab[t]
        /\ tab'[TabOf[c]].leader = None /\ tab'[TabOf[c]].open
        /\ \A d \in Calls : call'[d].pc # "idle" => call[d].pc # "idle"
    BY <1>0, <2>0, SettleFacts
  <2>2. SessionTypeOK'
    <3>1. call[c].new \in Tokens \cup {NoToken}
      BY SessionTypes DEF CallState
    <3>2. QED BY <1>0, <2>0, <2>1, <3>1, SessionTypes DEF SessionTypeOK, TabRow
  <2>3. Leading'
    <3>1. \A d \in Calls : call'[d].pc \in InFlight => tab'[TabOf[d]].leader = d
      BY <2>1 DEF SessionInv, Leading
    <3>2. /\ \A t \in Tabs : /\ ~tab'[t].open => tab'[t].leader = None
                             /\ tab'[t].user => tab'[t].open
          /\ \A d \in Calls : call'[d].pc # "idle" => tab'[TabOf[d]].open
      BY <2>1 DEF SessionInv, Leading
    <3>3. QED BY <3>1, <3>2 DEF Leading
  <2>4. ASSUME ~excused PROVE Sound'
    <3>1. Sound
      BY <2>4 DEF SessionInv
    <3>2. call[c].new \in live /\ call[c].pc \in After
      BY <1>2, <3>1 DEF Sound, After
    <3>3. \A d \in Calls : call'[d].pc \in Before \cup After \cup {"denied"} =>
             d # c /\ call'[d] = call[d] /\ call[d].pc \in InFlight
      BY <2>1 DEF Before, After, InFlight
    <3>4. \A d \in Calls :
            /\ call'[d].pc # "denied"
            /\ call'[d].pc \in Before => call'[d].token \in live'
            /\ call'[d].pc \in After => call'[d].new \in live' /\ call'[d].new # cookie'
      BY <1>0, <2>0, <3>1, <3>2, <3>3 DEF Sound
    <3>5. ASSUME NEW d \in Calls, NEW e \in Calls,
                 call'[d].pc \in InFlight, call'[e].pc \in InFlight
          PROVE  /\ d # e => call'[d].token # call'[e].token
                 /\ call'[e].pc \in After => call'[d].token # call'[e].new
                 /\ d # e /\ call'[d].pc \in After /\ call'[e].pc \in After =>
                       call'[d].new # call'[e].new
      <4>1. call'[d] = call[d] /\ call'[e] = call[e]
        BY <2>1, <3>5
      <4>2. QED BY <3>1, <3>5, <4>1 DEF Sound
    <3>6. cookie' \in live'
      BY <1>0, <2>0, <3>2
    <3>7. QED BY <3>4, <3>5, <3>6 DEF Sound
  <2>5. QED BY <1>0, <2>2, <2>3, <2>4 DEF SessionInv
<1>3. QED BY <1>0, <1>1, <1>2

LEMMA LostKeeps ==
    ASSUME SessionInv, NEW c \in Calls, RefreshLost(c) \/ RefreshRefused(c)
    PROVE  SessionInv'
<1>1. call[c].pc \in InFlight
  BY DEF RefreshLost, RefreshRefused, InFlight
<1>2. CASE RefreshLost(c)
  BY <1>1, <1>2, SettleKeeps, SessionTypes DEF RefreshLost
<1>3. CASE RefreshRefused(c)
  BY <1>1, <1>3, SettleKeeps, SessionTypes DEF RefreshRefused
<1>4. QED BY <1>2, <1>3

-----------------------------------------------------------------------------
(* Steps of a refresh.                                                     *)

\* A call asks for a refresh with the cookie; its tab had none on its way.
LEMMA AskKeeps ==
    ASSUME SessionInv, NEW c \in Calls, NEW restores \in BOOLEAN, AskRefresh(c, restores),
           tab[TabOf[c]].leader = None,
           tab' \in [Tabs -> TabRow], tab'[TabOf[c]].leader = c, tab'[TabOf[c]].open,
           \A t \in Tabs : t # TabOf[c] => tab'[t] = tab[t],
           UNCHANGED <<online, active, calm, cookie, live>>
    PROVE  SessionInv'
<1>0. call' = [call EXCEPT ![c] = Asked(restores)] /\ excused' = (excused \/ Raced(c))
  BY DEF AskRefresh, Asked
<1>1. /\ Asked(restores) \in CallState /\ Asked(restores).pc = "asked"
      /\ Asked(restores).token = cookie
  BY AskedCall DEF SessionInv
<1>2. \A d \in Calls : call'[d] = IF d = c THEN Asked(restores) ELSE call[d]
  BY <1>0, SessionTypes
<1>3. \A d \in Calls : TabOf[d] = TabOf[c] => call[d].pc \notin InFlight
  BY DEF SessionInv, Leading
<1>4. SessionTypeOK'
  <2>1. call' \in [Calls -> CallState] /\ excused' \in BOOLEAN
    BY <1>0, <1>1, SessionTypes
  <2>2. QED BY <2>1, SessionTypes DEF SessionTypeOK, TabRow
<1>5. Leading'
  <2>1. ASSUME NEW d \in Calls, call'[d].pc \in InFlight
        PROVE  tab'[TabOf[d]].leader = d
    <3>1. CASE d = c
      BY <3>1
    <3>2. CASE d # c
      BY <1>2, <1>3, <2>1, <3>2 DEF SessionInv, Leading
    <3>3. QED BY <3>1, <3>2
  <2>2. \A t \in Tabs : /\ ~tab'[t].open => tab'[t].leader = None
                        /\ tab'[t].user => tab'[t].open
    BY DEF SessionInv, Leading
  <2>3. \A d \in Calls : call'[d].pc # "idle" => tab'[TabOf[d]].open
    BY <1>2 DEF SessionInv, Leading
  <2>4. QED BY <2>1, <2>2, <2>3 DEF Leading
<1>6. ASSUME ~excused' PROVE Sound'
  <2>1. Sound /\ ~Raced(c)
    BY <1>0, <1>6 DEF SessionInv
  <2>2. \A d \in Calls : d # c /\ call[d].pc \in InFlight => call[d].token # cookie
    BY <1>3, <2>1 DEF Raced
  <2>3. cookie \in live
    <3>1. ASSUME NEW d \in Calls, call[d].pc = "granted", call[d].token = cookie
          PROVE  FALSE
      <4>1. call[d].pc \in InFlight
        BY <3>1 DEF InFlight
      <4>2. QED BY <1>3, <2>2, <3>1, <4>1
    <3>2. QED BY <2>1, <3>1 DEF Sound
  <2>4. ASSUME NEW d \in Calls
        PROVE  /\ call'[d].pc # "denied"
               /\ call'[d].pc \in Before => call'[d].token \in live'
               /\ call'[d].pc \in After => call'[d].new \in live' /\ call'[d].new # cookie'
    <3>1. CASE d = c
      BY <1>1, <1>2, <2>3, <3>1 DEF After
    <3>2. CASE d # c
      BY <1>2, <2>1, <3>2 DEF Sound
    <3>3. QED BY <3>1, <3>2
  <2>5. ASSUME NEW d \in Calls, NEW e \in Calls,
               call'[d].pc \in InFlight, call'[e].pc \in InFlight
        PROVE  /\ d # e => call'[d].token # call'[e].token
               /\ call'[e].pc \in After => call'[d].token # call'[e].new
               /\ d # e /\ call'[d].pc \in After /\ call'[e].pc \in After =>
                     call'[d].new # call'[e].new
    <3>1. CASE d # c /\ e # c
      BY <1>2, <2>1, <2>5, <3>1 DEF Sound
    <3>2. CASE d = c /\ e = c
      BY <1>1, <1>2, <3>2 DEF After
    <3>3. CASE d = c /\ e # c
      BY <1>1, <1>2, <2>1, <2>2, <2>5, <3>3 DEF Sound, After
    <3>4. CASE d # c /\ e = c
      BY <1>1, <1>2, <2>1, <2>2, <2>5, <3>4 DEF Sound, After
    <3>5. QED BY <3>1, <3>2, <3>3, <3>4
  <2>6. QED BY <2>3, <2>4, <2>5 DEF Sound
<1>7. QED BY <1>0, <1>4, <1>5, <1>6 DEF SessionInv

LEMMA UnauthorizedKeeps ==
    ASSUME SessionInv, NEW c \in Calls, Unauthorized(c)
    PROVE  SessionInv'
<1>1. CASE Leads(TabOf[c])
  <2>1. /\ AskRefresh(c, FALSE) /\ tab[TabOf[c]].leader = None
        /\ tab' = [tab EXCEPT ![TabOf[c]].leader = c]
        /\ UNCHANGED <<online, active, calm, cookie, live>>
    BY <1>1 DEF Unauthorized, Leads
  <2>2. tab' \in [Tabs -> TabRow] /\ tab'[TabOf[c]].leader = c
        /\ tab'[TabOf[c]].open = tab[TabOf[c]].open
        /\ \A t \in Tabs : t # TabOf[c] => tab'[t] = tab[t]
    <3>1. [tab[TabOf[c]] EXCEPT !.leader = c] \in TabRow
      BY SessionTypes DEF TabRow
    <3>2. QED BY <2>1, <3>1, SessionTypes DEF TabRow
  <2>3. tab[TabOf[c]].open
    BY DEF Unauthorized, SessionInv, Leading
  <2>4. QED BY <2>1, <2>2, <2>3, AskKeeps
<1>2. CASE ~Leads(TabOf[c])
  <2>1. /\ call' = [call EXCEPT ![c] = Joined]
        /\ UNCHANGED <<online, active, calm, cookie, live, tab, excused>>
    BY <1>2 DEF Unauthorized, Joined
  <2>2. call[c].pc \notin InFlight
    BY DEF Unauthorized, InFlight
  <2>3. Joined.pc \notin InFlight
    BY SettledCalls DEF InFlight
  <2>4. tab[TabOf[c]].open
    BY DEF Unauthorized, SessionInv, Leading
  <2>5. QED BY <2>1, <2>2, <2>3, <2>4, SettledCalls, QuietCall
<1>3. QED BY <1>1, <1>2

\* The page of a user who is not active goes to the login.
LEMMA UnauthorizedAgainKeeps ==
    ASSUME SessionInv, NEW c \in Calls, UnauthorizedAgain(c)
    PROVE  /\ SessionInv' /\ excused' /\ call[c].pc = "sent"
           /\ call' = [call EXCEPT ![c] = Ended("session")]
           /\ \A t \in Tabs : tab'[t].open = tab[t].open
<1>0. /\ call[c].pc = "sent" /\ ~active
      /\ call' = [call EXCEPT ![c] = Ended("session")]
      /\ tab' = [tab EXCEPT ![TabOf[c]].user = FALSE, ![TabOf[c]].access = "none"]
      /\ UNCHANGED <<online, active, calm, cookie, live, excused>>
  BY DEF UnauthorizedAgain
<1>1. Ended("session") \in CallState /\ Ended("session").pc = "ended"
  BY EndedCall
<1>2. /\ call' \in [Calls -> CallState]
      /\ \A d \in Calls : call'[d] = IF d = c THEN Ended("session") ELSE call[d]
  BY <1>0, <1>1, SessionTypes
<1>3. /\ tab' \in [Tabs -> TabRow]
      /\ \A t \in Tabs : /\ tab'[t].open = tab[t].open /\ tab'[t].leader = tab[t].leader
                         /\ tab'[t].user => tab[t].user
  <2> DEFINE row == [[tab[TabOf[c]] EXCEPT !.user = FALSE] EXCEPT !.access = "none"]
  <2>0. TabOf[c] \in Tabs /\ tab[TabOf[c]] \in TabRow
    BY SessionTypes
  <2>1. /\ row \in TabRow /\ row.open = tab[TabOf[c]].open
        /\ row.leader = tab[TabOf[c]].leader /\ ~row.user
    BY <2>0 DEF TabRow
  <2>2. tab' = [tab EXCEPT ![TabOf[c]] = row]
    BY <1>0, <2>0, SessionTypes
  <2> HIDE DEF row
  <2>3. QED BY <2>0, <2>1, <2>2, SessionTypes
<1>4. \A d \in Calls : call'[d].pc \in InFlight =>
         call'[d] = call[d] /\ tab'[TabOf[d]].leader = tab[TabOf[d]].leader
  BY <1>1, <1>2, <1>3 DEF InFlight
<1>5. /\ \A t \in Tabs : /\ ~tab'[t].open => tab'[t].leader = None
                         /\ tab'[t].user => tab'[t].open
      /\ \A d \in Calls : call'[d].pc # "idle" => tab'[TabOf[d]].open
  BY <1>0, <1>2, <1>3 DEF SessionInv, Leading
<1>6. excused /\ excused'
  BY <1>0, SessionTypes
<1>7. SessionInv'
  BY <1>0, <1>2, <1>3, <1>4, <1>5, <1>6, SessionTypes, QuietStep
<1>8. QED BY <1>0, <1>3, <1>6, <1>7

LEMMA ReadKeeps ==
    ASSUME SessionInv, NEW c \in Calls, ReadToken(c)
    PROVE  SessionInv'
<1>1. call[c].pc = "asked" /\ UNCHANGED <<online, active, calm, cookie, tab, excused>>
  BY DEF ReadToken
<1>2. PICK p \in {"read", "denied"} :
        /\ call' = [call EXCEPT ![c].pc = p]
        /\ call[c].token \in live /\ active => p = "read" /\ live' = live
  BY DEF ReadToken
<1>3. live' \subseteq Tokens
  BY SessionTypes DEF ReadToken
<1>4. call' \in [Calls -> CallState]
      /\ \A d \in Calls : /\ d # c => call'[d] = call[d]
                          /\ call'[d].token = call[d].token /\ call'[d].new = call[d].new
      /\ call'[c].pc = p
  <2>1. call[c] \in CallState /\ p \in InFlight
    BY SessionTypes DEF InFlight
  <2>2. call' = [call EXCEPT ![c] = [call[c] EXCEPT !.pc = p]]
    BY <1>2
  <2>3. QED BY <2>1, <2>2, PcCall, SessionTypes
<1>5. SessionTypeOK'
  BY <1>1, <1>3, <1>4, SessionTypes DEF SessionTypeOK, TabRow
<1>6. Leading'
  BY <1>1, <1>4 DEF SessionInv, Leading, InFlight
<1>7. ASSUME ~excused PROVE Sound'
  <2>1. Sound /\ active
    BY <1>7 DEF SessionInv
  <2>2. p = "read" /\ live' = live
    BY <1>1, <1>2, <2>1 DEF Sound, Before
  <2>3. \A d \in Calls : /\ call'[d].pc \in After <=> call[d].pc \in After
                         /\ call'[d].pc \in Before <=> call[d].pc \in Before
                         /\ call'[d].pc \in InFlight <=> call[d].pc \in InFlight
                         /\ call'[d].pc = "denied" <=> call[d].pc = "denied"
                         /\ call'[d].pc = "granted" <=> call[d].pc = "granted"
    BY <1>1, <1>4, <2>2 DEF After, Before, InFlight
  <2>4. QED BY <1>1, <1>4, <2>1, <2>2, <2>3 DEF Sound
<1>8. QED BY <1>1, <1>5, <1>6, <1>7 DEF SessionInv

LEMMA ReferencedTokens ==
    /\ cookie \in Referenced
    /\ \A c \in Calls : call[c].token \in Referenced /\ call[c].new \in Referenced
BY DEF Referenced

LEMMA IssueKeeps ==
    ASSUME SessionInv, NEW c \in Calls, IssueTokens(c)
    PROVE  SessionInv'
<1>0. call[c].pc = "read" /\ UNCHANGED <<online, active, calm, cookie, tab, excused>>
  BY DEF IssueTokens
<1>1. PICK token \in NewTokens :
        /\ call' = [call EXCEPT ![c].pc = "issued", ![c].new = token]
        /\ live' = (live \cap Referenced) \cup {token}
  BY DEF IssueTokens, LiveWith
<1>2. token \in Tokens /\ token \notin Referenced
  BY DEF NewTokens
<1> DEFINE k == [[call[c] EXCEPT !.pc = "issued"] EXCEPT !.new = token]
<1>3. call' = [call EXCEPT ![c] = k]
  <2>1. call' = [[call EXCEPT ![c].pc = "issued"] EXCEPT ![c].new = token]
    BY <1>1
  <2>2. QED BY <2>1, SessionTypes
<1>4. k \in CallState /\ k.pc = "issued" /\ k.new = token /\ k.token = call[c].token
  <2>1. call[c] \in CallState /\ "issued" \in InFlight
    BY SessionTypes DEF InFlight
  <2>2. /\ [call[c] EXCEPT !.pc = "issued"] \in CallState
        /\ [call[c] EXCEPT !.pc = "issued"].pc = "issued"
        /\ [call[c] EXCEPT !.pc = "issued"].token = call[c].token
    BY <2>1, PcCall
  <2>3. QED BY <1>2, <2>2 DEF CallState
<1> HIDE DEF k
<1>5. call' \in [Calls -> CallState] /\ \A d \in Calls : call'[d] = IF d = c THEN k ELSE call[d]
  BY <1>3, <1>4, SessionTypes
<1>6. SessionTypeOK'
  BY <1>0, <1>1, <1>2, <1>5, SessionTypes DEF SessionTypeOK, TabRow
<1>7. Leading'
  BY <1>0, <1>4, <1>5 DEF SessionInv, Leading, InFlight
<1>8. ASSUME ~excused PROVE Sound'
  <2>1. Sound
    BY <1>8 DEF SessionInv
  <2>2. \A x \in Referenced : x # token /\ (x \in live => x \in live')
    BY <1>1, <1>2
  <2>3. ASSUME NEW d \in Calls
        PROVE  /\ call'[d].pc # "denied"
               /\ call'[d].pc \in Before => call'[d].token \in live'
               /\ call'[d].pc \in After => call'[d].new \in live' /\ call'[d].new # cookie'
    <3>1. CASE d = c
      <4>1. call[c].token \in live'
        BY <1>0, <2>1, <2>2, ReferencedTokens DEF Sound, Before
      <4>2. token \in live' /\ token # cookie'
        BY <1>0, <1>1, <2>2, ReferencedTokens
      <4>3. QED BY <1>4, <1>5, <3>1, <4>1, <4>2
    <3>2. CASE d # c
      BY <1>0, <1>5, <2>1, <2>2, <3>2, ReferencedTokens DEF Sound
    <3>3. QED BY <3>1, <3>2
  <2>4. ASSUME NEW d \in Calls, NEW e \in Calls,
               call'[d].pc \in InFlight, call'[e].pc \in InFlight
        PROVE  /\ d # e => call'[d].token # call'[e].token
               /\ call'[e].pc \in After => call'[d].token # call'[e].new
               /\ d # e /\ call'[d].pc \in After /\ call'[e].pc \in After =>
                     call'[d].new # call'[e].new
    <3>0. call[c].pc \in InFlight /\ call[c].pc \notin After
      BY <1>0 DEF InFlight, After
    <3>1. CASE d # c /\ e # c
      BY <1>5, <2>1, <2>4, <3>1 DEF Sound
    <3>2. CASE d = c /\ e = c
      BY <1>4, <1>5, <2>2, <3>2, ReferencedTokens
    <3>3. CASE d = c /\ e # c
      <4>1. /\ call'[e] = call[e] /\ call'[d] = k
            /\ call[e].new # token /\ call[e].token # token
        BY <1>5, <2>2, <3>3, ReferencedTokens
      <4>2. QED BY <1>4, <2>1, <2>4, <3>0, <3>3, <4>1 DEF Sound
    <3>4. CASE d # c /\ e = c
      <4>1. /\ call'[d] = call[d] /\ call'[e] = k
            /\ call[d].new # token /\ call[d].token # token
        BY <1>5, <2>2, <3>4, ReferencedTokens
      <4>2. QED BY <1>4, <2>1, <2>4, <3>0, <3>4, <4>1 DEF Sound
    <3>5. QED BY <3>1, <3>2, <3>3, <3>4
  <2>5. cookie' \in live' \/ \E d \in Calls : call'[d].pc = "granted" /\ call'[d].token = cookie'
    <3>1. CASE cookie \in live
      BY <1>0, <2>2, <3>1, ReferencedTokens
    <3>2. ASSUME NEW d \in Calls, call[d].pc = "granted", call[d].token = cookie
          PROVE  call'[d].pc = "granted" /\ call'[d].token = cookie'
      BY <1>0, <1>5, <3>2
    <3>3. QED BY <2>1, <3>1, <3>2 DEF Sound
  <2>6. QED BY <2>3, <2>4, <2>5 DEF Sound
<1>9. QED BY <1>0, <1>6, <1>7, <1>8 DEF SessionInv

LEMMA RevokeKeeps ==
    ASSUME SessionInv, NEW c \in Calls, RevokeOld(c)
    PROVE  SessionInv'
<1>0. /\ call[c].pc = "issued" /\ UNCHANGED <<online, active, calm, cookie, tab, excused>>
      /\ call' = [call EXCEPT ![c].pc = "granted"] /\ live' = live \ {call[c].token}
  BY DEF RevokeOld
<1>1. call' \in [Calls -> CallState]
      /\ \A d \in Calls : /\ d # c => call'[d] = call[d]
                          /\ call'[d].token = call[d].token /\ call'[d].new = call[d].new
      /\ call'[c].pc = "granted"
  <2>1. call[c] \in CallState /\ "granted" \in InFlight
    BY SessionTypes DEF InFlight
  <2>2. call' = [call EXCEPT ![c] = [call[c] EXCEPT !.pc = "granted"]]
    BY <1>0
  <2>3. QED BY <2>1, <2>2, PcCall, SessionTypes
<1>2. SessionTypeOK'
  BY <1>0, <1>1, SessionTypes DEF SessionTypeOK, TabRow
<1>3. Leading'
  BY <1>0, <1>1 DEF SessionInv, Leading, InFlight
<1>4. ASSUME ~excused PROVE Sound'
  <2>1. Sound
    BY <1>4 DEF SessionInv
  <2>2. \A d \in Calls : /\ call'[d].pc \in After <=> call[d].pc \in After
                         /\ call'[d].pc \in InFlight <=> call[d].pc \in InFlight
                         /\ call'[d].pc = "denied" <=> call[d].pc = "denied"
                         /\ call'[d].pc \in Before => d # c /\ call[d].pc \in Before
                         /\ call[d].pc \in Before \cup After => call[d].pc \in InFlight
    BY <1>0, <1>1 DEF After, Before, InFlight
  <2>3. ASSUME NEW d \in Calls
        PROVE  /\ call'[d].pc # "denied"
               /\ call'[d].pc \in Before => call'[d].token \in live'
               /\ call'[d].pc \in After => call'[d].new \in live' /\ call'[d].new # cookie'
    <3>0. call[c].pc \in InFlight
      BY <1>0 DEF InFlight
    <3>1. call'[d].pc \in Before => call'[d].token \in live'
      BY <1>0, <1>1, <2>1, <2>2, <3>0 DEF Sound
    <3>2. call'[d].pc \in After => call'[d].new \in live' /\ call'[d].new # cookie'
      BY <1>0, <1>1, <2>1, <2>2, <3>0 DEF Sound
    <3>3. QED BY <2>1, <2>2, <3>1, <3>2 DEF Sound
  <2>4. ASSUME NEW d \in Calls, NEW e \in Calls,
               call'[d].pc \in InFlight, call'[e].pc \in InFlight
        PROVE  /\ d # e => call'[d].token # call'[e].token
               /\ call'[e].pc \in After => call'[d].token # call'[e].new
               /\ d # e /\ call'[d].pc \in After /\ call'[e].pc \in After =>
                     call'[d].new # call'[e].new
    BY <1>1, <2>1, <2>2, <2>4 DEF Sound
  <2>5. cookie' \in live' \/ \E d \in Calls : call'[d].pc = "granted" /\ call'[d].token = cookie'
    <3>1. CASE cookie = call[c].token
      BY <1>0, <1>1, <3>1
    <3>2. CASE cookie \in live /\ cookie # call[c].token
      BY <1>0, <3>2
    <3>3. ASSUME NEW d \in Calls, call[d].pc = "granted", call[d].token = cookie
          PROVE  call'[d].pc = "granted" /\ call'[d].token = cookie'
      BY <1>0, <1>1, <3>3
    <3>4. QED BY <2>1, <3>1, <3>2, <3>3 DEF Sound
  <2>6. QED BY <2>3, <2>4, <2>5 DEF Sound
<1>5. QED BY <1>0, <1>2, <1>3, <1>4 DEF SessionInv

-----------------------------------------------------------------------------
(* Steps of a page.                                                        *)

LEMMA TabUser ==
    ASSUME SessionInv, NEW t \in Tabs, NEW b \in BOOLEAN
    PROVE  /\ [tab[t] EXCEPT !.user = b] \in TabRow
           /\ [tab[t] EXCEPT !.user = b].leader = tab[t].leader
           /\ [tab[t] EXCEPT !.user = b].open = tab[t].open
<1>1. tab[t] \in TabRow
  BY SessionTypes
<1>2. QED BY <1>1 DEF TabRow

LEMMA TabAccess ==
    ASSUME NEW row \in TabRow, NEW a \in {"none", "stale", "fresh"}
    PROVE  /\ [row EXCEPT !.access = a] \in TabRow
           /\ [row EXCEPT !.access = a].leader = row.leader
           /\ [row EXCEPT !.access = a].open = row.open
BY DEF TabRow

LEMMA ExpireKeeps ==
    ASSUME SessionInv, NEW t \in Tabs, AccessExpires(t)
    PROVE  SessionInv'
<1>1. [tab[t] EXCEPT !.access = "stale"] \in TabRow
  BY SessionTypes DEF TabRow
<1>2. /\ tab' \in [Tabs -> TabRow]
      /\ \A u \in Tabs : /\ tab'[u].leader = tab[u].leader
                         /\ tab'[u].open = tab[u].open /\ tab'[u].user = tab[u].user
  BY <1>1, SessionTypes DEF AccessExpires, TabRow
<1>3. UNCHANGED <<online, active, calm, cookie, live, call, excused>>
  BY DEF AccessExpires
<1>4. /\ \A u \in Tabs : /\ ~tab'[u].open => tab'[u].leader = None
                         /\ tab'[u].user => tab'[u].open
      /\ \A d \in Calls : call'[d].pc # "idle" => tab'[TabOf[d]].open
  BY <1>2, <1>3 DEF SessionInv, Leading
<1>5. QED BY <1>2, <1>3, <1>4, SessionTypes, QuietStep

\* A new token of the cookie's is nobody else's.
LEMMA SoundNewCookie ==
    ASSUME Sound, NEW token, token \notin Referenced, cookie' = token,
           live' = LiveWith(token), UNCHANGED call
    PROVE  Sound'
<1>1. \A x \in Referenced : x # token /\ (x \in live => x \in live')
  BY DEF LiveWith
<1>2. \A c \in Calls :
        /\ call'[c].pc # "denied"
        /\ call'[c].pc \in Before => call'[c].token \in live'
        /\ call'[c].pc \in After => call'[c].new \in live' /\ call'[c].new # cookie'
  BY <1>1, ReferencedTokens DEF Sound
<1>3. \A c, d \in Calls :
          call'[c].pc \in InFlight /\ call'[d].pc \in InFlight =>
             /\ c # d => call'[c].token # call'[d].token
             /\ call'[d].pc \in After => call'[c].token # call'[d].new
             /\ c # d /\ call'[c].pc \in After /\ call'[d].pc \in After =>
                   call'[c].new # call'[d].new
  BY DEF Sound
<1>4. cookie' \in live'
  BY DEF LiveWith
<1>5. QED BY <1>2, <1>3, <1>4 DEF Sound

LEMMA LoginKeeps ==
    ASSUME SessionInv, NEW t \in Tabs, Login(t)
    PROVE  SessionInv'
<1>1. PICK token \in NewTokens : cookie' = token /\ live' = LiveWith(token)
  BY DEF Login
<1>2. token \in Tokens /\ token \notin Referenced
  BY DEF NewTokens
<1>3. tab[t].open /\ UNCHANGED <<online, active, calm, call, excused>>
  BY DEF Login
<1> DEFINE row == [[tab[t] EXCEPT !.user = TRUE] EXCEPT !.access = "fresh"]
<1>4. row \in TabRow /\ row.leader = tab[t].leader /\ row.open = tab[t].open
  <2>1. /\ [tab[t] EXCEPT !.user = TRUE] \in TabRow
        /\ [tab[t] EXCEPT !.user = TRUE].leader = tab[t].leader
        /\ [tab[t] EXCEPT !.user = TRUE].open = tab[t].open
    BY TabUser
  <2>2. QED BY <2>1, TabAccess
<1>5. tab' = [tab EXCEPT ![t] = row]
  <2>1. tab' = [[tab EXCEPT ![t].user = TRUE] EXCEPT ![t].access = "fresh"]
    BY DEF Login
  <2>2. QED BY <2>1, SessionTypes
<1> HIDE DEF row
<1>6. /\ tab' \in [Tabs -> TabRow] /\ \A u \in Tabs : u # t => tab'[u] = tab[u]
      /\ tab'[t].leader = tab[t].leader /\ tab'[t].open = tab[t].open
  BY <1>4, <1>5, SessionTypes
<1>7. SessionTypeOK'
  <2>1. live' \subseteq Tokens
    BY <1>1, <1>2, SessionTypes DEF LiveWith
  <2>2. QED BY <1>1, <1>2, <1>3, <1>6, <2>1, SessionTypes DEF SessionTypeOK, TabRow
<1>8. Leading'
  <2>1. \A u \in Tabs : tab'[u].leader = tab[u].leader /\ tab'[u].open = tab[u].open
    BY <1>6
  <2>2. \A c \in Calls : /\ call'[c].pc \in InFlight => tab'[TabOf[c]].leader = c
                         /\ call'[c].pc # "idle" => tab'[TabOf[c]].open
    BY <1>3, <2>1 DEF SessionInv, Leading
  <2>3. \A u \in Tabs : /\ ~tab'[u].open => tab'[u].leader = None
                        /\ tab'[u].user => tab'[u].open
    BY <1>3, <1>6, <2>1 DEF SessionInv, Leading
  <2>4. QED BY <2>2, <2>3 DEF Leading
<1>9. ASSUME ~excused PROVE Sound'
  BY <1>1, <1>2, <1>3, <1>9, SoundNewCookie DEF SessionInv
<1>10. QED BY <1>3, <1>7, <1>8, <1>9 DEF SessionInv

LEMMA LogoutKeeps ==
    ASSUME SessionInv, NEW t \in Tabs, Logout(t)
    PROVE  SessionInv'
<1>1. tab[t].open /\ excused' /\ UNCHANGED <<online, active, calm, call>>
  BY DEF Logout, SessionInv, Leading
<1>2. cookie' \in Tokens \cup {NoToken} /\ live' \subseteq Tokens
  BY SessionTypes DEF Logout
<1> DEFINE row == [[tab[t] EXCEPT !.user = FALSE] EXCEPT !.access = "none"]
<1>3. row \in TabRow /\ row.leader = tab[t].leader /\ row.open = tab[t].open
  <2>1. /\ [tab[t] EXCEPT !.user = FALSE] \in TabRow
        /\ [tab[t] EXCEPT !.user = FALSE].leader = tab[t].leader
        /\ [tab[t] EXCEPT !.user = FALSE].open = tab[t].open
    BY TabUser
  <2>2. QED BY <2>1, TabAccess
<1>4. tab' = [tab EXCEPT ![t] = row]
  <2>1. tab' = [[tab EXCEPT ![t].user = FALSE] EXCEPT ![t].access = "none"]
    BY DEF Logout
  <2>2. QED BY <2>1, SessionTypes
<1> HIDE DEF row
<1>5. /\ tab' \in [Tabs -> TabRow] /\ \A u \in Tabs : u # t => tab'[u] = tab[u]
      /\ tab'[t].leader = tab[t].leader /\ tab'[t].open = tab[t].open
  BY <1>3, <1>4, SessionTypes
<1>6. SessionTypeOK'
  <2>1. excused' \in BOOLEAN
    BY DEF Logout
  <2>2. QED BY <1>1, <1>2, <1>5, <2>1, SessionTypes DEF SessionTypeOK, TabRow
<1>7. Leading'
  <2>1. \A u \in Tabs : tab'[u].leader = tab[u].leader /\ tab'[u].open = tab[u].open
    BY <1>5
  <2>2. \A c \in Calls : /\ call'[c].pc \in InFlight => tab'[TabOf[c]].leader = c
                         /\ call'[c].pc # "idle" => tab'[TabOf[c]].open
    BY <1>1, <2>1 DEF SessionInv, Leading
  <2>3. \A u \in Tabs : /\ ~tab'[u].open => tab'[u].leader = None
                        /\ tab'[u].user => tab'[u].open
    BY <1>1, <1>5, <2>1 DEF SessionInv, Leading
  <2>4. QED BY <2>2, <2>3 DEF Leading
<1>8. QED BY <1>1, <1>6, <1>7 DEF SessionInv

\* What ends a session from outside leaves its pages and calls as they are.
LEMMA EndingKeeps ==
    ASSUME SessionInv, \/ \E t \in Tabs : ChangePassword(t)
                       \/ ResetPassword \/ Deactivate \/ Activate \/ CookieExpires
    PROVE  SessionInv' /\ UNCHANGED <<tab, call>> /\ (excused => excused')
<1>1. CASE Activate
  <2>1. active' /\ UNCHANGED <<online, calm, cookie, live, tab, call, excused>>
    BY <1>1 DEF Activate
  <2>2. SessionTypeOK' /\ Leading' /\ (excused' \/ Sound') /\ active'
    BY <1>1, <2>1 DEF Activate, SessionInv, SessionTypeOK, Leading, Sound
  <2>3. QED BY <2>1, <2>2 DEF SessionInv
<1>2. CASE \/ \E t \in Tabs : ChangePassword(t)
           \/ ResetPassword \/ Deactivate \/ CookieExpires
  <2>1. /\ excused' = TRUE /\ active' \in BOOLEAN
        /\ live' \subseteq live /\ cookie' \in {cookie, NoToken}
        /\ UNCHANGED <<online, calm, tab, call>>
    BY <1>2, SessionTypes DEF ChangePassword, ResetPassword, Deactivate, CookieExpires
  <2>2. SessionTypeOK'
    BY <2>1, SessionTypes DEF SessionTypeOK, TabRow
  <2>3. Leading'
    BY <2>1 DEF SessionInv, Leading
  <2>4. QED BY <2>1, <2>2, <2>3 DEF SessionInv
<1>3. QED BY <1>1, <1>2

LEMMA CloseKeeps ==
    ASSUME SessionInv, NEW t \in Tabs, ClosePage(t)
    PROVE  SessionInv'
<1>1. /\ UNCHANGED <<online, active, calm, cookie, live>>
      /\ excused' = (excused \/ \E c \in CallsOf(t) : call[c].pc = "granted")
      /\ call' = [c \in Calls |-> IF TabOf[c] = t THEN Idle ELSE call[c]]
      /\ tab' = [tab EXCEPT ![t] = [open |-> FALSE, user |-> FALSE,
                                    access |-> "none", leader |-> None]]
  BY DEF ClosePage
<1>2. /\ call' \in [Calls -> CallState]
      /\ \A c \in Calls : call'[c] = IF TabOf[c] = t THEN Idle ELSE call[c]
  BY <1>1, IdleCall, SessionTypes
<1>3. tab' \in [Tabs -> TabRow] /\ (\A u \in Tabs : u # t => tab'[u] = tab[u])
      /\ ~tab'[t].open /\ ~tab'[t].user /\ tab'[t].leader = None
  <2>1. [open |-> FALSE, user |-> FALSE, access |-> "none", leader |-> None] \in TabRow
    BY DEF TabRow
  <2>2. QED BY <1>1, <2>1, SessionTypes
<1>4. \A c \in Calls : call'[c].pc \in InFlight =>
         call'[c] = call[c] /\ tab'[TabOf[c]].leader = tab[TabOf[c]].leader
  BY <1>2, <1>3, IdleCall DEF InFlight
<1>5. /\ \A u \in Tabs : /\ ~tab'[u].open => tab'[u].leader = None
                         /\ tab'[u].user => tab'[u].open
      /\ \A c \in Calls : call'[c].pc # "idle" => tab'[TabOf[c]].open
  BY <1>2, <1>3, IdleCall DEF SessionInv, Leading
<1>6. excused' \/ \A c \in Calls : call[c].pc = "granted" => call'[c] = call[c]
  BY <1>1, <1>2 DEF CallsOf
<1>7. excused' \in BOOLEAN /\ (excused => excused')
  BY <1>1, SessionTypes
<1>8. QED BY <1>1, <1>2, <1>3, <1>4, <1>5, <1>6, <1>7, SessionTypes, QuietStep

LEMMA OpenKeeps ==
    ASSUME SessionInv, NEW t \in Tabs, OpenPage(t)
    PROVE  SessionInv'
<1> DEFINE c == Restorer[t]
<1>1. /\ ~tab[t].open /\ AskRefresh(c, TRUE) /\ UNCHANGED <<online, active, calm, cookie, live>>
      /\ tab' = [tab EXCEPT ![t].open = TRUE, ![t].leader = c]
  BY DEF OpenPage
<1>2. c \in Calls /\ TabOf[c] = t
  OBVIOUS
<1> DEFINE row == [[tab[t] EXCEPT !.open = TRUE] EXCEPT !.leader = c]
<1>3. row \in TabRow /\ row.leader = c /\ row.open
  <2>1. tab[t] \in TabRow
    BY SessionTypes
  <2>2. [tab[t] EXCEPT !.open = TRUE] \in TabRow /\ [tab[t] EXCEPT !.open = TRUE].open
    BY <2>1 DEF TabRow
  <2>3. QED BY <1>2, <2>2 DEF TabRow
<1>4. tab' = [tab EXCEPT ![t] = row]
  <2>1. tab' = [[tab EXCEPT ![t].open = TRUE] EXCEPT ![t].leader = c]
    BY <1>1
  <2>2. QED BY <2>1, SessionTypes
<1>5. tab[t].leader = None
  BY <1>1 DEF SessionInv, Leading
<1> HIDE DEF row, c
<1>6. /\ tab' \in [Tabs -> TabRow] /\ \A u \in Tabs : u # t => tab'[u] = tab[u]
      /\ tab'[t].leader = c /\ tab'[t].open
  BY <1>3, <1>4, SessionTypes
<1>7. QED BY <1>1, <1>2, <1>5, <1>6, AskKeeps

LEMMA NetworkKeeps ==
    ASSUME SessionInv, GoOnline \/ GoOffline \/ CalmDown
    PROVE  SessionInv'
<1>1. online' \in BOOLEAN /\ calm' \in BOOLEAN
      /\ UNCHANGED <<active, cookie, live, tab, call, excused>>
  BY SessionTypes DEF GoOnline, GoOffline, CalmDown
<1>2. QED BY <1>1 DEF SessionInv, SessionTypeOK, Leading, Sound

LEMMA RequestKeeps ==
    ASSUME SessionInv, NEW c \in Calls, Ask(c) \/ Reply(c) \/ Acknowledge(c)
    PROVE  SessionInv'
<1>1. PICK k \in {Sent(TabOf[c]), Idle} :
        /\ call' = [call EXCEPT ![c] = k]
        /\ UNCHANGED <<online, active, calm, cookie, live, tab, excused>>
        /\ k # Idle => tab[TabOf[c]].user
  BY DEF Ask, Reply, Acknowledge
<1>2. k \in CallState /\ k.pc \notin InFlight
  BY IdleCall, SentCall DEF InFlight
<1>3. k.pc # "idle" => tab[TabOf[c]].open
  BY <1>1, IdleCall DEF SessionInv, Leading
<1>4. call[c].pc \notin InFlight
  BY DEF Ask, Reply, Acknowledge, InFlight
<1>5. QED BY <1>1, <1>2, <1>3, <1>4, QuietCall

-----------------------------------------------------------------------------
LEMMA SessionStarts ==
    ASSUME SessionInit
    PROVE  SessionInv
<1>1. /\ \A c \in Calls : call[c] = Idle /\ call[c].pc = "idle"
      /\ \A t \in Tabs : ~tab[t].open /\ ~tab[t].user /\ tab[t].leader = None
  BY IdleCall DEF SessionInit
<1>2. SessionTypeOK
  <2>1. call \in [Calls -> CallState]
    BY IdleCall DEF SessionInit
  <2>2. QED BY <2>1 DEF SessionInit, SessionTypeOK
<1>3. Leading
  BY <1>1 DEF Leading, InFlight
<1>4. Sound
  <2>1. \A c \in Calls : call[c].pc \notin InFlight /\ call[c].pc \notin Before
                          /\ call[c].pc \notin After /\ call[c].pc # "denied"
    BY <1>1 DEF InFlight, Before, After
  <2>2. cookie \in live
    BY DEF SessionInit
  <2>3. QED BY <2>1, <2>2 DEF Sound
<1>5. active
  BY DEF SessionInit
<1>6. QED BY <1>2, <1>3, <1>4, <1>5 DEF SessionInv

\* Every step of a session, and of the requests made in it.
SessionStep ==
    \/ SessionNext \/ GoOnline \/ GoOffline
    \/ \E c \in Calls : Ask(c) \/ Reply(c) \/ Acknowledge(c)
    \/ \E t \in Tabs : ClosePage(t)

LEMMA SessionStepKeeps ==
    ASSUME SessionInv, [SessionStep]_sessionVars
    PROVE  SessionInv'
<1>1. CASE UNCHANGED sessionVars
  BY <1>1 DEF sessionVars, SessionInv, SessionTypeOK, Leading, Sound
<1>2. CASE SessionNext
  <2>1. ASSUME NEW c \in Calls, RefreshStep(c)
        PROVE  SessionInv'
    BY <2>1, ReadKeeps, IssueKeeps, RevokeKeeps, AnsweredKeeps DEF RefreshStep
  <2>2. ASSUME NEW c \in Calls, Unauthorized(c) \/ RefreshRefused(c) \/ RefreshLost(c)
        PROVE  SessionInv'
    BY <2>2, UnauthorizedKeeps, LostKeeps
  <2>3. ASSUME NEW t \in Tabs, AccessExpires(t) \/ Login(t) \/ Logout(t) \/ OpenPage(t)
        PROVE  SessionInv'
    BY <2>3, ExpireKeeps, LoginKeeps, LogoutKeeps, OpenKeeps
  <2>4. ASSUME NEW c \in Calls, UnauthorizedAgain(c)
        PROVE  SessionInv'
    BY <2>4, UnauthorizedAgainKeeps
  <2>5. QED BY <1>2, <2>1, <2>2, <2>3, <2>4, EndingKeeps DEF SessionNext
<1>3. CASE GoOnline \/ GoOffline
  BY <1>3, NetworkKeeps
<1>4. ASSUME NEW c \in Calls, Ask(c) \/ Reply(c) \/ Acknowledge(c)
      PROVE  SessionInv'
  BY <1>4, RequestKeeps
<1>5. ASSUME NEW t \in Tabs, ClosePage(t)
      PROVE  SessionInv'
  BY <1>5, CloseKeeps
<1>6. QED BY <1>1, <1>2, <1>3, <1>4, <1>5 DEF SessionStep

\* The inductive invariant of tabs, calls, the cookie and the server's tokens.
THEOREM SessionInvariant == SessionSpec => []SessionInv
<1>1. SessionInit => SessionInv
  BY SessionStarts
<1>2. SessionInv /\ [SessionStep]_sessionVars => SessionInv'
  BY SessionStepKeeps
<1>3. QED BY <1>1, <1>2, PTL DEF SessionSpec, SessionStep

\* The browser's and the server's records keep their types.
THEOREM SessionAlwaysTyped == SessionSpec => []SessionTypeOK
<1>1. SessionInv => SessionTypeOK
  BY DEF SessionInv
<1>2. QED BY <1>1, SessionInvariant, PTL

\* However many requests of however many tabs fail together, a refresh is
\* refused only after a logout, a password changed or reset, a deactivation, a
\* week's absence, a lost or failed answer, or a race of tabs.
THEOREM SessionAlwaysEndsForAReason == SessionSpec => []SessionEndsForAReason
<1>1. SessionInv => SessionEndsForAReason
  BY DEF SessionInv, Sound, SessionEndsForAReason
<1>2. QED BY <1>1, SessionInvariant, PTL

\* Between refreshes the cookie of an undisturbed browser counts.
THEOREM CookieAlwaysLive == SessionSpec => []CookieIsLive
<1>1. SessionInv => CookieIsLive
  <2>1. \A c \in Calls : call[c].pc = "granted" => call[c].pc \in InFlight
    BY DEF InFlight
  <2>2. QED BY <2>1 DEF SessionInv, Sound, CookieIsLive
<1>2. QED BY <1>1, SessionInvariant, PTL

-----------------------------------------------------------------------------
(* The queue over the session.                                            *)

USE TabOfAssumption, RestorerAssumption, SheetsAssumption, EntriesAssumption
    DEF TabOfAssumption, RestorerAssumption, SheetsAssumption, EntriesAssumption

FlushRow == [pc : {"off", "opening", "on"}, todo : Seq(Entries)]

\* No request of a flush: nothing, or the restoring of a session.
Free(c) == call[c].pc = "idle" \/ (call[c].pc \in InFlight /\ call[c].restores)

\* Only a flush that goes on makes its requests, only an open page flushes,
\* and a sheet without a confirmation makes none.
Owned ==
    /\ \A t \in Tabs : ~Free(Flusher(t)) => flush[t].pc = "on"
    /\ \A t \in Tabs : flush[t].pc # "off" \/ inited[t] => tab[t].open
    /\ \A t \in Tabs : flush[t].pc = "on" => flush[t].todo # <<>>
    /\ \A c \in Sheets : sheet[c] = None => call[c].pc = "idle"

\* What a flush was told about the head of its list is so.
ToldOf(t, k) ==
    /\ k.res # ""
    /\ k.res = "ok" => Head(flush[t].todo) \in accepted
    /\ k.res \in {"refused", "error"} => Head(flush[t].todo) \in answered
    /\ k.res = "session" => excused
Told == \A t \in Tabs : call[Flusher(t)].pc = "ended" => ToldOf(t, call[Flusher(t)])

KeptOne(e) == Contains(queue, e) \/ e \in accepted \/ e \in answered \/ excused
Kept == \A e \in promised : KeptOne(e)

QueueInv == SessionInv /\ TypeOK /\ Owned /\ Told /\ Kept

-----------------------------------------------------------------------------
(* Sequences.                                                              *)

LEMMA AppendKeeps ==
    ASSUME NEW q \in Seq(Entries), NEW e \in Entries
    PROVE  /\ Append(q, e) \in Seq(Entries) /\ Contains(Append(q, e), e)
           /\ \A x : Contains(q, x) => Contains(Append(q, e), x)
<1>1. /\ Append(q, e) \in Seq(Entries) /\ Len(q) \in Nat
      /\ Len(Append(q, e)) = Len(q) + 1
      /\ \A i \in 1..Len(q) : Append(q, e)[i] = q[i]
      /\ Append(q, e)[Len(q) + 1] = e
  BY AppendProperties, LenProperties
<1>2. Len(q) + 1 \in 1..Len(Append(q, e))
  BY <1>1
<1>3. \A i \in 1..Len(q) : i \in 1..Len(Append(q, e))
  BY <1>1
<1>4. QED BY <1>1, <1>2, <1>3 DEF Contains

LEMMA RemoveAtKeeps ==
    ASSUME NEW q \in Seq(Entries), NEW i \in 1..Len(q)
    PROVE  /\ RemoveAt(q, i) \in Seq(Entries)
           /\ \A x : Contains(q, x) /\ x # q[i] => Contains(RemoveAt(q, i), x)
<1> DEFINE a == SubSeq(q, 1, i - 1)
           b == SubSeq(q, i + 1, Len(q))
<1>1. Len(q) \in Nat /\ i \in Int /\ \A j \in 1..Len(q) : q[j] \in Entries
  BY LenProperties
<1>2. /\ a \in Seq(Entries) /\ Len(a) = i - 1
      /\ \A j \in 1..(i - 1) : a[j] = q[j]
  <2>1. \A j \in 1..(i - 1) : q[j] \in Entries
    BY <1>1
  <2>2. /\ a \in Seq(Entries) /\ Len(a) = IF 1 <= i - 1 THEN (i - 1) - 1 + 1 ELSE 0
        /\ \A j \in 1..((i - 1) - 1 + 1) : a[j] = q[1 + j - 1]
    BY <1>1, <2>1, SubSeqProperties
  <2>3. QED BY <1>1, <2>2
<1>3. /\ b \in Seq(Entries) /\ Len(b) = Len(q) - i
      /\ \A j \in 1..(Len(q) - i) : b[j] = q[i + j]
  <2>1. \A j \in (i + 1)..Len(q) : q[j] \in Entries
    BY <1>1
  <2>2. /\ b \in Seq(Entries)
        /\ Len(b) = IF i + 1 <= Len(q) THEN Len(q) - (i + 1) + 1 ELSE 0
        /\ \A j \in 1..(Len(q) - (i + 1) + 1) : b[j] = q[(i + 1) + j - 1]
    BY <1>1, <2>1, SubSeqProperties
  <2>3. QED BY <1>1, <2>2
<1> HIDE DEF a, b
<1>4. /\ a \o b \in Seq(Entries) /\ Len(a \o b) = Len(q) - 1
      /\ \A j \in 1..(Len(q) - 1) :
            (a \o b)[j] = IF j <= i - 1 THEN a[j] ELSE b[j - (i - 1)]
  <2>1. /\ a \o b \in Seq(Entries) /\ Len(a \o b) = Len(a) + Len(b)
        /\ \A j \in 1..(Len(a) + Len(b)) :
              (a \o b)[j] = IF j <= Len(a) THEN a[j] ELSE b[j - Len(a)]
    <3>1. a \in Seq(Entries) /\ b \in Seq(Entries)
      BY <1>2, <1>3
    <3>2. QED BY ONLY <3>1, ConcatProperties
  <2>2. Len(a) + Len(b) = Len(q) - 1
    BY <1>1, <1>2, <1>3
  <2>3. QED BY <1>2, <2>1, <2>2
<1>5. ASSUME NEW x, NEW j \in 1..Len(q), q[j] = x, x # q[i]
      PROVE  \E k \in 1..Len(a \o b) : (a \o b)[k] = x
  <2>1. CASE j < i
    <3>1. j \in 1..Len(a \o b) /\ (a \o b)[j] = a[j] /\ a[j] = q[j]
      BY <1>1, <1>2, <1>4, <2>1
    <3>2. QED BY <1>5, <3>1
  <2>2. CASE j > i
    <3>1. /\ j - 1 \in 1..(Len(q) - 1) /\ ~(j - 1 <= i - 1)
          /\ (j - 1) - (i - 1) = j - i /\ j - i \in 1..(Len(q) - i) /\ i + (j - i) = j
      BY <1>1, <2>2
    <3>2. (a \o b)[j - 1] = b[j - i] /\ b[j - i] = q[j]
      BY <1>3, <1>4, <3>1
    <3>3. QED BY <1>4, <1>5, <3>1, <3>2
  <2>3. j # i /\ j \in Int
    BY <1>5
  <2>4. QED BY <1>1, <2>1, <2>2, <2>3
<1>6. RemoveAt(q, i) = a \o b
  BY DEF RemoveAt, a, b
<1>7. QED BY <1>4, <1>5, <1>6 DEF Contains

\* A deletion takes one confirmation only.
LEMMA DeleteKeeps ==
    ASSUME queue \in Seq(Entries), NEW e, Delete(e)
    PROVE  /\ queue' \in Seq(Entries)
           /\ \A x : Contains(queue, x) /\ x # e => Contains(queue', x)
<1>1. CASE Contains(queue, e)
  <2>1. PICK i \in 1..Len(queue) : queue[i] = e /\ queue' = RemoveAt(queue, i)
    BY <1>1 DEF Delete
  <2>2. QED BY <2>1, RemoveAtKeeps
<1>2. CASE ~Contains(queue, e)
  BY <1>2 DEF Delete
<1>3. QED BY <1>1, <1>2

-----------------------------------------------------------------------------
LEMMA FlusherFacts ==
    /\ \A t \in Tabs : /\ Flusher(t) \in Calls /\ TabOf[Flusher(t)] = t
                       /\ Flusher(t) \notin Sheets
    /\ Sheets \subseteq Calls
    /\ \A c \in Calls \ Sheets : TabOf[c] \in Tabs /\ Flusher(TabOf[c]) = c
<1>0. Sheets = Calls \ {Restorer[t] : t \in Tabs}
  BY SheetsAssumption
<1>1. ASSUME NEW c \in Calls \ Sheets
      PROVE  TabOf[c] \in Tabs /\ Flusher(TabOf[c]) = c
  <2>1. PICK t \in Tabs : c = Restorer[t]
    BY <1>0
  <2>2. QED BY <2>1 DEF Flusher
<1>2. ASSUME NEW t \in Tabs
      PROVE  Flusher(t) \in Calls /\ TabOf[Flusher(t)] = t /\ Flusher(t) \notin Sheets
  BY <1>0 DEF Flusher
<1>3. Sheets \subseteq Calls
  OBVIOUS
<1>4. QED BY ONLY <1>1, <1>2, <1>3

LEMMA QueueTypes ==
    ASSUME QueueInv
    PROVE  /\ queue \in Seq(Entries) /\ accepted \subseteq Entries
           /\ answered \subseteq Entries /\ promised \subseteq Entries
           /\ sheet \in [Sheets -> Entries \cup {None}]
           /\ flush \in [Tabs -> FlushRow] /\ inited \in [Tabs -> BOOLEAN]
           /\ call \in [Calls -> CallState] /\ tab \in [Tabs -> TabRow]
           /\ SessionInv
BY SessionTypes DEF QueueInv, TypeOK, FlushRow

LEMMA FlushRows ==
    /\ NoFlush \in FlushRow /\ NoFlush.pc = "off"
    /\ \A todo \in Seq(Entries), p \in {"opening", "on"} :
          /\ [pc |-> p, todo |-> todo] \in FlushRow
          /\ [pc |-> p, todo |-> todo].pc = p
          /\ [pc |-> p, todo |-> todo].todo = todo
<1>1. PICK none : none = <<>> /\ none \in Seq(Entries)
  BY EmptySeq
<1>2. NoFlush = [pc |-> "off", todo |-> none]
  BY <1>1 DEF NoFlush
<1>3. QED BY <1>1, <1>2 DEF FlushRow

-----------------------------------------------------------------------------
(* The session's own steps under the queue.                                *)

\* What a step of the session does to the requests: what is free stays free,
\* a sheet's idle request stays idle, and one that ends does so without the
\* network or because the session ended.
Moves ==
    /\ SessionInv' /\ (excused => excused')
    /\ \A t \in Tabs : tab[t].open => tab'[t].open
    /\ \A c \in Calls :
          /\ Free(c) => Free(c)'
          /\ c \in Sheets /\ call[c].pc = "idle" => call'[c].pc = "idle"
          /\ call'[c].pc = "ended" => \/ call'[c] = call[c]
                                      \/ call'[c].res = "network"
                                      \/ call'[c].res = "session" /\ excused'

\* One call goes on, the others stay.
LEMMA OneMoves ==
    ASSUME SessionInv, SessionInv', NEW c \in Calls, NEW k,
           call' = [call EXCEPT ![c] = k], excused => excused',
           \A t \in Tabs : tab[t].open => tab'[t].open,
           Free(c) => k.pc \in InFlight /\ k.restores,
           c \in Sheets => call[c].pc # "idle",
           k.pc # "ended"
    PROVE  Moves
<1>1. \A d \in Calls : call'[d] = IF d = c THEN k ELSE call[d]
  BY SessionTypes
<1>2. ASSUME NEW d \in Calls PROVE Free(d) => Free(d)'
  BY <1>1 DEF Free
<1>3. QED BY <1>1, <1>2 DEF Moves

LEMMA SettleMoves ==
    ASSUME SessionInv, SessionInv', NEW c \in Calls, call[c].pc \in InFlight,
           NEW outcome \in {"granted", "denied", "network"}, Settle(c, outcome),
           excused => excused', outcome = "denied" => excused'
    PROVE  Moves
<1> DEFINE after(d) == IF call[d].restores THEN Idle
                       ELSE CASE outcome = "granted" -> Repeated
                              [] outcome = "denied" -> Ended("session")
                              [] OTHER -> Ended("network")
<1>1. \A d \in Calls : call'[d] = IF d \in Waiting(c) THEN after(d) ELSE call[d]
  <2>1. call' = [d \in Calls |-> IF d \in Waiting(c) THEN after(d) ELSE call[d]]
    BY DEF Settle, Repeated
  <2>2. QED BY <2>1
<1>2. \A d \in Waiting(c) : call[d].pc # "idle"
  BY DEF Waiting, InFlight
<1>3. ASSUME NEW d \in Calls PROVE Free(d) => Free(d)'
  <2>1. CASE d \in Waiting(c) /\ call[d].restores
    <3>1. call'[d] = Idle
      BY <1>1, <2>1
    <3>2. QED BY <3>1, IdleCall DEF Free
  <2>2. CASE d \in Waiting(c) /\ ~call[d].restores
    BY <1>2, <2>2 DEF Free
  <2>3. CASE d \notin Waiting(c)
    BY <1>1, <2>3 DEF Free
  <2>4. QED BY <2>1, <2>2, <2>3
<1>4. ASSUME NEW d \in Calls, call'[d].pc = "ended"
      PROVE  \/ call'[d] = call[d]
             \/ call'[d].res = "network"
             \/ call'[d].res = "session" /\ excused'
  <2>1. CASE d \notin Waiting(c)
    BY <1>1, <2>1
  <2>2. CASE d \in Waiting(c)
    <3>1. call'[d] = after(d)
      BY <1>1, <2>2
    <3>2. after(d).pc = "ended" => \/ after(d).res = "network"
                                   \/ after(d).res = "session" /\ excused'
      BY IdleCall, SettledCalls, EndedCall
    <3>3. QED BY <1>4, <3>1, <3>2
  <2>3. QED BY <2>1, <2>2
<1>5. \A d \in Calls : call[d].pc = "idle" => call'[d].pc = "idle"
  BY <1>1, <1>2
<1>6. \A t \in Tabs : tab[t].open => tab'[t].open
  BY SettleFacts
<1>7. QED BY <1>3, <1>4, <1>5, <1>6 DEF Moves

LEMMA RefreshMoves ==
    ASSUME SessionInv, NEW c \in Calls,
           RefreshStep(c) \/ RefreshRefused(c) \/ RefreshLost(c)
    PROVE  Moves
<1>0. SessionInv'
  BY LostKeeps, ReadKeeps, IssueKeeps, RevokeKeeps, AnsweredKeeps DEF RefreshStep
<1>1. CASE RefreshAnswered(c)
  <2>1. /\ call[c].pc \in {"granted", "denied"} /\ call[c].pc \in InFlight
        /\ Settle(c, call[c].pc) /\ UNCHANGED excused
    BY <1>1 DEF RefreshAnswered, InFlight
  <2>2. call[c].pc = "denied" => excused
    BY DEF SessionInv, Sound
  <2>3. QED BY <1>0, <2>1, <2>2, SettleMoves
<1>2. CASE RefreshRefused(c)
  <2>1. call[c].pc \in InFlight /\ Settle(c, "denied") /\ excused'
    BY <1>2 DEF RefreshRefused, InFlight
  <2>2. QED BY <1>0, <2>1, SettleMoves
<1>3. CASE RefreshLost(c)
  <2>1. call[c].pc \in InFlight /\ Settle(c, "network") /\ (excused => excused')
    BY <1>3 DEF RefreshLost, InFlight
  <2>2. QED BY <1>0, <2>1, SettleMoves
<1>4. CASE ReadToken(c) \/ IssueTokens(c) \/ RevokeOld(c)
  <2>1. /\ call[c].pc \in InFlight /\ UNCHANGED <<tab, excused>>
        /\ call[c] \in CallState
    BY <1>4, SessionTypes DEF ReadToken, IssueTokens, RevokeOld, InFlight
  <2>2. PICK k : /\ call' = [call EXCEPT ![c] = k] /\ k.pc \in InFlight
                 /\ k.restores = call[c].restores
    <3>1. CASE ReadToken(c)
      <4>1. PICK p \in {"read", "denied"} : call' = [call EXCEPT ![c].pc = p]
        BY <3>1 DEF ReadToken
      <4>2. /\ call' = [call EXCEPT ![c] = [call[c] EXCEPT !.pc = p]]
            /\ p \in InFlight
        BY <4>1 DEF InFlight
      <4>3. [call[c] EXCEPT !.pc = p].pc \in InFlight
            /\ [call[c] EXCEPT !.pc = p].restores = call[c].restores
        BY <2>1, <4>2, PcCall
      <4>4. QED BY <4>2, <4>3
    <3>2. CASE IssueTokens(c)
      <4>1. PICK token \in NewTokens :
               call' = [call EXCEPT ![c].pc = "issued", ![c].new = token]
        BY <3>2 DEF IssueTokens
      <4>2. call' = [call EXCEPT ![c] = [[call[c] EXCEPT !.pc = "issued"]
                                            EXCEPT !.new = token]]
        <5>1. call' = [[call EXCEPT ![c].pc = "issued"] EXCEPT ![c].new = token]
          BY <4>1
        <5>2. QED BY <5>1, SessionTypes
      <4>3. /\ [call[c] EXCEPT !.pc = "issued"] \in CallState
            /\ [call[c] EXCEPT !.pc = "issued"].pc = "issued"
            /\ [call[c] EXCEPT !.pc = "issued"].restores = call[c].restores
            /\ "issued" \in InFlight
        <5>1. "issued" \in InFlight
          BY DEF InFlight
        <5>2. QED BY <2>1, <5>1, PcCall
      <4>4. [[call[c] EXCEPT !.pc = "issued"] EXCEPT !.new = token].pc \in InFlight
            /\ [[call[c] EXCEPT !.pc = "issued"] EXCEPT !.new = token].restores
                 = call[c].restores
        BY <4>3 DEF CallState
      <4>5. QED BY <4>2, <4>4
    <3>3. CASE RevokeOld(c)
      <4>1. /\ call' = [call EXCEPT ![c] = [call[c] EXCEPT !.pc = "granted"]]
            /\ "granted" \in InFlight
        BY <3>3 DEF RevokeOld, InFlight
      <4>2. [call[c] EXCEPT !.pc = "granted"].pc \in InFlight
            /\ [call[c] EXCEPT !.pc = "granted"].restores = call[c].restores
        BY <2>1, <4>1, PcCall
      <4>3. QED BY <4>1, <4>2
    <3>4. QED BY <1>4, <3>1, <3>2, <3>3
  <2>3. k.pc # "ended" /\ call[c].pc # "idle"
    BY <2>1, <2>2 DEF InFlight
  <2>4. Free(c) => k.restores
    BY <2>2, <2>3 DEF Free
  <2>5. QED BY <1>0, <2>1, <2>2, <2>3, <2>4, OneMoves
<1>5. QED BY <1>1, <1>2, <1>3, <1>4 DEF RefreshStep

LEMMA PageMoves ==
    ASSUME SessionInv, NEW t \in Tabs,
           AccessExpires(t) \/ Login(t) \/ Logout(t) \/ OpenPage(t)
    PROVE  Moves
<1>0. SessionInv' /\ tab[t] \in TabRow
  BY ExpireKeeps, LoginKeeps, LogoutKeeps, OpenKeeps, SessionTypes
<1>1. CASE OpenPage(t)
  <2>1. /\ call' = [call EXCEPT ![Restorer[t]] = Asked(TRUE)]
        /\ tab' = [tab EXCEPT ![t].open = TRUE, ![t].leader = Restorer[t]]
        /\ excused => excused'
    BY <1>1 DEF OpenPage, AskRefresh, Asked
  <2>2. \A u \in Tabs : tab[u].open => tab'[u].open
    BY <1>1, <2>1, SessionTypes DEF OpenPage, TabRow
  <2>3. Asked(TRUE).pc = "asked" /\ Asked(TRUE).restores = TRUE
    BY AskedCall DEF SessionInv
  <2>4. Restorer[t] \in Calls /\ Restorer[t] \notin Sheets
    BY FlusherFacts DEF Flusher
  <2>5. Asked(TRUE).pc \in InFlight /\ Asked(TRUE).pc # "ended"
    BY <2>3 DEF InFlight
  <2>6. QED BY <1>0, <2>1, <2>2, <2>3, <2>4, <2>5, OneMoves
<1>2. CASE AccessExpires(t) \/ Login(t) \/ Logout(t)
  <2>1. UNCHANGED call /\ (excused => excused')
    BY <1>2 DEF AccessExpires, Login, Logout
  <2>2. \A u \in Tabs : tab'[u].open = tab[u].open
    <3>1. CASE AccessExpires(t)
      BY <3>1, SessionTypes DEF AccessExpires, TabRow
    <3>2. CASE Login(t)
      BY <3>2, SessionTypes DEF Login, TabRow
    <3>3. CASE Logout(t)
      BY <3>3, SessionTypes DEF Logout, TabRow
    <3>4. QED BY <1>2, <3>1, <3>2, <3>3
  <2>3. \A c \in Calls : Free(c) => Free(c)'
    BY <2>1 DEF Free
  <2>4. QED BY <1>0, <2>1, <2>2, <2>3 DEF Moves
<1>3. QED BY <1>1, <1>2

LEMMA SessionMoves ==
    ASSUME SessionInv, SessionNext \/ GoOffline \/ CalmDown
    PROVE  Moves
<1>1. ASSUME NEW c \in Calls, Unauthorized(c) PROVE Moves
  <2>1. /\ SessionInv' /\ call[c].pc = "sent" /\ (excused => excused')
        /\ ~Free(c)
    BY <1>1, UnauthorizedKeeps DEF Unauthorized, AskRefresh, Free, InFlight
  <2>2. PICK k \in {Asked(FALSE), Joined} : call' = [call EXCEPT ![c] = k]
    BY <1>1 DEF Unauthorized, AskRefresh, Asked, Joined
  <2>3. k.pc # "ended"
    BY SettledCalls, AskedCall DEF SessionInv
  <2>4. \A t \in Tabs : tab[t].open => tab'[t].open
    <3>1. \/ tab' = tab
          \/ tab' = [tab EXCEPT ![TabOf[c]].leader = c]
      BY <1>1 DEF Unauthorized
    <3>2. tab \in [Tabs -> TabRow]
      BY SessionTypes
    <3>3. \A t \in Tabs : tab[t] \in TabRow
      BY <3>2
    <3>4. ASSUME NEW t \in Tabs PROVE tab'[t].open = tab[t].open
      BY <3>1, <3>2, <3>3 DEF TabRow
    <3>5. QED BY <3>4
  <2>5. QED BY <2>1, <2>2, <2>3, <2>4, OneMoves
<1>2. CASE GoOffline \/ CalmDown
  <2>1. SessionInv' /\ UNCHANGED <<tab, call, excused>>
    BY <1>2, NetworkKeeps DEF GoOffline, CalmDown
  <2>2. \A c \in Calls : Free(c) => Free(c)'
    BY <2>1 DEF Free
  <2>3. QED BY <2>1, <2>2 DEF Moves
<1>3. ASSUME NEW c \in Calls, UnauthorizedAgain(c) PROVE Moves
  <2>1. /\ SessionInv' /\ excused' /\ call[c].pc = "sent"
        /\ \A t \in Tabs : tab'[t].open = tab[t].open
    BY <1>3, UnauthorizedAgainKeeps
  <2>2. \A d \in Calls : call'[d] = IF d = c THEN Ended("session") ELSE call[d]
    BY <1>3, UnauthorizedAgainKeeps, SessionTypes
  <2>3. Ended("session").pc = "ended" /\ Ended("session").res = "session"
    BY EndedCall
  <2>4. ASSUME NEW d \in Calls PROVE Free(d) => Free(d)'
    BY <2>1, <2>2 DEF Free, InFlight
  <2>5. QED BY <2>1, <2>2, <2>3, <2>4 DEF Moves
<1>4. CASE \/ \E t \in Tabs : ChangePassword(t)
           \/ ResetPassword \/ Deactivate \/ Activate \/ CookieExpires
  <2>1. SessionInv' /\ UNCHANGED <<tab, call>> /\ (excused => excused')
    BY <1>4, EndingKeeps
  <2>2. \A c \in Calls : Free(c) => Free(c)'
    BY <2>1 DEF Free
  <2>3. QED BY <2>1, <2>2 DEF Moves
<1>5. QED BY <1>1, <1>2, <1>3, <1>4, RefreshMoves, PageMoves DEF SessionNext

\* Records of what became of a confirmation only grow.
LEMMA KeptGrows ==
    ASSUME Kept, excused => excused', accepted \subseteq accepted',
           answered \subseteq answered', UNCHANGED promised,
           \A e \in promised : Contains(queue, e) =>
              Contains(queue', e) \/ e \in accepted' \/ e \in answered' \/ excused'
    PROVE  Kept'
<1>1. \A e \in promised : KeptOne(e)'
  BY DEF Kept, KeptOne
<1>2. QED BY <1>1 DEF Kept

LEMMA SessionKeepsQueue ==
    ASSUME QueueInv, SessionNext \/ GoOffline \/ CalmDown, UNCHANGED queueVars
    PROVE  QueueInv'
<1>0. /\ Moves /\ SessionInv'
      /\ UNCHANGED <<queue, sheet, flush, inited, accepted, answered, promised>>
  BY SessionMoves DEF QueueInv, queueVars, Moves
<1>1. TypeOK'
  BY <1>0 DEF QueueInv, TypeOK, SessionInv
<1>2. Owned'
  <2>1. \A t \in Tabs : Free(Flusher(t)) => Free(Flusher(t))'
    BY <1>0, FlusherFacts DEF Moves, Flusher
  <2>2. \A t \in Tabs : ~Free(Flusher(t))' => flush'[t].pc = "on"
    BY <1>0, <2>1 DEF QueueInv, Owned
  <2>3. \A t \in Tabs : flush'[t].pc # "off" \/ inited'[t] => tab'[t].open
    BY <1>0 DEF QueueInv, Owned, Moves
  <2>4. \A c \in Sheets : sheet'[c] = None => call'[c].pc = "idle"
    BY <1>0, FlusherFacts DEF QueueInv, Owned, Moves
  <2>5. \A t \in Tabs : flush'[t].pc = "on" => flush'[t].todo # <<>>
    BY <1>0 DEF QueueInv, Owned
  <2>6. QED BY <2>2, <2>3, <2>4, <2>5 DEF Owned
<1>3. Told'
  <2> SUFFICES ASSUME NEW t \in Tabs, call'[Flusher(t)].pc = "ended"
               PROVE  ToldOf(t, call[Flusher(t)])'
    BY DEF Told
  <2>1. \/ call'[Flusher(t)] = call[Flusher(t)]
        \/ call'[Flusher(t)].res = "network"
        \/ call'[Flusher(t)].res = "session" /\ excused'
    BY <1>0, FlusherFacts DEF Moves
  <2>2. CASE call'[Flusher(t)] = call[Flusher(t)]
    <3>1. ToldOf(t, call[Flusher(t)])
      BY <2>2 DEF QueueInv, Told
    <3>2. QED BY <1>0, <2>2, <3>1 DEF ToldOf, Moves
  <2>3. CASE call'[Flusher(t)].res = "network"
    BY <2>3 DEF ToldOf
  <2>4. CASE call'[Flusher(t)].res = "session" /\ excused'
    BY <2>4 DEF ToldOf
  <2>5. QED BY <2>1, <2>2, <2>3, <2>4
<1>4. Kept'
  BY <1>0, KeptGrows DEF QueueInv, Moves
<1>5. QED BY <1>0, <1>1, <1>2, <1>3, <1>4 DEF QueueInv

-----------------------------------------------------------------------------
(* Requests that end at the server or on the way.                          *)

LEMMA SubjectFacts ==
    ASSUME QueueInv, NEW c \in Calls, call[c].pc \in {"sent", "ended"}
    PROVE  /\ Subject(c) \in Entries /\ call[c].pc \notin InFlight
           /\ c \notin Sheets => /\ flush[TabOf[c]].pc = "on"
                                 /\ Subject(c) = Head(flush[TabOf[c]].todo)
<1>1. call[c].pc \notin InFlight /\ ~Free(c)
  BY DEF InFlight, Free
<1>2. CASE c \in Sheets
  BY <1>1, <1>2, QueueTypes DEF QueueInv, Owned, Subject, IsFlusher
<1>3. CASE c \notin Sheets
  <2>1. TabOf[c] \in Tabs /\ Flusher(TabOf[c]) = c
    BY <1>3, FlusherFacts
  <2>2. flush[TabOf[c]].pc = "on" /\ flush[TabOf[c]].todo # <<>>
    BY <1>1, <2>1 DEF QueueInv, Owned
  <2>3. flush[TabOf[c]].todo \in Seq(Entries)
    BY <2>1, QueueTypes DEF FlushRow
  <2>4. Head(flush[TabOf[c]].todo) \in Entries
    BY <2>2, <2>3, HeadTailProperties
  <2>5. QED BY <1>1, <1>3, <2>2, <2>4 DEF Subject, IsFlusher
<1>4. QED BY <1>2, <1>3

LEMMA EndKeeps ==
    ASSUME QueueInv, NEW c \in Calls, call[c].pc = "sent",
           NEW res \in {"ok", "refused", "error", "network"},
           call' = [call EXCEPT ![c] = Ended(res)],
           accepted \subseteq accepted', accepted' \subseteq accepted \cup {Subject(c)},
           answered \subseteq answered', answered' \subseteq answered \cup {Subject(c)},
           res = "ok" => Subject(c) \in accepted',
           res \in {"refused", "error"} => Subject(c) \in answered',
           UNCHANGED <<online, active, calm, cookie, live, tab, excused,
                       queue, sheet, flush, inited, promised>>
    PROVE  QueueInv'
<1>1. /\ Ended(res) \in CallState /\ Ended(res).pc = "ended" /\ Ended(res).res = res
      /\ Ended(res).pc \notin InFlight
  BY EndedCall DEF InFlight
<1>2. /\ Subject(c) \in Entries /\ call[c].pc \notin InFlight
      /\ c \notin Sheets => /\ flush[TabOf[c]].pc = "on"
                            /\ Subject(c) = Head(flush[TabOf[c]].todo)
  BY SubjectFacts
<1>3. tab[TabOf[c]].open
  BY DEF QueueInv, SessionInv, Leading
<1>4. SessionInv'
  BY <1>1, <1>2, <1>3, QuietCall DEF QueueInv
<1>5. \A d \in Calls : call'[d] = IF d = c THEN Ended(res) ELSE call[d]
  BY QueueTypes
<1>6. TypeOK'
  BY <1>2, <1>4 DEF QueueInv, TypeOK, SessionInv
<1>7. Owned'
  <2>1. ASSUME NEW t \in Tabs, ~Free(Flusher(t))'
        PROVE  flush'[t].pc = "on"
    <3>1. CASE Flusher(t) = c
      BY <1>2, <3>1, FlusherFacts
    <3>2. CASE Flusher(t) # c
      BY <1>5, <2>1, <3>2, FlusherFacts DEF QueueInv, Owned, Free
    <3>3. QED BY <3>1, <3>2
  <2>2. \A d \in Sheets : sheet'[d] = None => call'[d].pc = "idle"
    BY <1>5, FlusherFacts DEF QueueInv, Owned
  <2>3. QED BY <2>1, <2>2 DEF QueueInv, Owned
<1>8. Told'
  <2> SUFFICES ASSUME NEW t \in Tabs, call'[Flusher(t)].pc = "ended"
               PROVE  ToldOf(t, call[Flusher(t)])'
    BY DEF Told
  <2>1. CASE Flusher(t) = c
    <3>1. Head(flush'[t].todo) = Subject(c) /\ call'[Flusher(t)].res = res
      BY <1>1, <1>2, <1>5, <2>1, FlusherFacts
    <3>2. QED BY <3>1 DEF ToldOf
  <2>2. CASE Flusher(t) # c
    <3>1. call'[Flusher(t)] = call[Flusher(t)]
      BY <1>5, <2>2, FlusherFacts
    <3>2. ToldOf(t, call[Flusher(t)])
      BY <3>1 DEF QueueInv, Told
    <3>3. QED BY <3>1, <3>2 DEF ToldOf
  <2>3. QED BY <2>1, <2>2
<1>9. Kept'
  BY KeptGrows DEF QueueInv
<1>10. QED BY <1>4, <1>6, <1>7, <1>8, <1>9 DEF QueueInv

LEMMA ServerKeeps ==
    ASSUME QueueInv, NEW c \in Calls, Answered(c) \/ Failed(c) \/ Dropped(c)
    PROVE  QueueInv'
<1>1. CASE Answered(c)
  <2>1. CASE /\ accepted' = accepted \cup {Subject(c)} /\ UNCHANGED answered
             /\ call' = [call EXCEPT ![c] = Ended("ok")]
    BY <1>1, <2>1, EndKeeps DEF Answered
  <2>2. CASE /\ answered' = answered \cup {Subject(c)} /\ UNCHANGED accepted
             /\ call' = [call EXCEPT ![c] = Ended("refused")]
    BY <1>1, <2>2, EndKeeps DEF Answered
  <2>3. QED BY <1>1, <2>1, <2>2 DEF Answered, Handled
<1>2. CASE Failed(c)
  BY <1>2, EndKeeps DEF Failed
<1>3. CASE Dropped(c)
  BY <1>3, EndKeeps DEF Dropped
<1>4. QED BY <1>1, <1>2, <1>3

-----------------------------------------------------------------------------
(* Sheets.                                                                 *)

LEMMA PressKeeps ==
    ASSUME QueueInv, NEW c \in Sheets, NEW e \in Entries, Press(c, e)
    PROVE  QueueInv'
<1>0. /\ call' = [call EXCEPT ![c] = Sent(TabOf[c])] /\ sheet' = [sheet EXCEPT ![c] = e]
      /\ tab[TabOf[c]].user /\ sheet[c] = None /\ c \in Calls
      /\ UNCHANGED <<online, active, calm, cookie, live, tab, excused,
                     queue, flush, inited, accepted, answered, promised>>
  BY FlusherFacts DEF Press
<1>1. call[c].pc = "idle" /\ call[c].pc \notin InFlight
  BY <1>0 DEF QueueInv, Owned, InFlight
<1>2. /\ Sent(TabOf[c]) \in CallState /\ Sent(TabOf[c]).pc = "sent"
      /\ Sent(TabOf[c]).pc \notin InFlight
  BY SentCall DEF InFlight
<1>3. SessionInv'
  <2>1. tab[TabOf[c]].open
    BY <1>0 DEF QueueInv, SessionInv, Leading
  <2>2. QED BY <1>0, <1>1, <1>2, <2>1, QuietCall DEF QueueInv
<1>4. \A d \in Calls : d # c => call'[d] = call[d]
  BY <1>0, QueueTypes
<1>5. \A t \in Tabs : Flusher(t) \in Calls /\ call'[Flusher(t)] = call[Flusher(t)]
  BY <1>4, FlusherFacts
<1>6. TypeOK'
  BY <1>0, <1>3 DEF QueueInv, TypeOK, SessionInv
<1>7. Owned'
  <2>1. \A t \in Tabs : ~Free(Flusher(t))' => flush'[t].pc = "on"
    BY <1>0, <1>5 DEF QueueInv, Owned, Free
  <2>2. \A d \in Sheets : sheet'[d] = None => call'[d].pc = "idle"
    BY <1>0, <1>4, QueueTypes, FlusherFacts DEF QueueInv, Owned
  <2>3. QED BY <1>0, <2>1, <2>2 DEF QueueInv, Owned
<1>8. Told'
  BY <1>0, <1>5 DEF QueueInv, Told, ToldOf
<1>9. Kept'
  BY <1>0, KeptGrows DEF QueueInv
<1>10. QED BY <1>3, <1>6, <1>7, <1>8, <1>9 DEF QueueInv

LEMMA PressEndKeeps ==
    ASSUME QueueInv, NEW c \in Calls, PressEnds(c)
    PROVE  QueueInv'
<1>0. /\ call' = [call EXCEPT ![c] = Idle] /\ sheet' = [sheet EXCEPT ![c] = None]
      /\ c \in Sheets /\ call[c].pc = "ended"
      /\ \/ UNCHANGED <<queue, promised>>
         \/ queue' = Append(queue, sheet[c]) /\ promised' = promised \cup {sheet[c]}
      /\ UNCHANGED <<online, active, calm, cookie, live, tab, excused,
                     flush, inited, accepted, answered>>
  BY DEF PressEnds, Enqueued
<1>1. sheet[c] \in Entries /\ call[c].pc \notin InFlight
  BY <1>0, SubjectFacts DEF Subject, IsFlusher
<1>2. Idle \in CallState /\ Idle.pc = "idle" /\ Idle.pc \notin InFlight
  BY IdleCall DEF InFlight
<1>3. SessionInv'
  BY <1>0, <1>1, <1>2, QuietCall DEF QueueInv
<1>4. \A d \in Calls : call'[d] = IF d = c THEN Idle ELSE call[d]
  BY <1>0, QueueTypes
<1>5. \A t \in Tabs : Flusher(t) \in Calls /\ call'[Flusher(t)] = call[Flusher(t)]
  BY <1>0, <1>4, FlusherFacts
<1>6. /\ queue' \in Seq(Entries) /\ promised' \subseteq Entries
      /\ \A e : Contains(queue, e) => Contains(queue', e)
      /\ \A e \in promised' \ promised : Contains(queue', e)
  <2>1. CASE UNCHANGED <<queue, promised>>
    BY <2>1, QueueTypes
  <2>2. CASE queue' = Append(queue, sheet[c]) /\ promised' = promised \cup {sheet[c]}
    <3>1. /\ queue' \in Seq(Entries) /\ Contains(queue', sheet[c])
          /\ \A e : Contains(queue, e) => Contains(queue', e)
      BY <1>1, <2>2, QueueTypes, AppendKeeps
    <3>2. QED BY <1>1, <2>2, <3>1, QueueTypes
  <2>3. QED BY <1>0, <2>1, <2>2
<1>7. TypeOK'
  BY <1>0, <1>3, <1>6 DEF QueueInv, TypeOK, SessionInv
<1>8. Owned'
  <2>1. \A t \in Tabs : ~Free(Flusher(t))' => flush'[t].pc = "on"
    BY <1>0, <1>5 DEF QueueInv, Owned, Free
  <2>2. \A d \in Sheets : sheet'[d] = None => call'[d].pc = "idle"
    BY <1>0, <1>2, <1>4, QueueTypes, FlusherFacts DEF QueueInv, Owned
  <2>3. QED BY <1>0, <2>1, <2>2 DEF QueueInv, Owned
<1>9. Told'
  BY <1>0, <1>5 DEF QueueInv, Told, ToldOf
<1>10. Kept'
  <2>1. \A e \in promised' : KeptOne(e)'
    BY <1>0, <1>6 DEF QueueInv, Kept, KeptOne
  <2>2. QED BY <2>1 DEF Kept
<1>11. QED BY <1>3, <1>7, <1>8, <1>9, <1>10 DEF QueueInv

-----------------------------------------------------------------------------
(* Flushes.                                                                *)

\* A step of flushes that makes no request: one that goes on is left alone.
LEMMA FlushStep ==
    ASSUME QueueInv, SessionInv', flush' \in [Tabs -> FlushRow],
           inited' \in [Tabs -> BOOLEAN],
           \A t \in Tabs : flush[t].pc = "on" => flush'[t] = flush[t],
           \A t \in Tabs : flush'[t].pc = "on" => flush'[t].todo # <<>>,
           \A t \in Tabs : flush'[t].pc # "off" \/ inited'[t] => tab'[t].open,
           UNCHANGED <<call, excused, queue, sheet, accepted, answered, promised>>
    PROVE  QueueInv'
<1>1. TypeOK'
  BY DEF QueueInv, TypeOK, SessionInv, FlushRow
<1>2. \A t \in Tabs : ~Free(Flusher(t)) => flush[t].pc = "on" /\ flush'[t] = flush[t]
  BY DEF QueueInv, Owned
<1>3. Owned'
  <2>1. \A t \in Tabs : ~Free(Flusher(t))' => flush'[t].pc = "on"
    BY <1>2 DEF Free
  <2>2. \A c \in Sheets : sheet'[c] = None => call'[c].pc = "idle"
    BY DEF QueueInv, Owned
  <2>3. QED BY <2>1, <2>2 DEF Owned
<1>4. Told'
  <2> SUFFICES ASSUME NEW t \in Tabs, call'[Flusher(t)].pc = "ended"
               PROVE  ToldOf(t, call[Flusher(t)])'
    BY DEF Told
  <2>1. ~Free(Flusher(t)) /\ ToldOf(t, call[Flusher(t)])
    BY DEF QueueInv, Told, Free, InFlight
  <2>2. flush'[t] = flush[t]
    BY <1>2, <2>1
  <2>3. QED BY <2>1, <2>2 DEF ToldOf
<1>5. Kept'
  BY KeptGrows DEF QueueInv
<1>6. QED BY <1>1, <1>3, <1>4, <1>5 DEF QueueInv

LEMMA BegunRow ==
    ASSUME QueueInv, NEW t \in Tabs
    PROVE  /\ Begun(t) \in FlushRow /\ (flush[t].pc # "off" => Begun(t) = flush[t])
           /\ flush[t].pc = "off" => Begun(t).pc = "opening"
<1>1. [NoFlush EXCEPT !.pc = "opening"] \in FlushRow
      /\ [NoFlush EXCEPT !.pc = "opening"].pc = "opening"
  BY FlushRows DEF FlushRow
<1>2. QED BY <1>1, QueueTypes DEF Begun

LEMMA MountKeeps ==
    ASSUME QueueInv, NEW t \in Tabs, MountShell(t)
    PROVE  QueueInv'
<1>0. /\ tab[t].user /\ inited' = [inited EXCEPT ![t] = TRUE]
      /\ flush' = (IF online THEN [flush EXCEPT ![t] = Begun(t)] ELSE flush)
      /\ UNCHANGED <<sessionVars, queue, sheet, accepted, answered, promised>>
  BY DEF MountShell
<1>1. SessionInv' /\ UNCHANGED <<tab, call, excused>> /\ tab[t].open
  BY <1>0, SessionStepKeeps DEF QueueInv, sessionVars, SessionInv, Leading
<1>2. /\ flush' \in [Tabs -> FlushRow] /\ inited' \in [Tabs -> BOOLEAN]
      /\ \A u \in Tabs : u # t => flush'[u] = flush[u] /\ inited'[u] = inited[u]
      /\ flush'[t] = Begun(t) \/ flush'[t] = flush[t]
  BY <1>0, BegunRow, QueueTypes
<1>3. \A u \in Tabs : flush[u].pc = "on" => flush'[u] = flush[u]
  BY <1>2, BegunRow
<1>4. \A u \in Tabs : flush'[u].pc = "on" => flush'[u].todo # <<>>
  <2>1. \A u \in Tabs : flush'[u].pc = "on" => flush'[u] = flush[u]
    BY <1>2, BegunRow
  <2>2. QED BY <2>1 DEF QueueInv, Owned
<1>5. \A u \in Tabs : flush'[u].pc # "off" \/ inited'[u] => tab'[u].open
  BY <1>1, <1>2 DEF QueueInv, Owned
<1>6. QED BY <1>0, <1>1, <1>2, <1>3, <1>4, <1>5, FlushStep

LEMMA CoverageKeeps ==
    ASSUME QueueInv, CoverageReturns
    PROVE  QueueInv'
<1>0. /\ GoOnline /\ UNCHANGED <<queue, sheet, inited, accepted, answered, promised>>
      /\ flush' = [t \in Tabs |-> IF inited[t] THEN Begun(t) ELSE flush[t]]
  BY DEF CoverageReturns
<1>1. SessionInv' /\ UNCHANGED <<tab, call, excused>>
  BY <1>0, NetworkKeeps DEF QueueInv, GoOnline
<1>2. /\ flush' \in [Tabs -> FlushRow]
      /\ \A t \in Tabs : flush'[t] = IF inited[t] THEN Begun(t) ELSE flush[t]
  BY <1>0, BegunRow, QueueTypes
<1>3. \A t \in Tabs : flush[t].pc = "on" => flush'[t] = flush[t]
  BY <1>2, BegunRow
<1>4. \A t \in Tabs : flush'[t].pc = "on" => flush'[t].todo # <<>>
  <2>1. \A t \in Tabs : flush'[t].pc = "on" => flush'[t] = flush[t]
    BY <1>2, BegunRow
  <2>2. QED BY <2>1 DEF QueueInv, Owned
<1>5. \A t \in Tabs : flush'[t].pc # "off" \/ inited'[t] => tab'[t].open
  BY <1>0, <1>1, <1>2 DEF QueueInv, Owned
<1>6. QED BY <1>0, <1>1, <1>2, <1>3, <1>4, <1>5, QueueTypes, FlushStep

LEMMA SnapshotKeeps ==
    ASSUME QueueInv, NEW t \in Tabs, TakeSnapshot(t)
    PROVE  QueueInv'
<1>0. /\ flush[t].pc = "opening"
      /\ UNCHANGED <<sessionVars, queue, sheet, inited, accepted, answered, promised>>
  BY DEF TakeSnapshot
<1>1. PICK row \in FlushRow : /\ flush' = [flush EXCEPT ![t] = row]
                              /\ row.pc = "on" => row.todo # <<>>
  <2>1. CASE queue = <<>>
    BY <2>1, FlushRows DEF TakeSnapshot
  <2>2. CASE queue # <<>>
    <3>1. /\ [pc |-> "on", todo |-> queue] \in FlushRow
          /\ [pc |-> "on", todo |-> queue].todo = queue
      BY QueueTypes, FlushRows
    <3>2. flush' = [flush EXCEPT ![t] = [pc |-> "on", todo |-> queue]]
      BY <2>2 DEF TakeSnapshot
    <3>3. QED BY <2>2, <3>1, <3>2
  <2>3. QED BY <2>1, <2>2
<1>2. SessionInv' /\ UNCHANGED <<tab, call, excused>> /\ tab[t].open
  BY <1>0, SessionStepKeeps DEF QueueInv, sessionVars, Owned
<1>3. /\ flush' \in [Tabs -> FlushRow]
      /\ \A u \in Tabs : flush'[u] = IF u = t THEN row ELSE flush[u]
  BY <1>1, QueueTypes
<1>4. \A u \in Tabs : flush[u].pc = "on" => flush'[u] = flush[u]
  BY <1>0, <1>3
<1>5. \A u \in Tabs : flush'[u].pc = "on" => flush'[u].todo # <<>>
  BY <1>1, <1>3 DEF QueueInv, Owned
<1>6. \A u \in Tabs : flush'[u].pc # "off" \/ inited'[u] => tab'[u].open
  BY <1>0, <1>2, <1>3 DEF QueueInv, Owned
<1>7. QED BY <1>0, <1>2, <1>3, <1>4, <1>5, <1>6, QueueTypes, FlushStep

LEMMA SendKeeps ==
    ASSUME QueueInv, NEW t \in Tabs, SendNext(t)
    PROVE  QueueInv'
<1> DEFINE c == Flusher(t)
<1>0. /\ flush[t].pc = "on" /\ call[c].pc = "idle" /\ call' = [call EXCEPT ![c] = Sent(t)]
      /\ UNCHANGED <<online, active, calm, cookie, live, tab, excused>>
      /\ UNCHANGED <<queue, sheet, flush, inited, accepted, answered, promised>>
      /\ c \in Calls /\ TabOf[c] = t /\ c \notin Sheets
  BY FlusherFacts DEF SendNext, queueVars
<1> HIDE DEF c
<1>1. Sent(t) \in CallState /\ Sent(t).pc = "sent" /\ Sent(t).pc \notin InFlight
  BY SentCall DEF InFlight
<1>2. tab[t].open /\ call[c].pc \notin InFlight
  BY <1>0 DEF QueueInv, Owned, InFlight
<1>3. SessionInv'
  BY <1>0, <1>1, <1>2, QuietCall DEF QueueInv
<1>4. \A d \in Calls : call'[d] = IF d = c THEN Sent(t) ELSE call[d]
  BY <1>0, QueueTypes
<1>5. TypeOK'
  BY <1>0, <1>3 DEF QueueInv, TypeOK, SessionInv
<1>6. \A u \in Tabs : u # t => Flusher(u) # c
  BY <1>0, FlusherFacts
<1>7. Owned'
  <2>1. ASSUME NEW u \in Tabs, ~Free(Flusher(u))'
        PROVE  flush'[u].pc = "on"
    <3>1. CASE u = t
      BY <1>0, <3>1
    <3>2. CASE u # t
      <4>1. call'[Flusher(u)] = call[Flusher(u)]
        BY <1>4, <1>6, <3>2, FlusherFacts
      <4>2. QED BY <1>0, <2>1, <4>1 DEF QueueInv, Owned, Free
    <3>3. QED BY <3>1, <3>2
  <2>2. \A d \in Sheets : sheet'[d] = None => call'[d].pc = "idle"
    BY <1>0, <1>4, FlusherFacts DEF QueueInv, Owned
  <2>3. QED BY <1>0, <2>1, <2>2 DEF QueueInv, Owned
<1>8. Told'
  <2> SUFFICES ASSUME NEW u \in Tabs, call'[Flusher(u)].pc = "ended"
               PROVE  ToldOf(u, call[Flusher(u)])'
    BY DEF Told
  <2>1. Flusher(u) # c
    BY <1>1, <1>4, FlusherFacts
  <2>2. call'[Flusher(u)] = call[Flusher(u)]
    BY <1>4, <2>1, FlusherFacts
  <2>3. QED BY <1>0, <2>2 DEF QueueInv, Told, ToldOf
<1>9. Kept'
  BY <1>0, KeptGrows DEF QueueInv
<1>10. QED BY <1>3, <1>5, <1>7, <1>8, <1>9 DEF QueueInv

\* What a flush has answered leaves the queue; the head of its list is the
\* only confirmation that does.
LEMMA FlushEndKeeps ==
    ASSUME QueueInv, NEW t \in Tabs, FlushEnds(t)
    PROVE  QueueInv'
<1> DEFINE c == Flusher(t)
           todo == Tail(flush[t].todo)
<1>0. /\ c \in Calls /\ TabOf[c] = t /\ c \notin Sheets
      /\ call[c].pc = "ended" /\ flush[t].pc = "on"
      /\ call' = [call EXCEPT ![c] = Idle]
      /\ UNCHANGED <<online, active, calm, cookie, live, tab, excused,
                     sheet, inited, accepted, answered, promised>>
  BY FlusherFacts DEF FlushEnds
<1>1. IF call[c].res # "network" THEN Delete(Subject(c)) ELSE UNCHANGED queue
  BY DEF FlushEnds, Removes
<1>2. PICK row \in FlushRow : /\ flush' = [flush EXCEPT ![t] = row]
                              /\ row.pc = "on" => row.todo # <<>>
  <2>1. todo \in Seq(Entries)
    <3>1. flush[t].todo \in Seq(Entries) /\ flush[t].todo # <<>>
      BY <1>0, QueueTypes DEF FlushRow, QueueInv, Owned
    <3>2. QED BY <3>1, HeadTailProperties
  <2>2. flush' = [flush EXCEPT ![t] = IF todo = <<>> THEN NoFlush
                                      ELSE [pc |-> "on", todo |-> todo]]
    BY DEF FlushEnds
  <2> HIDE DEF todo
  <2>3. CASE todo = <<>>
    BY <2>2, <2>3, FlushRows
  <2>4. CASE todo # <<>>
    <3>1. /\ [pc |-> "on", todo |-> todo] \in FlushRow
          /\ [pc |-> "on", todo |-> todo].todo = todo
      BY <2>1, FlushRows
    <3>2. flush' = [flush EXCEPT ![t] = [pc |-> "on", todo |-> todo]]
      BY <2>2, <2>4
    <3>3. QED BY <2>4, <3>1, <3>2
  <2>5. QED BY <2>3, <2>4
<1>3. Subject(c) = Head(flush[t].todo) /\ call[c].pc \notin InFlight
  BY <1>0, SubjectFacts
<1> HIDE DEF c, todo
<1>4. Idle \in CallState /\ Idle.pc = "idle" /\ Idle.pc \notin InFlight
  BY IdleCall DEF InFlight
<1>5. SessionInv'
  BY <1>0, <1>3, <1>4, QuietCall DEF QueueInv
<1>6. \A d \in Calls : call'[d] = IF d = c THEN Idle ELSE call[d]
  BY <1>0, QueueTypes
<1>7. \A u \in Tabs : /\ u # t => flush'[u] = flush[u] /\ Flusher(u) # c
                      /\ flush'[u] \in FlushRow
                      /\ flush'[u].pc = "on" => flush'[u].todo # <<>>
  BY <1>0, <1>2, QueueTypes, FlusherFacts DEF QueueInv, Owned
<1>8. /\ queue' \in Seq(Entries)
      /\ \A e : Contains(queue, e) => Contains(queue', e) \/ e = Subject(c)
  BY <1>1, QueueTypes, DeleteKeeps
<1>9. TypeOK'
  <2>1. flush' \in [Tabs -> FlushRow]
    BY <1>2, QueueTypes
  <2>2. QED BY <1>0, <1>5, <1>8, <2>1 DEF QueueInv, TypeOK, SessionInv, FlushRow
<1>10. Owned'
  <2>1. ASSUME NEW u \in Tabs, ~Free(Flusher(u))'
        PROVE  flush'[u].pc = "on"
    <3>1. u # t
      BY <1>0, <1>4, <1>6, <2>1 DEF Free, c
    <3>2. call'[Flusher(u)] = call[Flusher(u)]
      BY <1>6, <1>7, <3>1, FlusherFacts
    <3>3. QED BY <1>7, <2>1, <3>1, <3>2 DEF QueueInv, Owned, Free
  <2>2. \A d \in Sheets : sheet'[d] = None => call'[d].pc = "idle"
    BY <1>0, <1>6, FlusherFacts DEF QueueInv, Owned
  <2>3. \A u \in Tabs : flush'[u].pc # "off" \/ inited'[u] => tab'[u].open
    BY <1>0, <1>7 DEF QueueInv, Owned
  <2>4. QED BY <1>7, <2>1, <2>2, <2>3 DEF Owned
<1>11. Told'
  <2> SUFFICES ASSUME NEW u \in Tabs, call'[Flusher(u)].pc = "ended"
               PROVE  ToldOf(u, call[Flusher(u)])'
    BY DEF Told
  <2>1. u # t
    BY <1>0, <1>4, <1>6 DEF c
  <2>2. call'[Flusher(u)] = call[Flusher(u)] /\ flush'[u] = flush[u]
    BY <1>6, <1>7, <2>1, FlusherFacts
  <2>3. QED BY <1>0, <2>2 DEF QueueInv, Told, ToldOf
<1>12. Kept'
  <2>1. ToldOf(t, call[c])
    BY <1>0 DEF QueueInv, Told, c
  <2>2. call[c] \in CallState
    BY <1>0, QueueTypes
  <2>3. call[c].res # "network" => Subject(c) \in accepted \cup answered \/ excused
    BY <1>3, <2>1, <2>2 DEF ToldOf, CallState
  <2>4. CASE call[c].res = "network"
    BY <1>0, <1>1, <2>4, KeptGrows DEF QueueInv
  <2>5. CASE call[c].res # "network"
    BY <1>0, <1>8, <2>3, <2>5, KeptGrows DEF QueueInv
  <2>6. QED BY <2>4, <2>5
<1>13. QED BY <1>5, <1>9, <1>10, <1>11, <1>12 DEF QueueInv

\* A page that is closed takes its flush with it, not the queue.
LEMMA LeaveKeeps ==
    ASSUME QueueInv, NEW t \in Tabs, LeavePage(t)
    PROVE  QueueInv'
<1>0. /\ ClosePage(t) /\ flush' = [flush EXCEPT ![t] = NoFlush]
      /\ inited' = [inited EXCEPT ![t] = FALSE]
      /\ sheet' = [c \in Sheets |-> IF TabOf[c] = t THEN None ELSE sheet[c]]
      /\ UNCHANGED <<queue, accepted, answered, promised>>
  BY DEF LeavePage
<1>1. /\ SessionInv' /\ (excused => excused')
      /\ \A u \in Tabs : u # t => tab'[u] = tab[u]
      /\ \A c \in Calls : call'[c] = IF TabOf[c] = t THEN Idle ELSE call[c]
  BY <1>0, CloseKeeps, QueueTypes DEF ClosePage
<1>2. /\ flush' \in [Tabs -> FlushRow] /\ inited' \in [Tabs -> BOOLEAN]
      /\ \A u \in Tabs : u # t => flush'[u] = flush[u] /\ inited'[u] = inited[u]
      /\ flush'[t] = NoFlush /\ ~inited'[t]
  BY <1>0, FlushRows, QueueTypes
<1>3. sheet' \in [Sheets -> Entries \cup {None}]
      /\ \A c \in Sheets : sheet'[c] = IF TabOf[c] = t THEN None ELSE sheet[c]
  BY <1>0, QueueTypes
<1>4. TypeOK'
  BY <1>0, <1>1, <1>2, <1>3 DEF QueueInv, TypeOK, SessionInv, FlushRow
<1>5. \A u \in Tabs : u # t => call'[Flusher(u)] = call[Flusher(u)]
  BY <1>1, FlusherFacts
<1>6. call'[Flusher(t)].pc = "idle"
  BY <1>1, FlusherFacts, IdleCall
<1>7. Owned'
  <2>1. ASSUME NEW u \in Tabs, ~Free(Flusher(u))'
        PROVE  flush'[u].pc = "on"
    <3>1. u # t
      BY <1>6, <2>1 DEF Free
    <3>2. QED BY <1>2, <1>5, <2>1, <3>1 DEF QueueInv, Owned, Free
  <2>2. ASSUME NEW u \in Tabs
        PROVE  /\ flush'[u].pc # "off" \/ inited'[u] => tab'[u].open
               /\ flush'[u].pc = "on" => flush'[u].todo # <<>>
    <3>1. CASE u = t
      BY <1>2, <3>1, FlushRows
    <3>2. CASE u # t
      BY <1>1, <1>2, <3>2 DEF QueueInv, Owned
    <3>3. QED BY <3>1, <3>2
  <2>3. \A c \in Sheets : sheet'[c] = None => call'[c].pc = "idle"
    BY <1>1, <1>3, FlusherFacts, IdleCall DEF QueueInv, Owned
  <2>4. QED BY <2>1, <2>2, <2>3 DEF Owned
<1>8. Told'
  <2> SUFFICES ASSUME NEW u \in Tabs, call'[Flusher(u)].pc = "ended"
               PROVE  ToldOf(u, call[Flusher(u)])'
    BY DEF Told
  <2>1. u # t
    BY <1>6
  <2>2. QED BY <1>0, <1>1, <1>2, <1>5, <2>1 DEF QueueInv, Told, ToldOf
<1>9. Kept'
  <2>1. UNCHANGED promised
    BY <1>0
  <2>2. QED BY <1>0, <1>1, <2>1, KeptGrows DEF QueueInv
<1>10. QED BY <1>1, <1>4, <1>7, <1>8, <1>9 DEF QueueInv

-----------------------------------------------------------------------------
LEMMA QueueStarts ==
    ASSUME Init
    PROVE  QueueInv
<1>1. SessionInv /\ \A c \in Calls : call[c].pc = "idle"
  BY SessionStarts, IdleCall DEF Init, SessionInit
<1>2. /\ flush \in [Tabs -> FlushRow] /\ \A t \in Tabs : flush[t].pc = "off"
      /\ queue \in Seq(Entries)
  BY FlushRows, EmptySeq DEF Init
<1>3. TypeOK
  BY <1>1, <1>2 DEF Init, TypeOK, SessionInv, FlushRow
<1>4. Owned
  BY <1>1, <1>2, FlusherFacts DEF Init, Owned, Free
<1>5. Told /\ Kept
  BY <1>1, FlusherFacts DEF Init, Told, Kept
<1>6. QED BY <1>1, <1>3, <1>4, <1>5 DEF QueueInv

LEMMA QueueStepKeeps ==
    ASSUME QueueInv, [Next]_vars
    PROVE  QueueInv'
<1>1. CASE UNCHANGED vars
  <2>1. /\ UNCHANGED <<sessionVars, queue, sheet, flush, inited>>
        /\ UNCHANGED <<accepted, answered, promised>>
    BY <1>1 DEF vars, queueVars
  <2>2. SessionInv' /\ UNCHANGED <<tab, call, excused>>
    BY <2>1, SessionStepKeeps DEF QueueInv, sessionVars
  <2>3. \A t \in Tabs : flush[t].pc # "off" \/ inited[t] => tab[t].open
    BY DEF QueueInv, Owned
  <2>4. \A t \in Tabs : flush[t].pc = "on" => flush[t].todo # <<>>
    BY DEF QueueInv, Owned
  <2>5. QED BY <2>1, <2>2, <2>3, <2>4, QueueTypes, FlushStep
<1>2. CASE (SessionNext \/ GoOffline \/ CalmDown) /\ UNCHANGED queueVars
  BY <1>2, SessionKeepsQueue
<1>3. ASSUME NEW c \in Calls, Answered(c) \/ Failed(c) \/ Dropped(c) \/ PressEnds(c)
      PROVE  QueueInv'
  BY <1>3, ServerKeeps, PressEndKeeps
<1>4. ASSUME NEW c \in Sheets, NEW e \in Entries, Press(c, e)
      PROVE  QueueInv'
  BY <1>4, PressKeeps
<1>5. CASE CoverageReturns
  BY <1>5, CoverageKeeps
<1>6. ASSUME NEW t \in Tabs, MountShell(t) \/ TakeSnapshot(t) \/ SendNext(t)
                             \/ FlushEnds(t) \/ LeavePage(t)
      PROVE  QueueInv'
  BY <1>6, MountKeeps, SnapshotKeeps, SendKeeps, FlushEndKeeps, LeaveKeeps
<1>7. QED BY <1>1, <1>2, <1>3, <1>4, <1>5, <1>6 DEF Next

\* The inductive invariant of the offline queue over its session.
THEOREM QueueInvariant == Spec => []QueueInv
<1>1. Init => QueueInv
  BY QueueStarts
<1>2. QueueInv /\ [Next]_vars => QueueInv'
  BY QueueStepKeeps
<1>3. QED BY <1>1, <1>2, PTL DEF Spec

\* Pages, sheets, flushes and the database keep their types.
THEOREM QueueAlwaysTyped == Spec => []TypeOK
<1>1. QueueInv => TypeOK
  BY DEF QueueInv
<1>2. QED BY <1>1, QueueInvariant, PTL

\* However coverage, pages and tokens come and go, a confirmation the driver
\* was told is kept is in the queue, recorded or answered, or the session
\* ended for a reason.
THEOREM AlwaysKeptUntilAnswered == Spec => []KeptUntilAnswered
<1>1. QueueInv => KeptUntilAnswered
  BY DEF QueueInv, Kept, KeptOne, KeptUntilAnswered, Lost
<1>2. QED BY <1>1, QueueInvariant, PTL

\* Under the traffic of the queue too, a refresh is refused for a reason.
THEOREM QueueSessionEndsForAReason == Spec => []SessionEndsForAReason
<1>1. QueueInv => SessionEndsForAReason
  BY DEF QueueInv, SessionInv, Sound, SessionEndsForAReason
<1>2. QED BY <1>1, QueueInvariant, PTL
=============================================================================
