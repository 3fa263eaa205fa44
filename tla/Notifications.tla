--------------------------- MODULE Notifications ---------------------------
(***************************************************************************)
(* The bell: notifications in the database, the stream that pushes the     *)
(* number of unread ones to an open page, the page that also asks for it   *)
(* every half minute, and the list that marks all read when it is opened.  *)
(* A warning of low stock goes to the staff who may see the stock, asking  *)
(* Permissions for each, once a day for a product.                         *)
(*                                                                         *)
(* One recipient, Viewer, with one page; one product; others who get the   *)
(* warning are Partners.  The stream is in order, the answers are not.     *)
(***************************************************************************)
EXTENDS Permissions, Sequences, SequencesExt

CONSTANTS Viewer, Partners,
          Page,       \* rows of the bell's list
          Polls,      \* bound: questions for the number under way
          MaxEvents   \* bound: streams cut, answers lost and midnights

ASSUME NotificationsAssumption ==
    /\ Viewer \in Users /\ Partners \cap Users = {} /\ IsFiniteSet(Partners)
    /\ Page \in Nat \ {0} /\ MaxEvents \in Nat

VARIABLES notes,      \* rows, oldest first
          job,        \* what a caller does for the bell
          day,
          stream,     \* of the page: open, its number, what is in it
          badge, poll,
          events,     \* of these so far
          shown,      \* history: rows the page has shown
          excused,    \* history: rows marked read that no list could hold
          overlapped  \* history: days two warnings were written together

pageVars == <<stream, badge, poll, events>>
history == <<shown, excused, overlapped>>
vars == <<permVars, notes, job, day, pageVars, history>>

Row == [user : Users \cup Partners, low : BOOLEAN, day : Nat, read : BOOLEAN]
Job == [pc : {"idle", "staff", "loop", "write", "count", "send",
              "listed", "readAll"},
        low : BOOLEAN, staff : SUBSET (Users \X Roles),
        tell : SUBSET (Users \cup Partners),
        stream : Nat, count : Nat, items : SUBSET Nat, upto : Nat]
Free == [pc |-> "idle", low |-> FALSE, staff |-> {}, tell |-> {}, stream |-> 0,
         count |-> 0, items |-> {}, upto |-> 0]

Mine == {i \in DOMAIN notes : notes[i].user = Viewer}
Unread == {i \in Mine : ~notes[i].read}
\* Mistake: the list is in the order of the rows.
Oldest == {i \in Mine : Cardinality({j \in Mine : j < i}) < Page}
Newest == {i \in Mine : Cardinality({j \in Mine : j > i}) < Page}

Begins(c, work, j) ==
    /\ Turn(c, work) /\ job[c].pc = "idle"
    /\ job' = [job EXCEPT ![c] = j]
    /\ UNCHANGED <<role, override, cache, ask, had>>
Goes(c, pc) == job' = [job EXCEPT ![c].pc = pc]
Ends(c) == job' = [job EXCEPT ![c] = Free]

\* pushUnread begins when there are streams to push to.
PushTo(c, told) ==
    IF told /\ stream.open
    THEN job' = [job EXCEPT ![c] = [Free EXCEPT !.pc = "count",
                                                !.stream = stream.no]]
    ELSE Ends(c)

-----------------------------------------------------------------------------
\* Mistake: only a warning somebody has read counts as one.
WarnedAndRead ==
    \E i \in DOMAIN notes : notes[i].low /\ notes[i].day = day /\ notes[i].read
WarnedToday == \E i \in DOMAIN notes : notes[i].low /\ notes[i].day = day

LowStock(c) ==
    /\ ~WarnedToday
    /\ Begins(c, "lowStock", [Free EXCEPT !.pc = "staff", !.low = TRUE,
                                          !.tell = Partners])
    /\ UNCHANGED <<notes, day, pageVars, history>>

ReadStaff(c) ==
    /\ job[c].pc = "staff"
    /\ job' = [job EXCEPT ![c].pc = "loop", ![c].staff =
          {<<u, role[u]>> : u \in {v \in Users : role[v] # "DRIVER"}}]
    /\ UNCHANGED <<permVars, notes, day, pageVars, history>>

AskNext(c) ==
    /\ job[c].pc = "loop" /\ ask[c].pc = "idle"
    /\ \/ job[c].staff = {} /\ Goes(c, "write") /\ UNCHANGED permVars
       \/ \E s \in job[c].staff :
             /\ job' = [job EXCEPT ![c].staff = @ \ {s}]
             /\ ask' = [ask EXCEPT ![c] = Asks(s[1], s[2])]
             /\ UNCHANGED <<role, override, cache, begun, had>>
    /\ UNCHANGED <<notes, day, pageVars, history>>

\* The answer: the guard of a request is done with it, the loop collects.
UseAnswer(c) ==
    /\ ask[c].pc = "answered"
    /\ ask' = [ask EXCEPT ![c] = Quiet]
    /\ job' = [job EXCEPT ![c].tell =
          IF job[c].pc = "loop" /\ ask[c].yes THEN @ \cup {ask[c].user} ELSE @]
    /\ UNCHANGED <<role, override, cache, begun, had, notes, day, pageVars,
                   history>>

\* Any other notification to the viewer.
Notify(c) ==
    /\ Begins(c, "notify", [Free EXCEPT !.pc = "write", !.tell = {Viewer}])
    /\ UNCHANGED <<notes, day, pageVars, history>>

Warning(c) == job[c].low /\ job[c].pc \in {"staff", "loop", "write"}
\* One row for each who is told, then the pushes.
WriteNotes(c) ==
    /\ job[c].pc = "write"
    /\ notes' = notes \o SetToSeq({[user |-> u, low |-> job[c].low, day |-> day,
                                    read |-> FALSE] : u \in job[c].tell})
    /\ overlapped' = IF job[c].low /\ \E d \in Callers \ {c} : Warning(d)
                     THEN overlapped \cup {day} ELSE overlapped
    /\ PushTo(c, Viewer \in job[c].tell)
    /\ UNCHANGED <<permVars, day, pageVars, shown, excused>>

Count(c) ==
    /\ job[c].pc = "count"
    /\ job' = [job EXCEPT ![c].pc = "send", ![c].count = Cardinality(Unread)]
    /\ UNCHANGED <<permVars, notes, day, pageVars, history>>

\* It reaches the streams there were; one opened since may share their set.
Send(c) ==
    /\ job[c].pc = "send"
    /\ \/ /\ stream.open
          /\ stream' = [stream EXCEPT !.sent = Append(@, job[c].count)]
       \/ stream.no # job[c].stream /\ UNCHANGED stream
    /\ Ends(c)
    /\ UNCHANGED <<permVars, notes, day, badge, poll, events, history>>

-----------------------------------------------------------------------------
\* NotificationBell: opening it asks for the list, and when something there
\* is unread, for all to be marked.
OpenBell(c) ==
    /\ Begins(c, "bell", [Free EXCEPT
          !.pc = "listed", !.items = Newest, !.upto = Len(notes),
          !.low = Newest \cap Unread # {}])
    /\ \A d \in Callers : job[d].pc # "listed"
    /\ UNCHANGED <<notes, day, pageVars, history>>

ShowList(c) ==
    /\ job[c].pc = "listed"
    /\ shown' = shown \cup job[c].items
    /\ IF job[c].low THEN Goes(c, "readAll") ELSE Ends(c)
    /\ UNCHANGED <<permVars, notes, day, pageVars, excused, overlapped>>

\* What was marked but could not be on the list: it came after the list was
\* read, or was too old for it.
OffTheList(c) ==
    {i \in Unread : \/ i > job[c].upto
                    \/ Cardinality({j \in Mine : i < j /\ j <= job[c].upto}) >= Page}
MarkAllRead(c) ==
    /\ job[c].pc = "readAll"
    /\ notes' = [i \in DOMAIN notes |-> [notes[i] EXCEPT
                    !.read = @ \/ notes[i].user = Viewer]]
    /\ excused' = excused \cup OffTheList(c)
    /\ PushTo(c, TRUE)
    /\ UNCHANGED <<permVars, day, pageVars, shown, overlapped>>

\* The request to mark them fails, and the bell says nothing of it.
MarkingLost(c) ==
    /\ events < MaxEvents /\ events' = events + 1
    /\ job[c].pc = "readAll" /\ Ends(c)
    /\ UNCHANGED <<permVars, notes, day, stream, badge, poll, history>>

\* A row of the list is opened.
MarkRead(c, i) ==
    /\ i \in shown /\ ~notes[i].read
    /\ Turn(c, "bell") /\ job[c].pc = "idle"
    /\ notes' = [notes EXCEPT ![i].read = TRUE]
    /\ PushTo(c, TRUE)
    /\ UNCHANGED <<role, override, cache, ask, had, day, pageVars, history>>

-----------------------------------------------------------------------------
NoPoll == [pc |-> "idle", count |-> 0]

\* AppShell: every half minute, and after something was read.
UnreadCount(p) ==
    /\ poll[p].pc = "idle"
    /\ poll' = [poll EXCEPT ![p] = [pc |-> "answered",
                                    count |-> Cardinality(Unread)]]
    /\ UNCHANGED <<permVars, notes, job, day, stream, badge, events, history>>

\* Mistake: no number is no news.
SomeNumberArrives(p) ==
    /\ poll[p].pc = "answered"
    /\ badge' = IF poll[p].count = 0 THEN badge ELSE poll[p].count
    /\ poll' = [poll EXCEPT ![p] = NoPoll]
    /\ UNCHANGED <<permVars, notes, job, day, stream, events, history>>
NumberArrives(p) ==
    /\ poll[p].pc = "answered"
    /\ badge' = poll[p].count
    /\ poll' = [poll EXCEPT ![p] = NoPoll]
    /\ UNCHANGED <<permVars, notes, job, day, stream, events, history>>

Event == events < MaxEvents /\ events' = events + 1
NumberLost(p) ==
    /\ Event /\ poll[p].pc = "answered"
    /\ poll' = [poll EXCEPT ![p] = NoPoll]
    /\ UNCHANGED <<permVars, notes, job, day, stream, badge, history>>

PushArrives ==
    /\ stream.open /\ stream.sent # <<>>
    /\ badge' = Head(stream.sent)
    /\ stream' = [stream EXCEPT !.sent = Tail(@)]
    /\ UNCHANGED <<permVars, notes, job, day, poll, events, history>>

StreamCut ==
    /\ Event /\ stream.open
    /\ stream' = [stream EXCEPT !.open = FALSE, !.sent = <<>>]
    /\ UNCHANGED <<permVars, notes, job, day, badge, poll, history>>

Reconnect ==
    /\ ~stream.open
    /\ stream' = [stream EXCEPT !.open = TRUE, !.no = @ + 1]
    /\ UNCHANGED <<permVars, notes, job, day, badge, poll, events, history>>

NewDay ==
    /\ Event
    /\ day' = day + 1
    /\ UNCHANGED <<permVars, notes, job, stream, badge, poll, history>>

-----------------------------------------------------------------------------
Init ==
    /\ PermInit
    /\ notes = <<>> /\ day = 0 /\ badge = 0 /\ events = 0
    /\ job = [c \in Callers |-> Free]
    /\ stream = [open |-> TRUE, no |-> 0, sent |-> <<>>]
    /\ poll = [p \in Polls |-> NoPoll]
    /\ shown = {} /\ excused = {} /\ overlapped = {}

Pushing(c) == Count(c) \/ Send(c)
ServePoll(p) == UnreadCount(p) \/ NumberArrives(p)
Access ==
    /\ \/ \E c \in Callers : (job[c].pc = "idle" /\ Starts(c)) \/ GoesOn(c)
       \/ \E u \in Users : Expire(u)
    /\ UNCHANGED <<notes, job, day, pageVars, history>>
Next ==
    \/ Access
    \/ \E c \in Callers :
          \/ LowStock(c) \/ ReadStaff(c) \/ AskNext(c)
          \/ UseAnswer(c) \/ Notify(c) \/ WriteNotes(c) \/ Pushing(c)
          \/ OpenBell(c) \/ ShowList(c) \/ MarkAllRead(c) \/ MarkingLost(c)
          \/ \E i \in Mine : MarkRead(c, i)
    \/ \E p \in Polls : ServePoll(p) \/ NumberLost(p)
    \/ PushArrives \/ StreamCut \/ Reconnect \/ NewDay

Spec == Init /\ [][Next]_vars

\* The timers of the page tick, and what was asked and not lost is answered.
Fairness ==
    /\ \A p \in Polls : WF_vars(ServePoll(p))
    /\ \A c \in Callers : WF_vars(Pushing(c))
    /\ WF_vars(PushArrives)
FairSpec == Spec /\ Fairness

-----------------------------------------------------------------------------
TypeOK ==
    /\ PermTypeOK
    /\ notes \in Seq(Row) /\ job \in [Callers -> Job] /\ day \in Nat
    /\ stream \in [open : BOOLEAN, no : Nat, sent : Seq(Nat)]
    /\ badge \in Nat
    /\ poll \in [Polls -> [pc : {"idle", "answered"}, count : Nat]]
    /\ events \in 0..MaxEvents
    /\ shown \subseteq Nat /\ excused \subseteq Nat /\ overlapped \subseteq Nat

\* A product is warned about once a day, each of those who are told, unless
\* two checks were under way together (notifications.service.ts:245).
WarnedOnceADay ==
    \A u \in Users \cup Partners, d \in 0..MaxEvents :
        \/ d \in overlapped
        \/ Cardinality({i \in DOMAIN notes : notes[i].user = u /\ notes[i].low
                                             /\ notes[i].day = d}) <= 1

\* Marking all as read when the bell is opened reads nothing the viewer did
\* not see, except what came between the list and the marking or was too old
\* for the list (NotificationBell.jsx:66).
ReadWasShown ==
    \A i \in Mine : notes[i].read => i \in shown \cup excused

\* Whatever pushes and answers cross, are lost or come late, the number at the
\* bell ends up as the number of unread notifications, by the question that is
\* asked again (AppShell.jsx:64): it cannot stay wrong.
BadgeSettles == <>[](badge = Cardinality(Unread))
=============================================================================
