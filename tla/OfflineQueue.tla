---------------------------- MODULE OfflineQueue ----------------------------
(***************************************************************************)
(* The driver's confirmations.  A confirmation that meets no network is    *)
(* queued in the browser's database, which outlives the page; a tab sends  *)
(* the queue when its shell is first mounted and whenever the coverage     *)
(* returns, one confirmation after the other, from a snapshot.             *)
(***************************************************************************)
EXTENDS Session, Sequences, SequencesExt

CONSTANTS Sheets,   \* the calls of confirmation sheets; the rest are flushes
          Entries   \* confirmations, each of a delivery of its own

ASSUME SheetsAssumption == Sheets = Calls \ {Restorer[t] : t \in Tabs}
ASSUME EntriesAssumption == None \notin Entries

VARIABLES queue,     \* the browser's database, in the order of its keys
          sheet,     \* the confirmation a sheet is sending
          flush,     \* of each tab: the flush and its snapshot
          inited,    \* of each tab: the module has set up its listener
          accepted,  \* confirmations the server has recorded
          answered,  \* history: what else the server answered to one
          promised   \* history: confirmations the driver was told are kept

queueVars == <<queue, sheet, flush, inited, accepted, answered, promised>>
vars == <<sessionVars, queueVars>>

NoFlush == [pc |-> "off", todo |-> <<>>]
Flusher(t) == Restorer[t]
IsFlusher(c) == c \notin Sheets
Subject(c) == IF IsFlusher(c) THEN Head(flush[TabOf[c]].todo) ELSE sheet[c]

-----------------------------------------------------------------------------
\* The server's part: complete, with what may be wrong with it (the delivery
\* is done, or was given to another driver); a failure may be noted twice.
Handled(c, e) ==
    \/ /\ accepted' = accepted \cup {e}
       /\ call' = [call EXCEPT ![c] = Ended("ok")] /\ UNCHANGED answered
    \/ /\ call' = [call EXCEPT ![c] = Ended("refused")]
       /\ answered' = answered \cup {e}
       /\ UNCHANGED accepted

Answered(c) ==
    /\ call[c].pc = "sent" /\ call[c].bearer /\ active /\ online
    /\ Handled(c, Subject(c))
    /\ UNCHANGED <<online, active, calm, cookie, live, tab, excused,
                   queue, sheet, flush, inited, promised>>

\* 5xx, from the service or from what stands before it.
Failed(c) ==
    /\ call[c].pc = "sent" /\ call[c].bearer /\ active /\ online
    /\ call' = [call EXCEPT ![c] = Ended("error")]
    /\ answered' = answered \cup {Subject(c)}
    /\ UNCHANGED <<online, active, calm, cookie, live, tab, excused,
                   queue, sheet, flush, inited, accepted, promised>>

\* The request is lost, or was carried out and its answer is lost.
Dropped(c) ==
    /\ call[c].pc = "sent" /\ Loses
    /\ call' = [call EXCEPT ![c] = Ended("network")]
    /\ \/ UNCHANGED accepted
       \/ call[c].bearer /\ active /\ online /\ accepted' = accepted \cup {Subject(c)}
    /\ UNCHANGED <<online, active, calm, cookie, live, tab, excused,
                   queue, sheet, flush, inited, answered, promised>>

-----------------------------------------------------------------------------
\* handleSubmit.  An error is shown, and the driver may press again.
Press(c, e) ==
    LET t == TabOf[c] IN
    /\ tab[t].user /\ inited[t] /\ sheet[c] = None
    /\ e \notin accepted \cup promised
    /\ \A d \in Sheets : sheet[d] # e
    /\ sheet' = [sheet EXCEPT ![c] = e]
    /\ call' = [call EXCEPT ![c] = Sent(t)]
    /\ UNCHANGED <<online, active, calm, cookie, live, tab, excused,
                   queue, flush, inited, accepted, answered, promised>>

Enqueued(e) == Append(queue, e)

PressEnds(c) ==
    /\ c \in Sheets /\ call[c].pc = "ended"
    /\ IF call[c].res = "network"
       THEN /\ queue' = Enqueued(sheet[c])
            /\ promised' = promised \cup {sheet[c]}
       ELSE UNCHANGED <<queue, promised>>
    /\ sheet' = [sheet EXCEPT ![c] = None]
    /\ call' = [call EXCEPT ![c] = Idle]
    /\ UNCHANGED <<online, active, calm, cookie, live, tab, excused,
                   flush, inited, accepted, answered>>

\* flushQueue up to its first await: one flush at a time in a tab.
Begun(t) == IF flush[t].pc = "off" THEN [NoFlush EXCEPT !.pc = "opening"]
            ELSE flush[t]

\* AppShell is mounted for a user: once in the life of a page.
MountShell(t) ==
    /\ tab[t].user /\ ~inited[t]
    /\ inited' = [inited EXCEPT ![t] = TRUE]
    /\ flush' = IF online THEN [flush EXCEPT ![t] = Begun(t)] ELSE flush
    /\ UNCHANGED <<sessionVars, queue, sheet, accepted, answered, promised>>

CoverageReturns ==
    /\ GoOnline
    /\ flush' = [t \in Tabs |-> IF inited[t] THEN Begun(t) ELSE flush[t]]
    /\ UNCHANGED <<queue, sheet, inited, accepted, answered, promised>>

TakeSnapshot(t) ==
    /\ flush[t].pc = "opening"
    /\ flush' = [flush EXCEPT ![t] =
                   IF queue = <<>> THEN NoFlush
                   ELSE [pc |-> "on", todo |-> queue]]
    /\ UNCHANGED <<sessionVars, queue, sheet, inited, accepted, answered, promised>>

SendNext(t) ==
    /\ flush[t].pc = "on" /\ call[Flusher(t)].pc = "idle"
    /\ call' = [call EXCEPT ![Flusher(t)] = Sent(t)]
    /\ UNCHANGED <<online, active, calm, cookie, live, tab, excused, queueVars>>

\* Mistake: whatever was tried is done with.
AlwaysRemoves(res) == TRUE
\* Mistake: what the server refuses is kept and tried again.
RemovesAccepted(res) == res = "ok"
Removes(res) == res # "network"

\* Deletion by key: an entry that another page has deleted is passed over.
Delete(e) ==
    IF Contains(queue, e)
    THEN \E i \in 1..Len(queue) : queue[i] = e /\ queue' = RemoveAt(queue, i)
    ELSE UNCHANGED queue

FlushEnds(t) ==
    LET c == Flusher(t)
        todo == Tail(flush[t].todo)
    IN /\ flush[t].pc = "on" /\ call[c].pc = "ended"
       /\ IF Removes(call[c].res) THEN Delete(Subject(c)) ELSE UNCHANGED queue
       /\ flush' = [flush EXCEPT ![t] =
                      IF todo = <<>> THEN NoFlush
                      ELSE [pc |-> "on", todo |-> todo]]
       /\ call' = [call EXCEPT ![c] = Idle]
       /\ UNCHANGED <<online, active, calm, cookie, live, tab, excused,
                      sheet, inited, accepted, answered, promised>>

\* What was queued stays; what a sheet had in its hands is gone.
LeavePage(t) ==
    /\ ClosePage(t)
    /\ flush' = [flush EXCEPT ![t] = NoFlush]
    /\ inited' = [inited EXCEPT ![t] = FALSE]
    /\ sheet' = [c \in Sheets |-> IF TabOf[c] = t THEN None ELSE sheet[c]]
    /\ UNCHANGED <<queue, accepted, answered, promised>>

-----------------------------------------------------------------------------
Init ==
    /\ SessionInit
    /\ queue = <<>> /\ accepted = {} /\ answered = {} /\ promised = {}
    /\ sheet = [c \in Sheets |-> None]
    /\ flush = [t \in Tabs |-> NoFlush]
    /\ inited = [t \in Tabs |-> FALSE]

Next ==
    \/ (SessionNext \/ GoOffline \/ CalmDown) /\ UNCHANGED queueVars
    \/ \E c \in Calls : Answered(c) \/ Failed(c) \/ Dropped(c) \/ PressEnds(c)
    \/ \E c \in Sheets, e \in Entries : Press(c, e)
    \/ CoverageReturns
    \/ \E t \in Tabs : MountShell(t) \/ TakeSnapshot(t) \/ SendNext(t)
                       \/ FlushEnds(t) \/ LeavePage(t)

Spec == Init /\ [][Next]_vars

\* What a page, the server and a network that holds do by themselves.
Fairness ==
    /\ WF_vars(CoverageReturns)
    /\ \A t \in Tabs : WF_vars(TakeSnapshot(t) \/ SendNext(t) \/ FlushEnds(t))
    /\ \A c \in Calls :
          /\ WF_vars(\/ Answered(c)
                     \/ (Unauthorized(c) \/ UnauthorizedAgain(c)) /\ UNCHANGED queueVars)
          /\ WF_vars(RefreshStep(c) /\ UNCHANGED queueVars)
          /\ WF_vars(RefreshLost(c) /\ UNCHANGED queueVars)
FairSpec == Spec /\ Fairness

-----------------------------------------------------------------------------
TypeOK ==
    /\ SessionTypeOK
    /\ queue \in Seq(Entries) /\ accepted \subseteq Entries
    /\ answered \subseteq Entries /\ promised \subseteq Entries
    /\ sheet \in [Sheets -> Entries \cup {None}]
    /\ flush \in [Tabs -> [pc : {"off", "opening", "on"}, todo : Seq(Entries)]]
    /\ inited \in [Tabs -> BOOLEAN]

Lost(e) == e \in promised /\ ~Contains(queue, e) /\ e \notin accepted

\* A confirmation the driver was told is kept leaves the queue unrecorded only
\* after the server answered it, or when the session ended for a reason;
\* coverage that comes and goes and pages that are closed never lose it.
KeptUntilAnswered == \A e \in Entries : Lost(e) => e \in answered \/ excused

\* A flush that starts when the network has come to hold, with no sheet under
\* way, empties the queue: nothing in it blocks the rest or stays for ever.
QueueDrains ==
    /\ calm /\ online /\ \A c \in Sheets : sheet[c] = None
    /\ \E t \in Tabs : flush[t].pc = "opening"
    ~> queue = <<>>
=============================================================================
