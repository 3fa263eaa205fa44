--------------------------- MODULE OrderRequests ----------------------------
(***************************************************************************)
(* Orders that customers ask for through the public link.  A customer's    *)
(* page sends a form over a network that loses messages; the service stores*)
(* a request; staff turn it into an order or reject it.  Converting is not *)
(* one transaction: the order is created and paid, then confirmed, then the*)
(* request is marked, and the process may die or fail in between.          *)
(***************************************************************************)
EXTENDS OrderForms, Naturals

CONSTANTS Customers, RequestIds, OrderIds, Staff, None,
          Forms,      \* forms users fill in
          MaxLinks    \* bound: how often the link is changed

ASSUME FormsAssumption == Forms \subseteq Form
ASSUME NoneAssumption == None \notin OrderIds \cup RequestIds \cup Customers
ASSUME RowsAssumption == IsFiniteSet(RequestIds) /\ MaxLinks \in Nat \ {0}

VARIABLES link,      \* the token of the link that is valid
          page,      \* the customers' pages
          request,   \* OrderRequest rows
          order,     \* Order rows
          call,      \* staff calls of convert
          lost,      \* history: answers to a stored submit that were lost
          cut,       \* history: requests whose convert failed half way
          met        \* history: requests two staff handled at one time

vars == <<link, page, request, order, call, lost, cut, met>>
history == <<lost, cut, met>>

NoForm == [region |-> "UB", name |-> FALSE, parts |-> {}, long |-> {}]
NoRequest == [status |-> "none", by |-> None, addr |-> NoForm, orderId |-> None]
NoOrder == [status |-> "none", from |-> None, addr |-> NoForm]
Idle == [pc |-> "idle", request |-> None, order |-> None]
Closed == [pc |-> "closed", token |-> 0, sent |-> NoForm]

Exists(q) == request[q].status # "none"
OrdersOf(q) == {o \in OrderIds : order[o].from = q}
Handling(q) == {c \in Staff : call[c].request = q}

-----------------------------------------------------------------------------
\* The page loads with the token it was opened with.
OpenPage(u) ==
    /\ page[u].pc = "closed"
    /\ page' = [page EXCEPT ![u] = [Closed EXCEPT !.pc = "open", !.token = link]]
    /\ UNCHANGED <<link, request, order, call, history>>

\* The button sends the form; after an error it may be pressed again.
PressSend(u, f) ==
    /\ page[u].pc \in {"open", "error"}
    /\ LinkPageAccepts(f)
    /\ page' = [page EXCEPT ![u].pc = "sending", ![u].sent = LinkPageSends(f)]
    /\ UNCHANGED <<link, request, order, call, history>>

SubmitRefused(u) ==
    /\ page[u].pc = "sending"
    /\ \/ page[u].token # link
       \/ ~RequestDtoAccepts(page[u].sent)
    /\ page' = [page EXCEPT ![u].pc = "error"]
    /\ UNCHANGED <<link, request, order, call, history>>

Submit(u, q) ==
    /\ page[u].pc = "sending"
    /\ page[u].token = link
    /\ RequestDtoAccepts(page[u].sent)
    /\ ~Exists(q)
    /\ request' = [request EXCEPT ![q] = [NoRequest EXCEPT !.status = "NEW",
                       !.by = u, !.addr = SubmitStores(page[u].sent)]]
    /\ page' = [page EXCEPT ![u].pc = "stored"]
    /\ UNCHANGED <<link, order, call, history>>

\* Mistake: the page says thank you whatever the answer is.
AnswerAlwaysThanks(u) ==
    /\ page[u].pc \in {"stored", "sending"}
    /\ page' = [page EXCEPT ![u].pc = "sent"]
    /\ UNCHANGED <<link, request, order, call, history>>
AnswerArrives(u) ==
    /\ page[u].pc = "stored"
    /\ page' = [page EXCEPT ![u].pc = "sent"]
    /\ UNCHANGED <<link, request, order, call, history>>

\* The network loses the form, or the answer to a form that was stored.
NetworkFails(u) ==
    /\ page[u].pc \in {"sending", "stored"}
    /\ page' = [page EXCEPT ![u].pc = "error"]
    /\ lost' = [lost EXCEPT ![u] = @ + (IF page[u].pc = "stored" THEN 1 ELSE 0)]
    /\ UNCHANGED <<link, request, order, call, cut, met>>

RotateToken ==
    /\ link < MaxLinks
    /\ link' = link + 1
    /\ UNCHANGED <<page, request, order, call, history>>

-----------------------------------------------------------------------------
\* Mistake: a request that was handled can be converted again.
MayConvertAgain(q) == Exists(q)
MayConvert(q) == request[q].status = "NEW"

ConvertRead(c, q) ==
    /\ call[c].pc = "idle"
    /\ MayConvert(q)
    /\ call' = [call EXCEPT ![c] = [Idle EXCEPT !.pc = "create", !.request = q]]
    /\ met' = met \cup (IF Handling(q) # {} THEN {q} ELSE {})
    /\ UNCHANGED <<link, page, request, order, lost, cut>>

\* orders.create: a transaction of its own, which may refuse.
ConvertCreate(c, o) ==
    /\ call[c].pc = "create"
    /\ order[o].status = "none"
    /\ order' = [order EXCEPT ![o] = [status |-> "NEW", from |-> call[c].request,
                     addr |-> CreateStores(request[call[c].request].addr)]]
    /\ call' = [call EXCEPT ![c].pc = "confirm", ![c].order = o]
    /\ UNCHANGED <<link, page, request, history>>

\* orders.updateStatus, which reads before it writes.
ConvertConfirmRead(c) ==
    /\ call[c].pc = "confirm" /\ order[call[c].order].status = "NEW"
    /\ call' = [call EXCEPT ![c].pc = "write"]
    /\ UNCHANGED <<link, page, request, order, history>>

ConvertConfirm(c) ==
    /\ call[c].pc = "write"
    /\ order' = [order EXCEPT ![call[c].order].status = "CONFIRMED"]
    /\ call' = [call EXCEPT ![c].pc = "mark"]
    /\ UNCHANGED <<link, page, request, history>>

ConvertMark(c) ==
    /\ call[c].pc = "mark"
    /\ request' = [request EXCEPT ![call[c].request].status = "CONVERTED",
                                  ![call[c].request].orderId = call[c].order]
    /\ call' = [call EXCEPT ![c] = Idle]
    /\ UNCHANGED <<link, page, order, history>>

\* The order is refused, a colleague has confirmed it first, or the process
\* dies: what was committed stays.
ConvertFails(c) ==
    /\ call[c].pc # "idle"
    /\ call' = [call EXCEPT ![c] = Idle]
    /\ cut' = cut \cup (IF call[c].order # None THEN {call[c].request} ELSE {})
    /\ UNCHANGED <<link, page, request, order, lost, met>>

\* Rejecting asks for no status.
Reject(q) ==
    /\ Exists(q)
    /\ request' = [request EXCEPT ![q].status = "REJECTED"]
    /\ met' = met \cup (IF Handling(q) # {} THEN {q} ELSE {})
    /\ UNCHANGED <<link, page, order, call, lost, cut>>

-----------------------------------------------------------------------------
\* An order the staff type in.
DeskCreate(o, f) ==
    /\ order[o].status = "none"
    /\ OrderPageAccepts(f) /\ CreateDtoAccepts(OrderPageSends(f))
    /\ order' = [order EXCEPT ![o] = [status |-> "NEW", from |-> None,
                                      addr |-> CreateStores(OrderPageSends(f))]]
    /\ UNCHANGED <<link, page, request, call, history>>

DeskConfirm(o) ==
    /\ order[o].status = "NEW"
    /\ order' = [order EXCEPT ![o].status = "CONFIRMED"]
    /\ UNCHANGED <<link, page, request, call, history>>

DeskEdit(o, f) ==
    /\ order[o].status # "none"
    /\ UpdateDtoAccepts(EditPageSends(f))
    /\ order' = [order EXCEPT ![o].addr = UpdateStores(@, EditPageSends(f))]
    /\ UNCHANGED <<link, page, request, call, history>>

-----------------------------------------------------------------------------
Init ==
    /\ link = 1
    /\ page = [u \in Customers |-> Closed]
    /\ request = [q \in RequestIds |-> NoRequest]
    /\ order = [o \in OrderIds |-> NoOrder]
    /\ call = [c \in Staff |-> Idle]
    /\ lost = [u \in Customers |-> 0]
    /\ cut = {}
    /\ met = {}

Answer(u) == SubmitRefused(u) \/ AnswerArrives(u) \/ \E q \in RequestIds : Submit(u, q)
Convert(c) ==
    \/ \E o \in OrderIds : ConvertCreate(c, o)
    \/ ConvertConfirmRead(c) \/ ConvertConfirm(c) \/ ConvertMark(c)
    \/ ConvertFails(c)

Next ==
    \/ \E u \in Customers :
          \/ OpenPage(u) \/ Answer(u) \/ NetworkFails(u)
          \/ \E f \in Forms : PressSend(u, f)
    \/ RotateToken
    \/ \E c \in Staff : Convert(c) \/ \E q \in RequestIds : ConvertRead(c, q)
    \/ \E q \in RequestIds : Reject(q)
    \/ \E o \in OrderIds :
          DeskConfirm(o) \/ \E f \in Forms : DeskCreate(o, f) \/ DeskEdit(o, f)

Spec == Init /\ [][Next]_vars

-----------------------------------------------------------------------------
TypeOK ==
    /\ link \in 1..MaxLinks
    /\ page \in [Customers -> [pc : {"closed", "open", "sending", "stored",
                 "sent", "error"}, token : 0..MaxLinks, sent : Form]]
    /\ request \in [RequestIds ->
          [status : {"none", "NEW", "CONVERTED", "REJECTED"}, addr : Form,
           by : Customers \cup {None}, orderId : OrderIds \cup {None}]]
    /\ order \in [OrderIds -> [status : {"none", "NEW", "CONFIRMED"},
                     from : RequestIds \cup {None}, addr : Form]]
    /\ call \in [Staff -> [pc : {"idle", "create", "confirm", "write", "mark"},
                    request : RequestIds \cup {None},
                    order : OrderIds \cup {None}]]
    /\ lost \in [Customers -> Nat]
    /\ cut \subseteq RequestIds /\ met \subseteq RequestIds

\* A customer who is thanked has a request in the list, and one customer's
\* requests are never more than the answers that were lost, plus one: only a
\* lost answer makes the page send again what was stored (PublicOrder.jsx:141).
ThanksMeansStored ==
    \A u \in Customers :
        LET stored == {q \in RequestIds : request[q].by = u}
        IN /\ page[u].pc \in {"stored", "sent"} => stored # {}
           /\ Cardinality(stored) <=
                 lost[u] + (IF page[u].pc \in {"stored", "sent"} THEN 1 ELSE 0)

\* A request becomes one order.  It becomes more only if two of the staff
\* handled it at one time or a convert failed half way, and without either
\* the converted request names its order (order-requests.service.ts:246).
OneOrderPerRequest ==
    \A q \in RequestIds \ (cut \cup met) :
        /\ Cardinality(OrdersOf(q)) <= 1
        /\ request[q].status = "CONVERTED" => OrdersOf(q) = {request[q].orderId}
        /\ OrdersOf(q) # {} /\ request[q].status = "NEW" => Handling(q) # {}

\* An order has an address it can be brought to and no field of the other
\* region, whichever of the three ways it was written (the create of
\* orders.service.ts:214, its update at :484, the request's copy at :256).
AddressOfOneRegion ==
    \A o \in OrderIds : order[o].status # "none" =>
        Must(order[o].addr) \subseteq order[o].addr.parts
        /\ order[o].addr.parts \subseteq Own(order[o].addr)

\* What the customer's page lets through the server accepts, unless a field
\* is too long, which the page does not ask; and an order with a receiver's
\* name, whichever of the three ways it was written, that is opened in the
\* drawer and saved unchanged is accepted and stays as it is
\* (EditOrderDrawer.jsx:102 against orders.service.ts:214, :484).
PagesAgreeWithServer ==
    /\ \A u \in Customers : page[u].pc = "sending" =>
          RequestDtoAccepts(page[u].sent) \/ page[u].sent.long # {}
    /\ \A o \in OrderIds : order[o].status # "none" /\ order[o].addr.name =>
          LET m == EditPageSends(EditPageShows(order[o].addr))
          IN UpdateDtoAccepts(m) /\ UpdateStores(order[o].addr, m) = order[o].addr

\* The page says of its checks that they are exactly the rules of the DTO
\* (PublicOrder.jsx:17), so that a customer meets no refusal after sending.
SameRules ==
    \A u \in Customers : page[u].pc = "sending" => RequestDtoAccepts(page[u].sent)
=============================================================================
