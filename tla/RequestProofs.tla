--------------------------- MODULE RequestProofs ---------------------------
(***************************************************************************)
(* One order for one request, thanks only for what is stored, and          *)
(* addresses no way of writing an order can spoil, for every set of        *)
(* customers, staff, requests, orders and forms.                           *)
(***************************************************************************)
EXTENDS OrderRequests, FiniteSetTheorems, TLAPS

USE FormsAssumption, NoneAssumption, RowsAssumption

-----------------------------------------------------------------------------
(* The forms: what each of the four ways lets through and stores.          *)

\* An address of one region: all it must have, no part of the other, nothing
\* too long.
Clean(f) == /\ f \in Form /\ Must(f) \subseteq f.parts /\ f.parts \subseteq Own(f)
            /\ f.long = {}

\* What a page sends of a form: the part of its region.
LEMMA PartsOfForm ==
    ASSUME NEW f \in Form
    PROVE  /\ Must(f) \subseteq Own(f) /\ Own(f) \subseteq Parts
           /\ Sent(f) = [f EXCEPT !.parts = f.parts \cap Own(f),
                                  !.long = f.long \cap (Own(f) \cup {"text"})]
           /\ Sent(f) \in Form
           /\ Sent(f).region = f.region /\ Sent(f).name = f.name
           /\ Sent(f).parts = f.parts \cap Own(f)
           /\ Sent(f).long = f.long \cap (Own(f) \cup {"text"})
           /\ Must(Sent(f)) = Must(f) /\ Own(Sent(f)) = Own(f)
BY DEF Form, Parts, Must, Own, Sent

\* What a page sends holds the part of its region only, so the server, which
\* asks for no more than the page but the lengths, refuses it for these only.
LEMMA LinkPageAgrees ==
    ASSUME NEW f \in Form, LinkPageAccepts(f)
    PROVE  /\ LinkPageSends(f) \in Form
           /\ RequestDtoAccepts(LinkPageSends(f)) \/ LinkPageSends(f).long # {}
BY PartsOfForm DEF LinkPageAccepts, LinkPageSends, RequestDtoAccepts

\* What every one of the services stores of an address short enough.
LEMMA StoredOfShort ==
    ASSUME NEW f \in Form, f.long = {}
    PROVE  [f EXCEPT !.parts = f.parts \cap Own(f)] = Sent(f)
BY DEF Sent, Form

\* What is sent of a complete form that is short enough is clean.
LEMMA SentCleans ==
    ASSUME NEW f \in Form, Must(f) \subseteq f.parts, f.long = {}
    PROVE  Clean(Sent(f))
<1>1. /\ Sent(f) \in Form /\ Sent(f).long = {}
      /\ Sent(f).parts = f.parts \cap Own(f)
      /\ Must(Sent(f)) = Must(f) /\ Own(Sent(f)) = Own(f)
  BY PartsOfForm
<1>2. Must(f) \subseteq Own(f)
  BY DEF Must, Own
<1>3. QED BY <1>1, <1>2 DEF Clean

\* What each of the services stores of what it accepts is clean.
LEMMA SubmitCleans ==
    ASSUME NEW f \in Form, RequestDtoAccepts(f)
    PROVE  Clean(SubmitStores(f))
<1>1. SubmitStores(f) = Sent(f)
  BY StoredOfShort DEF SubmitStores, RequestDtoAccepts
<1>2. QED BY <1>1, SentCleans DEF RequestDtoAccepts

\* The same of an order created at the desk, whatever page sent it,
LEMMA CreateCleans ==
    ASSUME NEW f \in Form, Must(f) \subseteq f.parts, f.long = {}
    PROVE  Clean(CreateStores(f))
<1>1. CreateStores(f) = Sent(f)
  BY StoredOfShort DEF CreateStores
<1>2. QED BY <1>1, SentCleans

\* of one that the page of the desk sent,
LEMMA DeskPageCleans ==
    ASSUME NEW f \in Form, OrderPageAccepts(f), CreateDtoAccepts(OrderPageSends(f))
    PROVE  Clean(CreateStores(OrderPageSends(f)))
<1>1. /\ OrderPageSends(f) \in Form
      /\ Must(OrderPageSends(f)) \subseteq OrderPageSends(f).parts
      /\ OrderPageSends(f).long = {}
  BY PartsOfForm DEF OrderPageAccepts, OrderPageSends, CreateDtoAccepts
<1>2. QED BY <1>1, CreateCleans

\* and of an edit.
LEMMA EditCleans ==
    ASSUME NEW f \in Form, NEW row, UpdateDtoAccepts(EditPageSends(f))
    PROVE  Clean(UpdateStores(row, EditPageSends(f)))
<1>1. Sent(f) \in Form
  BY PartsOfForm
<1>3. Must(Sent(f)) \subseteq Sent(f).parts /\ Sent(f).long = {}
  BY DEF UpdateDtoAccepts, EditPageSends
<1>2. UpdateStores(row, EditPageSends(f)) = Sent(Sent(f))
  BY <1>1, <1>3, StoredOfShort DEF UpdateStores, EditPageSends
<1>4. QED BY <1>1, <1>2, <1>3, SentCleans

\* A row with a name that is opened and saved unchanged stays as it is.
LEMMA SavedUnchanged ==
    ASSUME NEW f, Clean(f), f.name
    PROVE  LET m == EditPageSends(EditPageShows(f))
           IN UpdateDtoAccepts(m) /\ UpdateStores(f, m) = f
<1>1. /\ f \in Form /\ Must(f) \subseteq f.parts /\ f.parts \cap Own(f) = f.parts
      /\ f.long = {}
  BY DEF Clean
<1>2. Sent(f) = f
  <2>1. f = [f EXCEPT !.parts = f.parts]
    BY <1>1 DEF Form
  <2>2. QED BY <1>1, <2>1, StoredOfShort
<1>3. UpdateStores(f, f) = f
  BY <1>1, <1>2, StoredOfShort DEF UpdateStores
<1>4. QED
  BY <1>1, <1>2, <1>3 DEF EditPageSends, EditPageShows, UpdateDtoAccepts

-----------------------------------------------------------------------------
(* Types, and what a call of convert stands on.                            *)

\* What a call of convert holds: a request that exists, and from the create
\* on the order it made.
CallInv(c) ==
    /\ call[c].pc = "idle" => call[c].request = None /\ call[c].order = None
    /\ call[c].pc # "idle" => /\ call[c].request \in RequestIds
                              /\ Exists(call[c].request)
    /\ call[c].pc = "create" => call[c].order = None
    /\ call[c].pc \in {"confirm", "write", "mark"} =>
          /\ call[c].order \in OrderIds
          /\ order[call[c].order].status # "none"
          /\ order[call[c].order].from = call[c].request

Page == [pc : {"closed", "open", "sending", "stored", "sent", "error"},
         token : 0..MaxLinks, sent : Form]

\* A row that does not exist is nobody's.
RowsInv ==
    /\ \A q \in RequestIds : ~Exists(q) => request[q].by = None
    /\ \A o \in OrderIds : order[o].status = "none" => order[o].from = None

BaseInv == TypeOK /\ RowsInv /\ \A c \in Staff : CallInv(c)

LEMMA InitBase == ASSUME Init PROVE BaseInv
<1>1. NoForm \in Form
  BY DEF NoForm, Form, Parts
<1>2. TypeOK
  BY <1>1 DEF Init, TypeOK, Closed, NoRequest, NoOrder, Idle
<1>3. RowsInv
  BY DEF Init, RowsInv, NoRequest, NoOrder
<1>4. \A c \in Staff : CallInv(c)
  BY DEF Init, CallInv, Idle
<1>5. QED BY <1>2, <1>3, <1>4 DEF BaseInv

\* Steps that touch neither requests nor orders.
LEMMA PagesMove ==
    ASSUME BaseInv, page' \in [Customers -> Page], link' \in 1..MaxLinks,
           lost' \in [Customers -> Nat],
           UNCHANGED <<request, order, call, cut, met>>
    PROVE  BaseInv'
BY DEF BaseInv, TypeOK, RowsInv, CallInv, Exists, Page

LEMMA RotateBase == ASSUME BaseInv, RotateToken PROVE BaseInv'
<1>1. page \in [Customers -> Page] /\ lost \in [Customers -> Nat]
  BY DEF BaseInv, TypeOK, Page
<1>2. link' \in 1..MaxLinks
  BY DEF RotateToken, BaseInv, TypeOK
<1>3. QED BY <1>1, <1>2, PagesMove DEF RotateToken, history

\* Steps of the customers' pages.
LEMMA PagesBase ==
    ASSUME BaseInv, NEW u \in Customers,
           \/ OpenPage(u) \/ Answer(u) \/ NetworkFails(u)
           \/ \E f \in Forms : PressSend(u, f)
    PROVE  BaseInv'
<1>a. NoForm \in Form
  BY DEF NoForm, Form, Parts
<1>b. /\ page \in [Customers -> Page] /\ link \in 1..MaxLinks
      /\ lost \in [Customers -> Nat]
  BY DEF BaseInv, TypeOK, Page
<1>c. page[u] \in Page
  BY <1>b
<1>1. ASSUME OpenPage(u) PROVE BaseInv'
  <2> DEFINE row == [Closed EXCEPT !.pc = "open", !.token = link]
  <2>1. Closed \in Page
    BY <1>a DEF Closed, Page
  <2>2. row \in Page
    <3>1. [Closed EXCEPT !.pc = "open"] \in Page
      BY <2>1 DEF Page
    <3>2. link \in 0..MaxLinks
      BY <1>b
    <3>3. row = [[Closed EXCEPT !.pc = "open"] EXCEPT !.token = link]
      BY <2>1 DEF Page
    <3>4. QED BY <3>1, <3>2, <3>3 DEF Page
  <2> HIDE DEF row
  <2>3. page' = [page EXCEPT ![u] = row]
    BY <1>1 DEF OpenPage, row
  <2>4. page' \in [Customers -> Page]
    BY <1>b, <2>2, <2>3
  <2>5. QED
    BY <1>1, <1>b, <2>4, PagesMove DEF OpenPage, history
<1>2. ASSUME NEW f \in Forms, PressSend(u, f) PROVE BaseInv'
  <2>1. LinkPageSends(f) \in Form
    BY <1>2, LinkPageAgrees DEF PressSend
  <2>2. page' = [[page EXCEPT ![u].pc = "sending"] EXCEPT ![u].sent = LinkPageSends(f)]
    BY <1>2, <1>b DEF PressSend
  <2>3. page' \in [Customers -> Page]
    BY <1>b, <2>1, <2>2 DEF Page
  <2>4. QED BY <1>2, <1>b, <2>3, PagesMove DEF PressSend, history
<1>3. ASSUME SubmitRefused(u) PROVE BaseInv'
  <2>1. page' \in [Customers -> Page]
    BY <1>3, <1>b DEF SubmitRefused, Page
  <2>2. QED BY <1>3, <1>b, <2>1, PagesMove DEF SubmitRefused, history
<1>4. ASSUME AnswerArrives(u) PROVE BaseInv'
  <2>1. page' \in [Customers -> Page]
    BY <1>4, <1>b DEF AnswerArrives, Page
  <2>2. QED BY <1>4, <1>b, <2>1, PagesMove DEF AnswerArrives, history
<1>5. ASSUME NetworkFails(u) PROVE BaseInv'
  <2>1. page' \in [Customers -> Page] /\ lost' \in [Customers -> Nat]
    BY <1>5, <1>b DEF NetworkFails, Page
  <2>2. QED BY <1>5, <1>b, <2>1, PagesMove DEF NetworkFails
<1>7. ASSUME NEW q \in RequestIds, Submit(u, q) PROVE BaseInv'
  <2> DEFINE row == [NoRequest EXCEPT !.status = "NEW", !.by = u,
                                      !.addr = SubmitStores(page[u].sent)]
  <2>1. page[u].sent \in Form
    BY DEF BaseInv, TypeOK
  <2>2. SubmitStores(page[u].sent) \in Form
    BY <1>7, <2>1, SubmitCleans DEF Submit, Clean
  <2>3. /\ row \in [status : {"none", "NEW", "CONVERTED", "REJECTED"}, addr : Form,
                     by : Customers \cup {None}, orderId : OrderIds \cup {None}]
        /\ row.status = "NEW"
    BY <2>2 DEF NoRequest
  <2>4. request' = [request EXCEPT ![q] = row]
    BY <1>7 DEF Submit
  <2> HIDE DEF row
  <2>a. page' \in [Customers -> Page]
    BY <1>7, <1>b DEF Submit, Page
  <2>b. request' \in [RequestIds -> [status : {"none", "NEW", "CONVERTED", "REJECTED"},
           addr : Form, by : Customers \cup {None}, orderId : OrderIds \cup {None}]]
    BY <2>3, <2>4 DEF BaseInv, TypeOK
  <2>5. TypeOK'
    BY <1>7, <2>a, <2>b DEF Submit, history, BaseInv, TypeOK, Page
  <2>6. RowsInv'
    BY <1>7, <2>3, <2>4 DEF Submit, history, BaseInv, RowsInv, TypeOK, Exists
  <2>7. ASSUME NEW c \in Staff PROVE CallInv(c)'
    BY <1>7, <2>3, <2>4 DEF Submit, history, BaseInv, CallInv, TypeOK, Exists
  <2>8. QED BY <2>5, <2>6, <2>7 DEF BaseInv
<1>8. QED
  BY <1>1, <1>2, <1>3, <1>4, <1>5, <1>7 DEF Answer

\* Steps of the staff's requests.
LEMMA StaffBase ==
    ASSUME BaseInv, NEW c \in Staff,
           Convert(c) \/ \E q \in RequestIds : ConvertRead(c, q)
    PROVE  BaseInv'
<1> USE DEF BaseInv, TypeOK, RowsInv, CallInv, Exists, Idle, history
<1>1. ASSUME NEW q \in RequestIds, ConvertRead(c, q) PROVE BaseInv'
  BY <1>1 DEF ConvertRead, MayConvert
<1>2. ASSUME NEW o \in OrderIds, ConvertCreate(c, o) PROVE BaseInv'
  <2> DEFINE q == call[c].request
             row == [status |-> "NEW", from |-> q,
                     addr |-> CreateStores(request[q].addr)]
  <2>1. q \in RequestIds /\ request[q].addr \in Form
    BY <1>2 DEF ConvertCreate
  <2>2. CreateStores(request[q].addr) \in Form
    BY <2>1 DEF CreateStores, Form
  <2>3. /\ row \in [status : {"none", "NEW", "CONFIRMED"},
                     from : RequestIds \cup {None}, addr : Form]
        /\ row.status = "NEW" /\ row.from = q
    BY <2>1, <2>2
  <2>4. /\ order' = [order EXCEPT ![o] = row]
        /\ call' = [call EXCEPT ![c].pc = "confirm", ![c].order = o]
    BY <1>2 DEF ConvertCreate
  <2>5. call' = [call EXCEPT ![c] = [pc |-> "confirm", request |-> q, order |-> o]]
    <3>1. call' = [[call EXCEPT ![c].pc = "confirm"] EXCEPT ![c].order = o]
      BY ONLY <2>4
    <3>2. call \in [Staff -> [pc : {"idle", "create", "confirm", "write", "mark"},
                    request : RequestIds \cup {None}, order : OrderIds \cup {None}]]
      OBVIOUS
    <3>3. call[c] = [pc |-> call[c].pc, request |-> q, order |-> call[c].order]
      BY <3>2
    <3>4. [call[c] EXCEPT !.pc = "confirm"] = [pc |-> "confirm", request |-> q,
                                               order |-> call[c].order]
      BY ONLY <3>3
    <3> DEFINE half == [call EXCEPT ![c].pc = "confirm"]
               row2 == [pc |-> "confirm", request |-> q, order |-> call[c].order]
    <3>5. half = [call EXCEPT ![c] = row2]
      BY ONLY <3>2, <3>4
    <3>6. half[c] = row2 /\ \A d \in Staff : d # c => half[d] = call[d]
      BY ONLY <3>2, <3>5
    <3>7. [row2 EXCEPT !.order = o] = [pc |-> "confirm", request |-> q, order |-> o]
      OBVIOUS
    <3>8. DOMAIN half = Staff /\ DOMAIN call = Staff
      BY ONLY <3>2
    <3>9. call' = [half EXCEPT ![c].order = o]
      BY ONLY <3>1
    <3> HIDE DEF half, row2
    <3>10. QED BY ONLY <3>6, <3>7, <3>8, <3>9, <3>5
  <2> HIDE DEF row
  <2>6. QED BY <1>2, <2>1, <2>3, <2>4, <2>5 DEF ConvertCreate
<1>3. ASSUME ConvertConfirmRead(c) PROVE BaseInv'
  BY <1>3 DEF ConvertConfirmRead
<1>4. ASSUME ConvertConfirm(c) PROVE BaseInv'
  BY <1>4 DEF ConvertConfirm
<1>5. ASSUME ConvertMark(c) PROVE BaseInv'
  BY <1>5 DEF ConvertMark
<1>6. ASSUME ConvertFails(c) PROVE BaseInv'
  BY <1>6 DEF ConvertFails
<1>7. QED
  BY <1>1, <1>2, <1>3, <1>4, <1>5, <1>6 DEF Convert

LEMMA DeskBase ==
    ASSUME BaseInv,
           \/ \E q \in RequestIds : Reject(q)
           \/ \E o \in OrderIds :
                 DeskConfirm(o) \/ \E f \in Forms : DeskCreate(o, f) \/ DeskEdit(o, f)
    PROVE  BaseInv'
<1> USE DEF BaseInv, TypeOK, RowsInv, CallInv, Exists, history
<1>1. ASSUME NEW q \in RequestIds, Reject(q) PROVE BaseInv'
  <2>1. /\ request' \in [RequestIds -> [status : {"none", "NEW", "CONVERTED", "REJECTED"},
             addr : Form, by : Customers \cup {None}, orderId : OrderIds \cup {None}]]
        /\ met' \subseteq RequestIds
        /\ UNCHANGED <<link, page, order, call, lost, cut>>
    <3>1. request \in [RequestIds -> [status : {"none", "NEW", "CONVERTED", "REJECTED"},
             addr : Form, by : Customers \cup {None}, orderId : OrderIds \cup {None}]]
      OBVIOUS
    <3>2. request' = [request EXCEPT ![q].status = "REJECTED"]
      BY <1>1 DEF Reject
    <3>3. request' \in [RequestIds -> [status : {"none", "NEW", "CONVERTED", "REJECTED"},
             addr : Form, by : Customers \cup {None}, orderId : OrderIds \cup {None}]]
      BY ONLY <3>1, <3>2
    <3>4. met' \subseteq RequestIds
      BY <1>1 DEF Reject
    <3>5. QED BY ONLY <1>1, <3>3, <3>4 DEF Reject
  <2>2. \A r \in RequestIds : /\ request'[r].by = request[r].by
                              /\ Exists(r) <=> request'[r].status # "none"
    BY <1>1 DEF Reject
  <2>3. TypeOK'
    BY <2>1
  <2>4. QED BY <2>1, <2>2, <2>3
<1>2. ASSUME NEW o \in OrderIds, DeskConfirm(o) PROVE BaseInv'
  BY <1>2 DEF DeskConfirm
<1>3. ASSUME NEW o \in OrderIds, NEW f \in Forms, DeskCreate(o, f) PROVE BaseInv'
  <2> DEFINE addr == CreateStores(OrderPageSends(f))
  <2>1. addr \in Form
    BY <1>3, DeskPageCleans DEF DeskCreate, Clean
  <2>2. order' = [order EXCEPT ![o] = [status |-> "NEW", from |-> None, addr |-> addr]]
    BY <1>3 DEF DeskCreate
  <2> HIDE DEF addr
  <2>3. QED BY <1>3, <2>1, <2>2 DEF DeskCreate
<1>4. ASSUME NEW o \in OrderIds, NEW f \in Forms, DeskEdit(o, f) PROVE BaseInv'
  <2> DEFINE addr == UpdateStores(order[o].addr, EditPageSends(f))
  <2>1. addr \in Form
    BY <1>4, EditCleans DEF DeskEdit, Clean
  <2>2. order' = [order EXCEPT ![o].addr = addr]
    BY <1>4 DEF DeskEdit
  <2> HIDE DEF addr
  <2>3. QED BY <1>4, <2>1, <2>2 DEF DeskEdit
<1>5. QED BY <1>1, <1>2, <1>3, <1>4

LEMMA StutterBase == ASSUME BaseInv, UNCHANGED vars PROVE BaseInv'
BY DEF vars, BaseInv, TypeOK, RowsInv, CallInv, Exists

LEMMA NextBase == ASSUME BaseInv, [Next]_vars PROVE BaseInv'
<1>1. CASE Next
  BY <1>1, PagesBase, RotateBase, StaffBase, DeskBase DEF Next
<1>2. CASE UNCHANGED vars
  BY <1>2, StutterBase
<1>3. QED BY <1>1, <1>2

LEMMA BaseAlways == Spec => []BaseInv
<1>1. Init => BaseInv
  BY InitBase
<1>2. BaseInv /\ [Next]_vars => BaseInv'
  BY NextBase
<1>3. QED BY <1>1, <1>2, PTL DEF Spec

\* TypeOK: pages, rows and calls keep their types.
THEOREM RequestTypes == Spec => []TypeOK
<1>1. BaseInv => TypeOK
  BY DEF BaseInv
<1>2. QED BY <1>1, BaseAlways, PTL

-----------------------------------------------------------------------------
(* Addresses.                                                              *)

AddressInv ==
    /\ \A q \in RequestIds : Exists(q) => Clean(request[q].addr)
    /\ \A o \in OrderIds : order[o].status # "none" => Clean(order[o].addr)
    /\ \A u \in Customers : page[u].pc = "sending" =>
          RequestDtoAccepts(page[u].sent) \/ page[u].sent.long # {}

LEMMA InitAddress == ASSUME Init PROVE AddressInv
BY DEF Init, AddressInv, Exists, NoRequest, NoOrder, Closed

LEMMA NextAddress == ASSUME BaseInv, AddressInv, [Next]_vars PROVE AddressInv'
<1> USE DEF AddressInv, Exists, history
<1>0. /\ page \in [Customers -> Page]
      /\ request \in [RequestIds -> [status : {"none", "NEW", "CONVERTED", "REJECTED"},
             addr : Form, by : Customers \cup {None}, orderId : OrderIds \cup {None}]]
      /\ order \in [OrderIds -> [status : {"none", "NEW", "CONFIRMED"},
                     from : RequestIds \cup {None}, addr : Form]]
  BY DEF BaseInv, TypeOK, Page
<1>1. ASSUME NEW u \in Customers, OpenPage(u) \/ NetworkFails(u) \/ SubmitRefused(u)
                                  \/ AnswerArrives(u)
      PROVE  AddressInv'
  <2>1. \A v \in Customers : page'[v].pc = "sending" => page'[v] = page[v]
    <3>1. CASE OpenPage(u)
      <4>1. Closed \in [pc : {"closed"}, token : {0}, sent : {NoForm}]
        BY DEF Closed
      <4>2. [Closed EXCEPT !.pc = "open", !.token = link].pc = "open"
        BY <4>1
      <4>3. QED BY <1>0, <3>1, <4>2 DEF OpenPage
    <3>2. CASE NetworkFails(u) \/ SubmitRefused(u) \/ AnswerArrives(u)
      BY <1>0, <3>2 DEF NetworkFails, SubmitRefused, AnswerArrives, Page
    <3>3. QED BY <1>1, <3>1, <3>2
  <2>2. UNCHANGED <<request, order>>
    BY <1>1 DEF OpenPage, NetworkFails, SubmitRefused, AnswerArrives
  <2>3. QED BY <2>1, <2>2
<1>2. ASSUME NEW u \in Customers, NEW f \in Forms, PressSend(u, f) PROVE AddressInv'
  <2>1. RequestDtoAccepts(LinkPageSends(f)) \/ LinkPageSends(f).long # {}
    BY <1>2, LinkPageAgrees DEF PressSend
  <2>2. page' = [[page EXCEPT ![u].pc = "sending"] EXCEPT ![u].sent = LinkPageSends(f)]
    BY <1>2, <1>0 DEF PressSend
  <2>3. \A v \in Customers : page'[v].sent = IF v = u THEN LinkPageSends(f) ELSE page[v].sent
    BY <1>0, <2>2 DEF Page
  <2>4. \A v \in Customers : v # u => page'[v].pc = page[v].pc
    BY <1>0, <2>2 DEF Page
  <2>5. UNCHANGED <<request, order>>
    BY <1>2 DEF PressSend
  <2>6. QED BY <2>1, <2>3, <2>4, <2>5
<1>3. ASSUME NEW u \in Customers, NEW q \in RequestIds, Submit(u, q) PROVE AddressInv'
  <2>1. Clean(SubmitStores(page[u].sent))
    BY <1>0, <1>3, SubmitCleans DEF Submit, Page
  <2>2. request'[q].addr = SubmitStores(page[u].sent)
        /\ \A r \in RequestIds : r # q => request'[r] = request[r]
    BY <1>0, <1>3 DEF Submit, NoRequest
  <2>3. \A v \in Customers : page'[v].pc = "sending" => page'[v] = page[v]
    BY <1>0, <1>3 DEF Submit, Page
  <2>4. UNCHANGED order
    BY <1>3 DEF Submit
  <2>5. QED BY <2>1, <2>2, <2>3, <2>4
<1>4. ASSUME NEW c \in Staff, NEW o \in OrderIds, ConvertCreate(c, o) PROVE AddressInv'
  <2> DEFINE addr == CreateStores(request[call[c].request].addr)
  <2>1. Clean(request[call[c].request].addr)
    BY <1>4 DEF ConvertCreate, BaseInv, CallInv
  <2>2. Clean(addr)
    BY <2>1, CreateCleans DEF Clean
  <2>3. order' = [order EXCEPT ![o] = [status |-> "NEW", from |-> call[c].request,
                                       addr |-> addr]]
    BY <1>4 DEF ConvertCreate
  <2> HIDE DEF addr
  <2>4. QED BY <1>0, <1>4, <2>2, <2>3 DEF ConvertCreate
<1>5. ASSUME NEW o \in OrderIds, NEW f \in Forms, DeskCreate(o, f) PROVE AddressInv'
  <2> DEFINE addr == CreateStores(OrderPageSends(f))
  <2>1. Clean(addr)
    BY <1>5, DeskPageCleans DEF DeskCreate
  <2>2. order' = [order EXCEPT ![o] = [status |-> "NEW", from |-> None, addr |-> addr]]
    BY <1>5 DEF DeskCreate
  <2> HIDE DEF addr
  <2>3. QED BY <1>0, <1>5, <2>1, <2>2 DEF DeskCreate
<1>6. ASSUME NEW o \in OrderIds, NEW f \in Forms, DeskEdit(o, f) PROVE AddressInv'
  <2> DEFINE addr == UpdateStores(order[o].addr, EditPageSends(f))
  <2>1. Clean(addr)
    BY <1>6, EditCleans DEF DeskEdit
  <2>2. order' = [order EXCEPT ![o].addr = addr]
    BY <1>6 DEF DeskEdit
  <2> HIDE DEF addr
  <2>3. QED BY <1>0, <1>6, <2>1, <2>2 DEF DeskEdit
<1>7. ASSUME NEW c \in Staff, ConvertConfirm(c) PROVE AddressInv'
  <2>1. /\ call[c].order \in OrderIds /\ order[call[c].order].status # "none"
        /\ order' = [order EXCEPT ![call[c].order].status = "CONFIRMED"]
        /\ UNCHANGED <<page, request>>
    BY <1>7 DEF ConvertConfirm, BaseInv, CallInv
  <2>2. \A o \in OrderIds : /\ order'[o].addr = order[o].addr
                            /\ order'[o].status # "none" => order[o].status # "none"
    BY <1>0, <2>1
  <2>3. QED BY <2>1, <2>2
<1>8. ASSUME NEW c \in Staff, ConvertMark(c) PROVE AddressInv'
  <2>1. \A r \in RequestIds : request'[r].addr = request[r].addr
                              /\ (Exists(r)' => Exists(r))
    BY <1>0, <1>8 DEF ConvertMark, BaseInv, CallInv
  <2>2. QED BY <1>8, <2>1 DEF ConvertMark
<1>9. ASSUME NEW q \in RequestIds, Reject(q) PROVE AddressInv'
  <2>1. request' = [request EXCEPT ![q].status = "REJECTED"] /\ Exists(q)
        /\ UNCHANGED <<page, order>>
    BY <1>9 DEF Reject
  <2>2. \A r \in RequestIds : request'[r].addr = request[r].addr
    BY <1>0, <2>1
  <2>3. \A r \in RequestIds : r # q => request'[r] = request[r]
    BY <1>0, <2>1
  <2>4. QED BY <2>1, <2>2, <2>3
<1>10. ASSUME NEW o \in OrderIds, DeskConfirm(o) PROVE AddressInv'
  BY <1>0, <1>10 DEF DeskConfirm
<1>11. ASSUME UNCHANGED <<page, request, order>> PROVE AddressInv'
  BY <1>11
<1>12. CASE Next
  BY <1>12, <1>1, <1>2, <1>3, <1>4, <1>5, <1>6, <1>7, <1>8, <1>9, <1>10, <1>11
     DEF Next, Answer, Convert, RotateToken, ConvertRead, ConvertConfirmRead, ConvertFails
<1>13. CASE UNCHANGED vars
  BY <1>13, <1>11 DEF vars
<1>14. QED BY <1>12, <1>13

LEMMA AddressAlways == Spec => []AddressInv
<1>1. Init => AddressInv
  BY InitAddress
<1>2. BaseInv /\ AddressInv /\ [Next]_vars => AddressInv'
  BY NextAddress
<1>3. QED BY <1>1, <1>2, BaseAlways, PTL DEF Spec

\* An order has an address it can be brought to and no field of the other
\* region, whichever way it was written: typed in, edited or copied from a
\* request.
THEOREM AddressAlwaysOfOneRegion == Spec => []AddressOfOneRegion
<1>1. AddressInv => AddressOfOneRegion
  BY DEF AddressInv, AddressOfOneRegion, Clean
<1>2. QED BY <1>1, AddressAlways, PTL

\* PagesAgreeWithServer: no form the customers' page lets through is refused
\* for its fields, and an order with a name, opened and saved unchanged, is
\* accepted and stays as it is.
THEOREM PagesAlwaysAgree == Spec => []PagesAgreeWithServer
<1>1. ASSUME AddressInv PROVE PagesAgreeWithServer
  <2>1. ASSUME NEW o \in OrderIds, order[o].status # "none", order[o].addr.name
        PROVE  LET m == EditPageSends(EditPageShows(order[o].addr))
               IN UpdateDtoAccepts(m) /\ UpdateStores(order[o].addr, m) = order[o].addr
    <3>1. Clean(order[o].addr)
      BY <1>1, <2>1 DEF AddressInv
    <3>2. QED BY <2>1, <3>1, SavedUnchanged
  <2>2. QED BY <1>1, <2>1 DEF AddressInv, PagesAgreeWithServer
<1>2. QED BY <1>1, AddressAlways, PTL

-----------------------------------------------------------------------------
(* Thanks.                                                                 *)

StoredOf(u) == {q \in RequestIds : request[q].by = u}
Told(u) == IF page[u].pc \in {"stored", "sent"} THEN 1 ELSE 0
ThanksInv == \A u \in Customers :
    /\ page[u].pc \in {"stored", "sent"} => StoredOf(u) # {}
    /\ Cardinality(StoredOf(u)) <= lost[u] + Told(u)

LEMMA StoredFinite ==
    ASSUME NEW u
    PROVE  IsFiniteSet(StoredOf(u)) /\ Cardinality(StoredOf(u)) \in Nat
<1>1. IsFiniteSet(StoredOf(u))
  BY FS_Subset DEF StoredOf
<1>2. QED BY <1>1, FS_CardinalityType

LEMMA InitThanks == ASSUME Init PROVE ThanksInv
<1>1. ASSUME NEW u \in Customers PROVE StoredOf(u) = {}
  BY DEF Init, StoredOf, NoRequest
<1>2. \A u \in Customers : page[u].pc = "closed" /\ lost[u] = 0
  BY DEF Init, Closed
<1>3. QED BY <1>1, <1>2, FS_EmptySet DEF ThanksInv, Told

LEMMA NextThanks == ASSUME BaseInv, ThanksInv, [Next]_vars PROVE ThanksInv'
<1>0. /\ page \in [Customers -> Page] /\ lost \in [Customers -> Nat]
      /\ request \in [RequestIds -> [status : {"none", "NEW", "CONVERTED", "REJECTED"},
             addr : Form, by : Customers \cup {None}, orderId : OrderIds \cup {None}]]
  BY DEF BaseInv, TypeOK, Page
<1>a. \A v \in Customers : Cardinality(StoredOf(v)) \in Nat
  BY StoredFinite
\* A step that stores nothing and tells nobody.
<1>1. ASSUME \A q \in RequestIds : request'[q].by = request[q].by,
             \A v \in Customers :
                /\ page'[v].pc \in {"stored", "sent"} => page[v].pc \in {"stored", "sent"}
                /\ lost'[v] + Told(v)' >= lost[v] + Told(v)
                /\ lost'[v] \in Nat
      PROVE  ThanksInv'
  <2>1. \A v \in Customers : StoredOf(v)' = StoredOf(v)
    BY <1>1 DEF StoredOf
  <2>2. \A v \in Customers : Told(v) \in Nat /\ Told(v)' \in Nat
    BY DEF Told
  <2>3. QED BY <1>0, <1>a, <1>1, <2>1, <2>2 DEF ThanksInv
<1>2. ASSUME NEW u \in Customers, OpenPage(u) PROVE ThanksInv'
  <2>1. Closed \in [pc : {"closed"}, token : {0}, sent : {NoForm}]
    BY DEF Closed
  <2>2. [Closed EXCEPT !.pc = "open", !.token = link].pc = "open"
    BY <2>1
  <2>3. \A v \in Customers : page'[v].pc = IF v = u THEN "open" ELSE page[v].pc
    BY <1>0, <1>2, <2>2 DEF OpenPage
  <2>4. UNCHANGED <<request, lost>> /\ page[u].pc = "closed"
    BY <1>2 DEF OpenPage, history
  <2>5. QED BY <1>0, <1>1, <2>3, <2>4 DEF Told
<1>3. ASSUME NEW u \in Customers, NEW f \in Forms, PressSend(u, f) PROVE ThanksInv'
  <2>1. \A v \in Customers : page'[v].pc = IF v = u THEN "sending" ELSE page[v].pc
    BY <1>0, <1>3 DEF PressSend, Page
  <2>2. UNCHANGED <<request, lost>> /\ page[u].pc \in {"open", "error"}
    BY <1>3 DEF PressSend, history
  <2>3. QED BY <1>0, <1>1, <2>1, <2>2 DEF Told
<1>4. ASSUME NEW u \in Customers, SubmitRefused(u) PROVE ThanksInv'
  <2>1. \A v \in Customers : page'[v].pc = IF v = u THEN "error" ELSE page[v].pc
    BY <1>0, <1>4 DEF SubmitRefused, Page
  <2>2. UNCHANGED <<request, lost>> /\ page[u].pc = "sending"
    BY <1>4 DEF SubmitRefused, history
  <2>3. QED BY <1>0, <1>1, <2>1, <2>2 DEF Told
<1>5. ASSUME NEW u \in Customers, AnswerArrives(u) PROVE ThanksInv'
  <2>1. \A v \in Customers : page'[v].pc = IF v = u THEN "sent" ELSE page[v].pc
    BY <1>0, <1>5 DEF AnswerArrives, Page
  <2>2. UNCHANGED <<request, lost>> /\ page[u].pc = "stored"
    BY <1>5 DEF AnswerArrives, history
  <2>3. QED BY <1>0, <1>1, <2>1, <2>2 DEF Told
<1>6. ASSUME NEW u \in Customers, NetworkFails(u) PROVE ThanksInv'
  <2>1. \A v \in Customers : page'[v].pc = IF v = u THEN "error" ELSE page[v].pc
    BY <1>0, <1>6 DEF NetworkFails, Page
  <2>2. /\ UNCHANGED request /\ page[u].pc \in {"sending", "stored"}
        /\ \A v \in Customers : lost'[v] = IF v = u
              THEN lost[u] + (IF page[u].pc = "stored" THEN 1 ELSE 0) ELSE lost[v]
    BY <1>0, <1>6 DEF NetworkFails
  <2>3. QED BY <1>0, <1>1, <2>1, <2>2 DEF Told
<1>7. ASSUME NEW u \in Customers, NEW q \in RequestIds, Submit(u, q) PROVE ThanksInv'
  <2>1. request'[q].by = u /\ \A r \in RequestIds : r # q => request'[r] = request[r]
    BY <1>0, <1>7 DEF Submit, NoRequest
  <2>2. request[q].by = None
    BY <1>7 DEF Submit, BaseInv, RowsInv
  <2>3. StoredOf(u)' = StoredOf(u) \cup {q} /\ q \notin StoredOf(u)
    BY <2>1, <2>2 DEF StoredOf
  <2>4. Cardinality(StoredOf(u)') = Cardinality(StoredOf(u)) + 1
    BY <2>3, StoredFinite, FS_AddElement
  <2>5. \A v \in Customers : v # u => StoredOf(v)' = StoredOf(v)
    BY <2>1, <2>2 DEF StoredOf
  <2>6. \A v \in Customers : page'[v].pc = IF v = u THEN "stored" ELSE page[v].pc
    BY <1>0, <1>7 DEF Submit, Page
  <2>7. UNCHANGED lost /\ page[u].pc = "sending"
    BY <1>7 DEF Submit, history
  <2>8. ASSUME NEW v \in Customers, v # u
        PROVE  StoredOf(v)' = StoredOf(v) /\ Told(v)' = Told(v) /\ page'[v].pc = page[v].pc
    BY <2>5, <2>6, <2>8 DEF Told
  <2>9. /\ Told(u) = 0 /\ Told(u)' = 1 /\ StoredOf(u)' # {}
        /\ Cardinality(StoredOf(u)') <= lost'[u] + Told(u)'
    BY <1>0, <1>a, <2>3, <2>4, <2>6, <2>7 DEF ThanksInv, Told
  <2>10. ASSUME NEW v \in Customers
         PROVE  /\ page'[v].pc \in {"stored", "sent"} => StoredOf(v)' # {}
                /\ Cardinality(StoredOf(v)') <= lost'[v] + Told(v)'
    <3>1. CASE v = u
      BY <3>1, <2>9
    <3>2. CASE v # u
      BY <3>2, <2>7, <2>8 DEF ThanksInv
    <3>3. QED BY <3>1, <3>2
  <2>11. QED BY <2>10 DEF ThanksInv
<1>8. ASSUME NEW c \in Staff, ConvertMark(c) PROVE ThanksInv'
  <2>1. \A r \in RequestIds : request'[r].by = request[r].by
    BY <1>0, <1>8 DEF ConvertMark
  <2>2. UNCHANGED <<page, lost>>
    BY <1>8 DEF ConvertMark, history
  <2>3. QED BY <1>0, <1>1, <2>1, <2>2 DEF Told
<1>9. ASSUME NEW q \in RequestIds, Reject(q) PROVE ThanksInv'
  <2>1. \A r \in RequestIds : request'[r].by = request[r].by
    BY <1>0, <1>9 DEF Reject
  <2>2. UNCHANGED <<page, lost>>
    BY <1>9 DEF Reject
  <2>3. QED BY <1>0, <1>1, <2>1, <2>2 DEF Told
<1>10. ASSUME UNCHANGED <<page, lost, request>> PROVE ThanksInv'
  BY <1>0, <1>1, <1>10 DEF Told
<1>11. CASE Next
  BY <1>11, <1>2, <1>3, <1>4, <1>5, <1>6, <1>7, <1>8, <1>9, <1>10
     DEF Next, Answer, Convert, RotateToken, ConvertRead, ConvertCreate,
         ConvertConfirmRead, ConvertConfirm, ConvertFails, DeskCreate, DeskConfirm,
         DeskEdit, history
<1>12. CASE UNCHANGED vars
  BY <1>12, <1>10 DEF vars, history
<1>13. QED BY <1>11, <1>12

\* ThanksMeansStored: who is thanked has a request in the list, and nobody
\* has more of them than lost answers explain.
THEOREM ThanksAlwaysMeanStored == Spec => []ThanksMeansStored
<1>1. Init => ThanksInv
  BY InitThanks
<1>2. BaseInv /\ ThanksInv /\ [Next]_vars => ThanksInv'
  BY NextThanks
<1>3. ThanksInv => ThanksMeansStored
  BY DEF ThanksInv, ThanksMeansStored, StoredOf, Told
<1>4. QED BY <1>1, <1>2, <1>3, BaseAlways, PTL DEF Spec

-----------------------------------------------------------------------------
(* One order for one request.                                              *)

\* Of a request nobody met over and no convert was cut at: one caller at most
\* handles it, it has no order before the create and that one after it, and
\* at rest it has the order it names.
OneInv(q) ==
    /\ \A c, d \in Staff : call[c].request = q /\ call[d].request = q => c = d
    /\ \A c \in Staff : call[c].request = q =>
          /\ request[q].status = "NEW"
          /\ OrdersOf(q) = IF call[c].order = None THEN {} ELSE {call[c].order}
    /\ Handling(q) = {} /\ request[q].status \in {"none", "NEW"} => OrdersOf(q) = {}
    /\ request[q].status = "CONVERTED" => OrdersOf(q) = {request[q].orderId}
    /\ OrdersOf(q) \subseteq {request[q].orderId} \/ Handling(q) # {}

OneOrder == \A q \in RequestIds \ (cut \cup met) : OneInv(q)

LEMMA InitOne == ASSUME Init PROVE OneOrder
BY DEF Init, OneOrder, OneInv, OrdersOf, Handling, NoOrder, NoRequest, Idle

\* A step that leaves a request, its orders and its handlers alone.
LEMMA OneKept ==
    ASSUME NEW q \in RequestIds, OneInv(q),
           request'[q].status = request[q].status,
           request'[q].orderId = request[q].orderId,
           \A o \in OrderIds : (order'[o].from = q) <=> (order[o].from = q),
           \A c \in Staff : /\ (call'[c].request = q) <=> (call[c].request = q)
                            /\ call[c].request = q => call'[c].order = call[c].order
    PROVE  OneInv(q)'
<1>1. OrdersOf(q)' = OrdersOf(q) /\ Handling(q)' = Handling(q)
  BY DEF OrdersOf, Handling
<1>2. QED BY <1>1 DEF OneInv

LEMMA NextOne == ASSUME BaseInv, OneOrder, [Next]_vars PROVE OneOrder'
<1>0. /\ request \in [RequestIds -> [status : {"none", "NEW", "CONVERTED", "REJECTED"},
             addr : Form, by : Customers \cup {None}, orderId : OrderIds \cup {None}]]
      /\ order \in [OrderIds -> [status : {"none", "NEW", "CONFIRMED"},
                     from : RequestIds \cup {None}, addr : Form]]
      /\ call \in [Staff -> [pc : {"idle", "create", "confirm", "write", "mark"},
                    request : RequestIds \cup {None}, order : OrderIds \cup {None}]]
  BY DEF BaseInv, TypeOK
<1>1. ASSUME UNCHANGED <<request, order, call, cut, met>> PROVE OneOrder'
  BY <1>1, OneKept DEF OneOrder
<1>2. ASSUME NEW u \in Customers, NEW q \in RequestIds, Submit(u, q) PROVE OneOrder'
  <2>1. /\ request'[q].status = "NEW" /\ request'[q].orderId = None
        /\ \A r \in RequestIds : r # q => request'[r] = request[r]
        /\ UNCHANGED <<order, call, cut, met>>
    BY <1>0, <1>2 DEF Submit, NoRequest, history
  <2>2. ASSUME NEW r \in RequestIds \ (cut \cup met), r # q PROVE OneInv(r)'
    BY <2>1, <2>2, OneKept DEF OneOrder
  <2>3. ASSUME q \notin cut \cup met PROVE OneInv(q)'
    <3>1. OneInv(q) /\ request[q].status = "none"
      BY <1>2, <2>3 DEF OneOrder, Submit, Exists
    <3>2. Handling(q) = {}
      BY <3>1 DEF OneInv, Handling
    <3>3. OrdersOf(q)' = {} /\ Handling(q)' = {}
      BY <2>1, <3>1, <3>2 DEF OneInv, OrdersOf, Handling
    <3>4. QED BY <2>1, <3>3 DEF OneInv, Handling
  <2>4. QED BY <2>1, <2>2, <2>3 DEF OneOrder
<1>3. ASSUME NEW c \in Staff, NEW q \in RequestIds, ConvertRead(c, q) PROVE OneOrder'
  <2>1. /\ call[c].pc = "idle" /\ request[q].status = "NEW"
        /\ call'[c].request = q /\ call'[c].order = None
        /\ \A d \in Staff : d # c => call'[d] = call[d]
        /\ UNCHANGED <<request, order, cut>>
        /\ met' = met \cup (IF Handling(q) # {} THEN {q} ELSE {})
    BY <1>0, <1>3 DEF ConvertRead, MayConvert, Idle
  <2>2. call[c].request = None
    BY <2>1 DEF BaseInv, CallInv
  <2>3. ASSUME NEW r \in RequestIds \ (cut \cup met), r # q PROVE OneInv(r)'
    BY <2>1, <2>2, <2>3, OneKept DEF OneOrder
  <2>4. ASSUME q \notin cut' \cup met' PROVE OneInv(q)'
    <3>1. OneInv(q) /\ Handling(q) = {}
      BY <2>1, <2>4 DEF OneOrder
    <3>2. \A d \in Staff : call'[d].request = q <=> d = c
      BY <2>1, <3>1 DEF Handling
    <3>3. OrdersOf(q)' = {}
      BY <2>1, <3>1 DEF OneInv, OrdersOf
    <3>4. QED BY <2>1, <3>2, <3>3 DEF OneInv, Handling
  <2>5. QED BY <2>1, <2>3, <2>4 DEF OneOrder
<1>4. ASSUME NEW c \in Staff, NEW o \in OrderIds, ConvertCreate(c, o) PROVE OneOrder'
  <2>a. PICK q : call[c].request = q
    OBVIOUS
  <2>1. /\ call[c].pc = "create" /\ order[o].status = "none"
        /\ call'[c].request = q /\ call'[c].order = o
        /\ \A d \in Staff : d # c => call'[d] = call[d]
        /\ order'[o].from = q /\ \A x \in OrderIds : x # o => order'[x] = order[x]
        /\ UNCHANGED <<request, cut, met>>
    BY <1>0, <1>4, <2>a DEF ConvertCreate, history
  <2>2. q \in RequestIds /\ call[c].order = None /\ order[o].from = None
    BY <2>a, <2>1 DEF BaseInv, CallInv, RowsInv
  <2>3. ASSUME NEW r \in RequestIds \ (cut \cup met), r # q PROVE OneInv(r)'
    BY <2>a, <2>1, <2>2, <2>3, OneKept DEF OneOrder
  <2>4. ASSUME q \notin cut \cup met PROVE OneInv(q)'
    <3>1. OneInv(q)
      BY <2>2, <2>4 DEF OneOrder
    <3>2. OrdersOf(q) = {} /\ request[q].status = "NEW"
      BY <2>a, <2>2, <3>1 DEF OneInv
    <3>3. OrdersOf(q)' = {o}
      BY <2>1, <2>2, <3>2 DEF OrdersOf
    <3>4. \A d \in Staff : call'[d].request = q <=> d = c
      BY <2>a, <2>1, <3>1 DEF OneInv
    <3>5. QED BY <2>1, <3>2, <3>3, <3>4 DEF OneInv, Handling
  <2>5. QED BY <2>1, <2>3, <2>4 DEF OneOrder
<1>5. ASSUME NEW c \in Staff, ConvertConfirmRead(c) PROVE OneOrder'
  <2>1. /\ \A d \in Staff : call'[d].request = call[d].request
                             /\ call'[d].order = call[d].order
        /\ UNCHANGED <<request, order, cut, met>>
    BY <1>0, <1>5 DEF ConvertConfirmRead, history
  <2>2. QED BY <2>1, OneKept DEF OneOrder
<1>6. ASSUME NEW c \in Staff, ConvertConfirm(c) PROVE OneOrder'
  <2>1. /\ \A d \in Staff : call'[d].request = call[d].request
                             /\ call'[d].order = call[d].order
        /\ \A o \in OrderIds : order'[o].from = order[o].from
        /\ UNCHANGED <<request, cut, met>>
    BY <1>0, <1>6 DEF ConvertConfirm, history
  <2>2. QED BY <2>1, OneKept DEF OneOrder
<1>7. ASSUME NEW c \in Staff, ConvertMark(c) PROVE OneOrder'
  <2>a. PICK q : call[c].request = q
    OBVIOUS
  <2>1. /\ call[c].pc = "mark" /\ call' = [call EXCEPT ![c] = Idle]
        /\ UNCHANGED <<order, cut, met>>
        /\ request' = [[request EXCEPT ![q].status = "CONVERTED"]
                          EXCEPT ![q].orderId = call[c].order]
    BY <1>0, <1>7, <2>a DEF ConvertMark, history
  <2>2. q \in RequestIds /\ call[c].order \in OrderIds
    BY <2>a, <2>1 DEF BaseInv, CallInv
  <2>3. /\ request'[q].status = "CONVERTED" /\ request'[q].orderId = call[c].order
        /\ \A r \in RequestIds : r # q => request'[r] = request[r]
    BY <1>0, <2>1, <2>2
  <2>4. call'[c].request = None /\ \A d \in Staff : d # c => call'[d] = call[d]
    BY <1>0, <2>1 DEF Idle
  <2>5. ASSUME NEW r \in RequestIds \ (cut \cup met), r # q PROVE OneInv(r)'
    BY <2>a, <2>1, <2>3, <2>4, <2>5, OneKept DEF OneOrder
  <2>6. ASSUME q \notin cut \cup met PROVE OneInv(q)'
    <3>1. OneInv(q)
      BY <2>2, <2>6 DEF OneOrder
    <3>2. OrdersOf(q) = {call[c].order}
      BY <2>a, <2>2, <3>1 DEF OneInv
    <3>3. OrdersOf(q)' = {call[c].order}
      BY <2>1, <3>2 DEF OrdersOf
    <3>4. \A d \in Staff : call'[d].request # q
      BY <2>a, <2>2, <2>4, <3>1 DEF OneInv
    <3>5. QED BY <2>3, <3>3, <3>4 DEF OneInv, Handling
  <2>7. QED BY <2>1, <2>5, <2>6 DEF OneOrder
<1>8. ASSUME NEW c \in Staff, ConvertFails(c) PROVE OneOrder'
  <2>a. PICK q : call[c].request = q
    OBVIOUS
  <2>1. /\ call[c].pc # "idle" /\ call'[c].request = None
        /\ \A d \in Staff : d # c => call'[d] = call[d]
        /\ cut' = cut \cup (IF call[c].order # None THEN {q} ELSE {})
        /\ UNCHANGED <<request, order, met>>
    BY <1>0, <1>8, <2>a DEF ConvertFails, Idle
  <2>2. q \in RequestIds
    BY <2>a, <2>1 DEF BaseInv, CallInv
  <2>3. ASSUME NEW r \in RequestIds \ (cut \cup met), r # q PROVE OneInv(r)'
    BY <2>a, <2>1, <2>3, OneKept DEF OneOrder
  <2>4. ASSUME q \notin cut' \cup met' PROVE OneInv(q)'
    <3>1. OneInv(q) /\ call[c].order = None
      BY <2>1, <2>2, <2>4 DEF OneOrder
    <3>2. OrdersOf(q) = {} /\ request[q].status = "NEW"
      BY <2>a, <3>1 DEF OneInv
    <3>3. OrdersOf(q)' = {}
      BY <2>1, <3>2 DEF OrdersOf
    <3>4. \A d \in Staff : call'[d].request # q
      BY <2>a, <2>1, <2>2, <3>1 DEF OneInv
    <3>5. QED BY <2>1, <3>2, <3>3, <3>4 DEF OneInv, Handling
  <2>5. QED BY <2>1, <2>3, <2>4 DEF OneOrder
<1>9. ASSUME NEW q \in RequestIds, Reject(q) PROVE OneOrder'
  <2>1. /\ Exists(q) /\ request'[q].status = "REJECTED"
        /\ request'[q].orderId = request[q].orderId
        /\ \A r \in RequestIds : r # q => request'[r] = request[r]
        /\ met' = met \cup (IF Handling(q) # {} THEN {q} ELSE {})
        /\ UNCHANGED <<order, call, cut>>
    BY <1>0, <1>9 DEF Reject
  <2>2. ASSUME NEW r \in RequestIds \ (cut \cup met), r # q PROVE OneInv(r)'
    BY <2>1, <2>2, OneKept DEF OneOrder
  <2>3. ASSUME q \notin cut' \cup met' PROVE OneInv(q)'
    <3>1. OneInv(q) /\ Handling(q) = {}
      BY <2>1, <2>3 DEF OneOrder
    <3>2. OrdersOf(q)' = OrdersOf(q) /\ Handling(q)' = {}
      BY <2>1, <3>1 DEF OrdersOf, Handling
    <3>3. OrdersOf(q) \subseteq {request[q].orderId}
      BY <3>1 DEF OneInv
    <3>4. QED BY <2>1, <3>2, <3>3 DEF OneInv, Handling
  <2>4. QED BY <2>1, <2>2, <2>3 DEF OneOrder
<1>10. ASSUME NEW o \in OrderIds, NEW f \in Forms,
              DeskCreate(o, f) \/ DeskEdit(o, f) \/ DeskConfirm(o)
       PROVE  OneOrder'
  <2>1. UNCHANGED <<request, call, cut, met>>
    BY <1>10 DEF DeskCreate, DeskEdit, DeskConfirm, history
  <2>2. ASSUME NEW x \in OrderIds PROVE order'[x].from = order[x].from
    <3>1. CASE DeskCreate(o, f)
      <4>1. order[o].from = None
        BY <3>1 DEF DeskCreate, BaseInv, RowsInv
      <4>2. QED BY <1>0, <3>1, <4>1 DEF DeskCreate
    <3>2. CASE DeskEdit(o, f)
      BY <1>0, <3>2 DEF DeskEdit
    <3>3. CASE DeskConfirm(o)
      BY <1>0, <3>3 DEF DeskConfirm
    <3>4. QED BY <1>10, <3>1, <3>2, <3>3
  <2>3. QED BY <2>1, <2>2, OneKept DEF OneOrder
<1>11. ASSUME NEW o \in OrderIds, DeskConfirm(o) PROVE OneOrder'
  <2>1. UNCHANGED <<request, call, cut, met>>
    BY <1>11 DEF DeskConfirm, history
  <2>2. \A x \in OrderIds : order'[x].from = order[x].from
    BY <1>0, <1>11 DEF DeskConfirm
  <2>3. QED BY <2>1, <2>2, OneKept DEF OneOrder
<1>12. CASE Next
  BY <1>12, <1>1, <1>2, <1>3, <1>4, <1>5, <1>6, <1>7, <1>8, <1>9, <1>10, <1>11
     DEF Next, Answer, Convert, OpenPage, PressSend, SubmitRefused, AnswerArrives,
         NetworkFails, RotateToken, history
<1>13. CASE UNCHANGED vars
  BY <1>13, <1>1 DEF vars, history
<1>14. QED BY <1>12, <1>13

\* OneOrderPerRequest: without two of the staff at one request and without a
\* convert that failed half way, a request has one order, names it once it is
\* converted, and has none while it waits.
THEOREM OneOrderPerRequestAlways == Spec => []OneOrderPerRequest
<1>1. Init => OneOrder
  BY InitOne
<1>2. BaseInv /\ OneOrder /\ [Next]_vars => OneOrder'
  BY NextOne
<1>3. ASSUME BaseInv, OneOrder, NEW q \in RequestIds \ (cut \cup met)
      PROVE  /\ Cardinality(OrdersOf(q)) <= 1
             /\ request[q].status = "CONVERTED" => OrdersOf(q) = {request[q].orderId}
             /\ OrdersOf(q) # {} /\ request[q].status = "NEW" => Handling(q) # {}
  <2>1. OneInv(q)
    BY <1>3 DEF OneOrder
  <2>2. PICK x : OrdersOf(q) = {} \/ OrdersOf(q) = {x}
    BY <2>1 DEF OneInv, Handling
  <2>3. Cardinality(OrdersOf(q)) <= 1
    <3>1. CASE OrdersOf(q) = {}
      BY <3>1, FS_EmptySet
    <3>2. CASE OrdersOf(q) = {x}
      <4>1. Cardinality({x}) = 1
        BY FS_Singleton
      <4>2. QED BY <3>2, <4>1
    <3>3. QED BY <2>2, <3>1, <3>2
  <2>4. QED BY <2>1, <2>3 DEF OneInv
<1>4. BaseInv /\ OneOrder => OneOrderPerRequest
  BY <1>3 DEF OneOrderPerRequest
<1>5. QED BY <1>1, <1>2, <1>4, BaseAlways, PTL DEF Spec
=============================================================================
