----------------------------- MODULE OrderForms -----------------------------
(***************************************************************************)
(* What the four ways of writing an order's receiver and address let       *)
(* through: the pages check a form and choose what to send, the service    *)
(* checks the message against its DTO and chooses what to store.           *)
(*                                                                         *)
(* A form holds groups of fields, each filled or empty: ubMust is district,*)
(* khoroo and building, ubRest entrance, floor and door, onMust province   *)
(* and soum, onRest the transport, and text the receiver's name and the    *)
(* free text, which every region has.  `long' names the groups in which a  *)
(* field is longer than the DTOs allow.                                    *)
(***************************************************************************)
EXTENDS FiniteSets

Parts == {"ubMust", "ubRest", "onMust", "onRest"}
Form == [region : {"UB", "ON"}, name : BOOLEAN, parts : SUBSET Parts,
         long : SUBSET (Parts \cup {"text"})]

Must(f) == IF f.region = "UB" THEN {"ubMust"} ELSE {"onMust"}
Own(f) == IF f.region = "UB" THEN {"ubMust", "ubRest"} ELSE {"onMust", "onRest"}

Sent(f) == [f EXCEPT !.parts = @ \cap Own(f),
                     !.long = @ \cap (Own(f) \cup {"text"})]

\* The staff's page for a new order, and the DTO and the row behind it.  No
\* page asks for the length of what it sends; each DTO does.
OrderPageAccepts(f) == Own(f) \subseteq f.parts
OrderPageSends(f) == Sent(f)
CreateDtoAccepts(m) == Own(m) \subseteq m.parts /\ m.long = {}
CreateStores(m) == [m EXCEPT !.parts = @ \cap Own(m)]

\* The customer's page behind the public link: fewer fields are required.
\* Mistake: the page leaves the name to the server.
LinkPageAcceptsNameless(f) == Must(f) \subseteq f.parts
LinkPageAccepts(f) == f.name /\ Must(f) \subseteq f.parts
LinkPageSends(f) == Sent(f)
RequestDtoAccepts(m) == m.name /\ Must(m) \subseteq m.parts /\ m.long = {}
SubmitStores(m) == [m EXCEPT !.parts = @ \cap Own(m)]

\* The drawer that edits an order shows its row and sends it back whole; an
\* empty name is sent too, and the DTO wants two letters of a name it gets.
EditPageShows(row) == row
EditPageSends(f) == Sent(f)
UpdateDtoAccepts(m) == m.name /\ Must(m) \subseteq m.parts /\ m.long = {}
UpdateStores(row, m) == [m EXCEPT !.parts = @ \cap Own(m)]
=============================================================================
