----------------------------- MODULE MCRequests -----------------------------
(* An instance of OrderRequests.  The forms: complete and nameless, named   *)
(* with only what the link requires, one that was filled, at length, for    *)
(* the other region before the user switched, and one with too long a note. *)
EXTENDS OrderRequests, TLC

SomeForms == {
    [region |-> "UB", name |-> FALSE, parts |-> {"ubMust", "ubRest"}, long |-> {}],
    [region |-> "UB", name |-> TRUE, parts |-> {"ubMust"}, long |-> {}],
    [region |-> "ON", name |-> TRUE, parts |-> Parts, long |-> {"ubRest"}],
    [region |-> "ON", name |-> TRUE, parts |-> {"onMust", "onRest"}, long |-> {"text"}]}

Symmetry == Permutations(RequestIds) \cup Permutations(OrderIds)
            \cup Permutations(Staff)
=============================================================================
