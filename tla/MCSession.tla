------------------------------ MODULE MCSession -----------------------------
(* An instance of Session: a tab with two requests at a time beside one with *)
(* a single request; the tokens are interchangeable.                       *)
EXTENDS Session, TLC

CONSTANTS t1, t2, s1, f1, f2, k1, k2, k3, k4

PageTabOf == (s1 :> t1) @@ (f1 :> t1) @@ (f2 :> t2)
PageRestorer == (t1 :> f1) @@ (t2 :> f2)
Sym == Permutations(Tokens)
=============================================================================
