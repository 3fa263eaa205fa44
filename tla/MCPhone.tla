------------------------------- MODULE MCPhone ------------------------------
(* An instance of OfflineQueue: a telephone with one tab, whose sheet and    *)
(* flush confirm two deliveries; two refresh tokens matter at one time.    *)
EXTENDS OfflineQueue, TLC

CONSTANTS t1, s1, f1, e1, e2, k1, k2

PhoneTabOf == (s1 :> t1) @@ (f1 :> t1)
PhoneRestorer == t1 :> f1
=============================================================================
