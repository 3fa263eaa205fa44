------------------------------- MODULE MCBell -------------------------------
(* An instance of Notifications: one of the staff with one page, a partner, *)
(* two callers and two questions under way.                                *)
EXTENDS Notifications, TLC

CONSTANTS m1, b1, c1, c2

ShopWork == (c1 :> {"lowStock", "override", "role"})
            @@ (c2 :> {"lowStock", "request", "notify", "bell"})
=============================================================================
