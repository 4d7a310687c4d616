----------------------------- MODULE MCCowData ------------------------------
(* Model of CowData for TLC: see the cfg file for the bounds.              *)
EXTENDS CowData, TLC

CONSTANTS t1, t2, t3, p, u

(* A reader of p, beside two threads that swap, set or lock p and u.       *)
Roles == t1 :> {"get_ref"} @@ t2 :> AllMethods @@ t3 :> {"set", "swap"}
Shared == t1 :> {p} @@ t2 :> {p, u} @@ t3 :> {p, u}
=============================================================================
