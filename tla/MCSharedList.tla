---------------------------- MODULE MCSharedList ----------------------------
(* Models of SharedList for TLC: the clients and the items of the cfgs.    *)
EXTENDS SharedList

CONSTANTS t1, t2, t3, i1, i2, i3

(* Two of three items are equal for the order function: pushed in every    *)
(* order they meet every position of a sorted list, and a duplicate.       *)
EqualPair == i1 :> 1 @@ i2 :> 2 @@ i3 :> 2

(* Closures that match the items of a key, and one item.                   *)
KeyPredicates == {{i1}, {i2, i3}}
OneItemPredicates == {{i1}, {i3}}

(* t1 reads while t2 and t3 push and pop: an unordered list.               *)
StackOps == [t \in Threads |-> IF t = t1 THEN {"find"} ELSE {"pop"}]
StackItems ==
  [t \in Threads |-> IF t = t1 THEN {} ELSE IF t = t2 THEN {i1, i2} ELSE {i3}]

(* t1 reads while t2 calls everything else: an ordered list.               *)
OneWriterOps == [t \in Threads |-> IF t = t1 THEN {"find"} ELSE Ops \ {"find"}]
OneWriterItems == [t \in Threads |-> IF t = t1 THEN {} ELSE Items]

(* All push, nobody does anything else.                                    *)
NoOps == [t \in Threads |-> {}]
AllItems == [t \in Threads |-> Items]
=============================================================================
