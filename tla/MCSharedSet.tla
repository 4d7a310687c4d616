---------------------------- MODULE MCSharedSet ----------------------------
(* Models of SharedSet for TLC: two values with hashes of their own.       *)
EXTENDS SharedSet

CONSTANTS i1, i2, k1, k2

Hashes == k1 :> 1 @@ k2 :> 2
EntryKeys == i1 :> k1 @@ i2 :> k2
EntryHashes == [i \in Items |-> Hashes[EntryKeys[i]]]

AllOps == [t \in Threads |-> SetOps]
AllKeys == [t \in Threads |-> Keys]
AllItems == [t \in Threads |-> Items]
NoOps == [t \in Threads |-> {}]
Closures == {{i1}, {i2}}
=============================================================================
