---------------------------- MODULE MCSharedMap ----------------------------
(* Models of SharedMap for TLC: the clients, keys and entries of the cfgs. *)
EXTENDS SharedMap

CONSTANTS t1, t2, i1, i2, i3, i4, k1, k2, k3

(* i1 and i2 have different keys with one hash, i3 and i4 one key, whose   *)
(* hash comes before it.                                                   *)
Hashes == k1 :> 1 @@ k2 :> 1 @@ k3 :> 0
EntryKeys == i1 :> k1 @@ i2 :> k2 @@ i3 :> k3 @@ i4 :> k3
EntryHashes == [i \in Items |-> Hashes[EntryKeys[i]]]

(* t1 reads and t2 writes.                                                 *)
OneWriter == [t \in Threads |-> IF t = t1 THEN {"get", "contains"}
                                     ELSE MapOps \ {"get", "contains"}]
OneWriterKeys == [t \in Threads |-> IF t = t1 THEN {k1} ELSE Keys]
OneWriterItems == [t \in Threads |-> IF t = t1 THEN {} ELSE Items]

(* t1 inserts, t2 removes a key that it has not inserted.                  *)
TwoWriters == [t \in Threads |-> IF t = t1 THEN {"insert"} ELSE {"remove"}]
TwoWriterKeys == [t \in Threads |-> {k2}]
TwoWriterItems == [t \in Threads |-> IF t = t1 THEN {i1} ELSE {}]

(* The list is called by the map alone.                                    *)
NoOps == [t \in Threads |-> {}]
Closures == {Entries(k) : k \in Keys} \cup {Colliding(k) : k \in Keys}
=============================================================================
