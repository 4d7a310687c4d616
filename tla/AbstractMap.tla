---------------------------- MODULE AbstractMap ----------------------------
(***************************************************************************)
(* What a bucket of SharedMap<K, V> (src/src/shared_map.rs) promises: a    *)
(* set of entries with at most one for each hash, which entries are put    *)
(* into and taken from one by one.  No entry is taken by two calls.        *)
(***************************************************************************)
CONSTANTS
  Threads,
  Items,        \* the entries that are inserted, each at most once
  Hash          \* the hash of an entry's key

VARIABLES
  content,      \* the entries of the map
  taken         \* what the call of each thread has taken and will answer with

vars == <<content, taken>>

Init ==
  /\ content = {}
  /\ taken = [t \in Threads |-> {}]

Put(i) ==
  /\ \A j \in content : Hash[j] # Hash[i]
  /\ content' = content \cup {i}
  /\ UNCHANGED taken

Take(t, i) ==
  /\ i \in content
  /\ content' = content \ {i}
  /\ taken' = [taken EXCEPT ![t] = @ \cup {i}]

Return(t) ==
  /\ taken' = [taken EXCEPT ![t] = {}]
  /\ UNCHANGED content

Next ==
  \/ \E t \in Threads : Return(t)
  \/ \E i \in Items : Put(i) \/ \E t \in Threads : Take(t, i)

Spec == Init /\ [][Next]_vars
=============================================================================
