---------------------------- MODULE AbstractList ----------------------------
(***************************************************************************)
(* What SharedList<T> (src/src/shared_list2.rs) promises when its calls do *)
(* not get in each other's way: a sequence that push inserts into, pop     *)
(* takes the first entry of and remove_count takes any entries of, each in *)
(* one step.  Without an order function the sequence is a stack; with one  *)
(* it is sorted, equal entries in the order they were pushed or, if the    *)
(* enforce_noneq flag is set, at most one of them.                         *)
(***************************************************************************)
EXTENDS Naturals, Sequences, SequencesExt, FiniteSets

CONSTANTS
  Threads,
  Items,        \* the values pushed, each at most once
  Key,          \* what the order function compares
  Ordered,      \* new_ordered, not new
  None

VARIABLES
  noneq,        \* the enforce_noneq flag
  edited,       \* a client has changed what the order function compares
  list,         \* the entries from the head on
  popped,       \* what the pop call of each thread has taken and will return
  removed       \* what the remove call of each thread has taken so far

vars == <<noneq, edited, list, popped, removed>>

Init ==
  /\ noneq \in BOOLEAN
  /\ edited = FALSE
  /\ list = <<>>
  /\ popped = [t \in Threads |-> None]
  /\ removed = [t \in Threads |-> {}]

SetNoneq ==
  /\ noneq' \in BOOLEAN
  /\ UNCHANGED <<edited, list, popped, removed>>

Edit ==
  /\ edited' = TRUE
  /\ UNCHANGED <<noneq, list, popped, removed>>

Positions(i) ==
  IF ~Ordered THEN {1}
  ELSE IF edited THEN 1 .. Len(list) + 1
  ELSE {1 + Cardinality({k \in DOMAIN list : Key[list[k]] <= Key[i]})}

Push(i) ==
  /\ i \notin ToSet(list)
  /\ Ordered /\ noneq /\ ~edited => \A j \in ToSet(list) : Key[j] # Key[i]
  /\ \E p \in Positions(i) : list' = InsertAt(list, p, i)
  /\ UNCHANGED <<noneq, edited, popped, removed>>

Pop(t) ==
  /\ list # <<>>
  /\ popped[t] = None
  /\ popped' = [popped EXCEPT ![t] = Head(list)]
  /\ list' = Tail(list)
  /\ UNCHANGED <<noneq, edited, removed>>

Take(t, k) ==
  /\ removed' = [removed EXCEPT ![t] = @ \cup {list[k]}]
  /\ list' = RemoveAt(list, k)
  /\ UNCHANGED <<noneq, edited, popped>>

Return(t) ==
  /\ popped' = [popped EXCEPT ![t] = None]
  /\ removed' = [removed EXCEPT ![t] = {}]
  /\ UNCHANGED <<noneq, edited, list>>

Next ==
  \/ \E t \in Threads : Return(t)
  \/ SetNoneq \/ Edit
  \/ \E i \in Items : Push(i)
  \/ \E t \in Threads : Pop(t) \/ \E k \in DOMAIN list : Take(t, k)

Spec == Init /\ [][Next]_vars
=============================================================================
