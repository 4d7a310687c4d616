----------------------------- MODULE SharedSet -----------------------------
(***************************************************************************)
(* SharedSet<T> of src/src/shared_set.rs: a SharedMap<T, ()>.  An entry's  *)
(* key is the value that it is inserted for.  remove answers whether it    *)
(* found anything, insert answers nothing.                                 *)
(***************************************************************************)
EXTENDS SharedMap

SetOps == {"insert", "contains", "remove"}

SetCall(t) ==
  \/ \E i \in Items : MapInsert(t, i)
  \/ \E k \in KeysOf[t] : MapContains(t, k) \/ MapRemove(t, k)

SetNext == \E t \in Threads : SetCall(t) \/ MapProceed(t)

SetSpec ==
  /\ MapInit /\ [][SetNext]_mapVars
  /\ \A t \in Threads : WF_mapVars(MapProceed(t))

(* shared_map.rs:7-8, of the map below the set: it "allows for a map to be *)
(* shared between threads safely".  The code breaks it when a remove       *)
(* empties the bucket between the first look of insert's push at the head  *)
(* and its create_lock: at the end of the list, which is the head, the     *)
(* push waits for the lock that it holds itself.                           *)
SetCallsEnd == \A t \in Threads : op[t] # NoOp ~> op[t] = NoOp \/ At(t, "panicked")
=============================================================================
