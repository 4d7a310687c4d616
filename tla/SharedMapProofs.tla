-------------------------- MODULE SharedMapProofs --------------------------
(***************************************************************************)
(* Proofs about SharedMap: its types, for any clients; and for one thread  *)
(* that updates the map beside any number that read it, what each method   *)
(* answers and that the map has at most one entry for each hash.           *)
(***************************************************************************)
EXTENDS SharedMap, SharedListRefinementProofs

(* What a map call asks for, and the list call that each of its stages     *)
(* makes.                                                                  *)
Shaped(o) ==
  /\ o.stage = "none" => o = NoOp
  /\ o.stage \in {"get", "contains", "remove"} => o.key \in Keys /\ o.item = Null
  /\ o.stage \in {"evict", "put", "seek", "func", "fill", "again"} =>
       o.item \in Items /\ o.key = KeyOf[o.item]
Makes(o, c) ==
  \/ c.method = "none"
  \/ o.stage \in {"evict", "remove"} /\ c.method = "remove_count" /\ c.want = Colliding(o.key)
  \/ /\ o.stage \in {"put", "fill"} /\ c.item = o.item
     /\ c.method \in {"pushHead", "pushOrdered", "pushSkipped"}
  \/ o.stage \in {"get", "seek"} /\ c.method = "find" /\ c.want = Entries(o.key)
  \/ o.stage \in {"contains", "again"} /\ c.method = "find" /\ c.want = Colliding(o.key)
Fits ==
  \A t \in Threads :
    /\ Shaped(op[t]) /\ Makes(op[t], call[t])
    /\ AtStage(t, "none") => At(t, "idle")

(* The entry that a call is to insert is its own, and nowhere in the list  *)
(* until it is pushed.                                                     *)
Held ==
  \A t \in Threads : op[t].item # Null =>
    /\ op[t].item \in Items \ unused
    /\ \A u \in Threads \ {t} : op[u].item # op[t].item
    /\ op[t].stage \in {"evict", "seek", "func"} => Nowhere(op[t].item)

(* The invariant of every map, whose lists nobody calls iter_mut on.       *)
MInv == TInv /\ GInv /\ ~edited /\ MapTypeOK /\ Fits /\ Held

-----------------------------------------------------------------------------
(* Any clients.                                                            *)

(* The closures are those of the list, and match items.                    *)
LEMMA Closures ==
  ASSUME NEW k \in Keys
  PROVE  /\ Entries(k) \in Predicates /\ Colliding(k) \in Predicates
         /\ Entries(k) \subseteq Colliding(k) /\ Colliding(k) \subseteq Items
BY MapAssumption DEF Entries, Colliding

(* Entries collide that have the same hash.                                *)
LEMMA SameHash ==
  ASSUME NEW k \in Keys
  PROVE  /\ \A i, j \in Colliding(k) : Key[i] = Key[j]
         /\ \A i \in Items, j \in Colliding(k) : Key[i] = Key[j] => i \in Colliding(k)
         /\ \A i \in Items : KeyOf[i] = k => i \in Colliding(k)
<1>. \A i \in Items : Key[i] = HashOf[KeyOf[i]]
  BY MapAssumption
<1> QED
  BY DEF Colliding

(* A call has a key, and one that inserts an entry of that key.            *)
LEMMA KeyKnown ==
  ASSUME MInv, NEW t \in Threads, ~AtStage(t, "none")
  PROVE  /\ key(t) \in Keys
         /\ op[t].stage \in {"evict", "put", "seek", "func", "fill", "again"} =>
              op[t].item \in Items /\ op[t].item \in Colliding(key(t))
<1>1. /\ op[t].stage \in Stages \cup {"none"} /\ Shaped(op[t])
  BY DEF MInv, Fits, MapTypeOK
<1>2. op[t].stage \in {"evict", "put", "seek", "func", "fill", "again"} =>
        /\ op[t].item \in Items /\ key(t) = KeyOf[op[t].item] /\ key(t) \in Keys
  BY <1>1, MapAssumption DEF Shaped, key
<1>3. op[t].stage \in {"get", "contains", "remove"} => key(t) \in Keys
  BY <1>1 DEF Shaped, key
<1> QED
  BY <1>1, <1>2, <1>3, SameHash DEF Stages, AtStage

(* An access goes on with the list call of its thread or ends it.          *)
LEMMA CallGoesOn ==
  ASSUME TInv, OnPath, NEW t \in Threads, Proceed(t)
  PROVE  /\ call[t].method # "none" /\ pc[t] \notin {"idle", "panicked"}
         /\ \/ call'[t] = NoCall /\ pc'[t] = "idle"
            \/ /\ call'[t].want = call[t].want /\ call'[t].item = call[t].item
               /\ pc'[t] # "idle"
               /\ \/ call'[t].method = call[t].method
                  \/ /\ call[t].method = "pushOrdered"
                     /\ call'[t].method \in {"pushHead", "pushSkipped"}
<1>. /\ pc \in [Threads -> Places] /\ call \in [Threads -> Calls]
     /\ reg \in [Threads -> Regs]
  BY DEF TInv, TypeOK
<1>. /\ pc[t] \in {"decideWait", "decide", "noneq", "setLock", "setImm", "setStore", "setFreeImm",
                  "setFreeMut"} => call[t].method = "pushOrdered"
  BY MethodAt
<1>1. pc[t] \notin {"idle", "panicked"}
  BY DEF Proceed, WaitImm, Decide, Lock, Test, GetTest, GetNull, GetPanic, NodeGone, PushSkip, PushCompare, PushFind,
      Reload, PushStore, SetLock, SetImm, SetStore, SetFreeImm, SetFreeMut, PushCount,
      Unlock, PopFind, LoadNext, PopCount, PopStore, RemoveFind, RemoveStore,
      RemoveCount, Move, FindHit, FindNext, MutLock, MutLoad, MutFind, MutDrop,
      Got, Step, At, Tests
<1>2. call[t].method # "none"
  BY <1>1 DEF OnPath, Doing
<1> SUFFICES \/ call'[t] = NoCall /\ pc'[t] = "idle"
             \/ /\ call'[t].want = call[t].want /\ call'[t].item = call[t].item
                /\ pc'[t] # "idle"
                /\ \/ call'[t].method = call[t].method
                   \/ /\ call[t].method = "pushOrdered"
                      /\ call'[t].method \in {"pushHead", "pushSkipped"}
  BY <1>1, <1>2
<1> USE DEF Goto, Step, At, Doing
<1>3. CASE WaitImm(t) \/ Lock(t) \/ SetLock(t) \/ SetImm(t) \/ SetFreeImm(t)
           \/ SetFreeMut(t) \/ PopCount(t) \/ MutLock(t)
  BY <1>3 DEF WaitImm, Lock, SetLock, SetImm, SetFreeImm, SetFreeMut,
      PopCount, MutLock, Tests
<1>4. CASE PushStore(t) \/ SetStore(t) \/ PopStore(t)
  BY <1>4 DEF PushStore, SetStore, PopStore
<1>5. CASE Decide(t) \/ RemoveCount(t)
  BY <1>5 DEF Decide, RemoveCount, Calls
<1>6. CASE LoadNext(t) \/ Reload(t) \/ MutLoad(t) \/ Move(t) \/ FindNext(t)
           \/ RemoveStore(t) \/ MutDrop(t)
  BY <1>6 DEF LoadNext, Reload, MutLoad, Move, FindNext, RemoveStore,
      MutDrop
<1>7. CASE GetTest(t) \/ GetNull(t) \/ GetPanic(t)
  BY <1>7 DEF GetTest, GetNull, GetPanic, NodeGone, Panic
<1>8. CASE PushSkip(t) \/ PushCompare(t) \/ PushFind(t) \/ PopFind(t) \/ RemoveFind(t) \/
           MutFind(t)
  BY <1>8 DEF PushSkip, PushCompare, PushFind, PopFind, RemoveFind, MutFind, Got, Calls
<1>9. CASE Test(t) \/ PushCount(t) \/ Unlock(t) \/ FindHit(t)
  BY <1>9 DEF Test, PushCount, Unlock, FindHit, Return, AtEnd, AtNode,
      Pushes
<1> QED
  BY <1>3, <1>4, <1>5, <1>6, <1>7, <1>8, <1>9 DEF Proceed

(* What a list call returns are items.                                     *)
LEMMA OutcomeType ==
  ASSUME TInv, MapTypeOK, NEW t \in Threads
  PROVE  Outcome(t) \subseteq Items
<1>. reg[t].got \subseteq Items /\ found[t] \subseteq Items
  BY DEF TInv, TypeOK, Regs, MapTypeOK
<1>. call[t].want \subseteq Items
  BY ListAssumption DEF TInv, TypeOK, Calls
<1> QED
  BY DEF Outcome, Matches

(* An access of a list call keeps the invariant of every map.              *)
LEMMA AccessKeeps ==
  ASSUME MInv, NEW t \in Threads, ListStep(t)
  PROVE  MInv'
<1>. TInv /\ TypeOK /\ GInv /\ OnPath /\ MapTypeOK /\ Fits /\ Held
  BY DEF MInv, TInv, GInv
<1>1. /\ Proceed(t) /\ op' = op /\ began' = began
      /\ found' = [found EXCEPT ![t] = Outcome(t)]
  BY DEF ListStep
<1>2. TInv' /\ GInv'
  BY <1>1, TypesStep, PathsProceed DEF Next
<1>3. MapTypeOK'
  BY <1>1, OutcomeType DEF MapTypeOK
<1>4. ASSUME NEW u \in Threads
      PROVE  Makes(op[u], call'[u]) /\ (AtStage(u, "none") => pc'[u] = "idle")
  <2>1. Shaped(op[u]) /\ Makes(op[u], call[u]) /\ (AtStage(u, "none") => pc[u] = "idle")
    BY DEF Fits, At
  <2>2. CASE u # t
    BY <1>1, <2>1, <2>2, Elsewhere
  <2>3. CASE u = t
    BY <1>1, <2>1, <2>3, CallGoesOn DEF Makes, NoCall, AtStage
  <2> QED
    BY <2>2, <2>3
<1>5. Fits'
  BY <1>1, <1>4 DEF Fits, AtStage, At
<1>6. unused' = unused
  BY <1>1, PendingKept
<1>7. ASSUME NEW u \in Threads, op[u].item # Null, op[u].stage \in {"evict", "seek", "func"}
      PROVE  Nowhere(op[u].item)'
  <2>1. PICK i \in Items : i = op[u].item /\ Nowhere(i)
    BY <1>7 DEF Held
  <2>2. PushStore(t) \/ SetStore(t) => call[t].item # i
    <3> SUFFICES ASSUME PushStore(t) \/ SetStore(t) PROVE call[t].item # i
      OBVIOUS
    <3>1. call[t].method \in Pushes
      BY <1>1, PendingKept DEF Pending
    <3>2. call[t].item = op[t].item /\ op[t].stage \in {"put", "fill"}
      BY <3>1 DEF Fits, Makes, Pushes
    <3>3. u # t
      BY <1>7, <3>2
    <3> QED
      BY <1>7, <2>1, <3>2, <3>3 DEF Held
  <2>3. Nowhere(i)'
    BY <1>1, <2>1, <2>2, NowhereStep
  <2>4. op'[u].item = i
    BY <1>1, <2>1
  <2> QED
    BY <2>3, <2>4 DEF Nowhere
<1>8. Held'
  BY <1>1, <1>6, <1>7 DEF Held
<1>9. ~edited'
  <2>1. Makes(op[t], call[t]) /\ ~edited
    BY DEF Fits, MInv
  <2>2. ~MutDrop(t)
    <3> SUFFICES ASSUME MutDrop(t) PROVE FALSE
      OBVIOUS
    <3>1. pc[t] = "mutDrop"
      BY DEF MutDrop, Step, At
    <3>2. call[t].method = "iter_mut"
      BY <3>1, MethodAt
    <3> QED
      BY <2>1, <3>2 DEF Makes
  <2> QED
    BY <1>1, <2>1, <2>2, KeptNarrows
<1> QED
  BY <1>2, <1>3, <1>5, <1>8, <1>9 DEF MInv

(* The list calls that a map makes start as those of any client do.        *)
LEMMA BeginStarts ==
  ASSUME TInv, NEW t \in Threads, NEW place \in Places, NEW method \in Methods, NEW i \in Nodes,
         NEW want \in Predicates \cup {{}}, NEW n \in Nat, Entry(place, method),
         method \in Pushes => i \in Items, Begin(t, place, method, i, want, n)
  PROVE  /\ Starts(t)
         /\ call'[t] = [method |-> method, item |-> i, want |-> want, count |-> n]
<1>1. Starts(t)
  BY DEF Starts
<1>2. call \in [Threads -> Calls]
  BY DEF TInv, TypeOK
<1> QED
  BY <1>1, <1>2 DEF Begin

LEMMA PushStarts ==
  ASSUME TInv, NEW t \in Threads, NEW i \in Items, StartPush(t, i)
  PROVE  /\ Starts(t) /\ kept' = kept /\ At(t, "idle")
         /\ call'[t].method \in Pushes /\ call'[t].item = i
<1>. /\ {"decideWait", "lock"} \subseteq Places /\ Pushes \subseteq Methods
     /\ i \in Nodes /\ {} \in Predicates \cup {{}} /\ 0 \in Nat
     /\ "pushHead" \in Pushes /\ "pushOrdered" \in Pushes
  BY DEF Places, Methods, Nodes, Pushes
<1>1. CASE Ordered
  <2>1. Begin(t, "decideWait", "pushOrdered", i, {}, 0) /\ kept' = kept
    BY <1>1 DEF StartPush
  <2>2. Entry("decideWait", "pushOrdered")
    BY <1>1 DEF Entry
  <2>3. /\ Starts(t)
        /\ call'[t] = [method |-> "pushOrdered", item |-> i, want |-> {}, count |-> 0]
    BY <2>1, <2>2, BeginStarts
  <2> QED
    BY <2>1, <2>3 DEF Begin
<1>2. CASE ~Ordered
  <2>1. Begin(t, "lock", "pushHead", i, {}, 0) /\ kept' = kept
    BY <1>2 DEF StartPush
  <2>2. Entry("lock", "pushHead")
    BY <1>2 DEF Entry
  <2>3. /\ Starts(t)
        /\ call'[t] = [method |-> "pushHead", item |-> i, want |-> {}, count |-> 0]
    BY <2>1, <2>2, BeginStarts
  <2> QED
    BY <2>1, <2>3 DEF Begin
<1> QED
  BY <1>1, <1>2

LEMMA RemoveStarts ==
  ASSUME TInv, NEW t \in Threads, NEW want \in Predicates, NEW n \in Nat,
         StartRemove(t, want, n)
  PROVE  /\ Starts(t) /\ kept' = kept /\ At(t, "idle")
         /\ call'[t].method = "remove_count" /\ call'[t].want = want /\ call'[t].count = n
<1>1. Begin(t, "lock", "remove_count", Null, want, n) /\ kept' = kept
  BY DEF StartRemove
<1>2. /\ "lock" \in Places /\ "remove_count" \in Methods /\ Null \in Nodes
      /\ Entry("lock", "remove_count") /\ "remove_count" \notin Pushes
  BY DEF Places, Methods, Ops, Nodes, Entry, Pushes
<1>3. /\ Starts(t)
      /\ call'[t] = [method |-> "remove_count", item |-> Null, want |-> want, count |-> n]
  BY <1>1, <1>2, BeginStarts
<1> QED
  BY <1>1, <1>3 DEF Begin

LEMMA FindStarts ==
  ASSUME TInv, NEW t \in Threads, NEW want \in Predicates, StartFind(t, want)
  PROVE  /\ Starts(t) /\ kept' = [kept EXCEPT ![t] = Listed] /\ At(t, "idle")
         /\ call'[t].method = "find" /\ call'[t].want = want
<1>1. Begin(t, "testWait", "find", Null, want, 0) /\ kept' = [kept EXCEPT ![t] = Listed]
  BY DEF StartFind
<1>2. /\ "testWait" \in Places /\ "find" \in Methods /\ Null \in Nodes /\ 0 \in Nat
      /\ Entry("testWait", "find") /\ "find" \notin Pushes
  BY DEF Places, Methods, Ops, Nodes, Entry, Pushes
<1>3. /\ Starts(t)
      /\ call'[t] = [method |-> "find", item |-> Null, want |-> want, count |-> 0]
  BY <1>1, <1>2, BeginStarts
<1> QED
  BY <1>1, <1>3 DEF Begin

(* A thread starts a map call, or the next list call of one.               *)
Starting(t) == MapCall(t) \/ InsertPut(t) \/ ComputeFill(t) \/ ComputeAgain(t)

(* What this leaves to be said of the caller and of the entry it brings.   *)
Started(t) ==
  /\ Starts(t) /\ Brings(t)
  /\ call'[t].method = "remove_count" => call'[t].count > 0
  /\ unused' \subseteq unused /\ calls' \in 0 .. MaxCalls
  /\ IF call'[t].method = "find" THEN kept' = [kept EXCEPT ![t] = Listed] ELSE kept' = kept
  /\ found' = found
  /\ op'[t] \in [stage : Stages \cup {"none"}, key : Keys \cup {Null}, item : Nodes]
  /\ op' = [op EXCEPT ![t] = op'[t]]
  /\ began'[t] \subseteq Items
  /\ began' = [began EXCEPT ![t] = began'[t]]
  /\ Shaped(op'[t]) /\ Makes(op'[t], call'[t]) /\ op'[t].stage # "none"
  /\ op'[t].item # Null =>
       /\ op'[t].item \in Items \ unused'
       /\ \A u \in Threads \ {t} : op[u].item # op'[t].item
       /\ op'[t].stage \in {"evict", "seek", "func"} => Nowhere(op'[t].item)

LEMMA CountType == All \in Nat /\ All > 0 /\ 1 \in Nat
BY FS_CardinalityType, ListAssumption DEF All

LEMMA UpdateStarts ==
  ASSUME MInv, NEW t \in Threads, NEW i \in Items, MapInsert(t, i) \/ ComputeIfAbsent(t, i)
  PROVE  /\ Started(t) /\ op[t] = NoOp /\ began'[t] = Listed
         /\ op'[t].stage \in {"evict", "seek"} /\ op'[t].item \in unused
<1>. TInv /\ Held /\ MapTypeOK /\ PendingNowhere
  BY DEF MInv, GInv
<1>. KeyOf[i] \in Keys /\ i # Null /\ i \in Nodes
  BY MapAssumption, ListAssumption DEF Nodes
<1>1. PICK stage \in {"evict", "seek"} :
        /\ \/ stage = "evict" /\ StartRemove(t, Colliding(KeyOf[i]), All)
           \/ stage = "seek" /\ StartFind(t, Entries(KeyOf[i]))
        /\ i \in ItemsOf[t] \cap unused
        /\ unused' = unused \ {i}
        /\ op[t] = NoOp
        /\ op' = [op EXCEPT ![t] = [stage |-> stage, key |-> KeyOf[i], item |-> i]]
        /\ found' = found
        /\ began' = [began EXCEPT ![t] = Listed]
        /\ calls' = calls
  BY DEF MapInsert, ComputeIfAbsent, Update, Enter
<1>2. /\ Starts(t) /\ Makes([stage |-> stage, key |-> KeyOf[i], item |-> i], call'[t])
      /\ call'[t].method = "remove_count" => call'[t].count > 0
      /\ IF call'[t].method = "find" THEN kept' = [kept EXCEPT ![t] = Listed] ELSE kept' = kept
      /\ call'[t].method \notin Pushes
  <2>1. CASE stage = "evict"
    BY <1>1, <2>1, Closures, CountType, RemoveStarts DEF Makes, Pushes
  <2>2. CASE stage = "seek"
    BY <1>1, <2>2, Closures, FindStarts DEF Makes, Pushes
  <2> QED
    BY <2>1, <2>2
<1>3. /\ op'[t] = [stage |-> stage, key |-> KeyOf[i], item |-> i]
      /\ began'[t] = Listed /\ Listed \subseteq Items
      /\ calls' \in 0 .. MaxCalls
  BY <1>1, ListedItems DEF MapTypeOK, TInv, TypeOK
<1>4. Nowhere(i) /\ \A u \in Threads \ {t} : op[u].item # i
  BY <1>1 DEF PendingNowhere, Held
<1>5. Brings(t)
  BY <1>2 DEF Brings
<1>6. /\ op'[t].stage = stage /\ op'[t].key = KeyOf[i] /\ op'[t].item = i
      /\ op' = [op EXCEPT ![t] = op'[t]] /\ began' = [began EXCEPT ![t] = began'[t]]
  <2>1. op'[t].stage = stage /\ op'[t].key = KeyOf[i] /\ op'[t].item = i
    BY <1>3
  <2> DEFINE o == [stage |-> stage, key |-> KeyOf[i], item |-> i]
  <2>2. op'[t] = o /\ op' = [op EXCEPT ![t] = o]
    BY <1>1, <1>3
  <2> HIDE DEF o
  <2> QED
    BY <1>1, <1>3, <2>1, <2>2
<1>7. op'[t] \in [stage : Stages \cup {"none"}, key : Keys \cup {Null}, item : Nodes]
  BY <1>3 DEF Stages
<1>8. Makes(op'[t], call'[t])
  BY <1>2, <1>3
<1>9. Started(t)
  BY <1>1, <1>2, <1>3, <1>4, <1>5, <1>6, <1>7, <1>8 DEF Started, Shaped
<1> QED
  BY <1>1, <1>3, <1>6, <1>9

LEMMA QueryStarts ==
  ASSUME MInv, NEW t \in Threads, NEW k \in KeysOf[t],
         MapGet(t, k) \/ MapContains(t, k) \/ MapRemove(t, k)
  PROVE  /\ Started(t) /\ op[t] = NoOp /\ unused' = unused
         /\ op'[t].stage \in {"get", "contains", "remove"}
         /\ op'[t].stage = "remove" => "remove" \in MapOpsOf[t] /\ began'[t] = Listed
         /\ op'[t].stage # "remove" => began'[t] = Left
<1>. TInv /\ MapTypeOK
  BY DEF MInv
<1>. k \in Keys /\ Null \in Nodes
  BY MapAssumption DEF Nodes
<1>1. PICK stage \in {"get", "contains", "remove"} :
        /\ \/ stage = "get" /\ StartFind(t, Entries(k)) /\ began' = [began EXCEPT ![t] = Left]
           \/ stage = "contains" /\ StartFind(t, Colliding(k)) /\ began' = [began EXCEPT ![t] = Left]
           \/ stage = "remove" /\ StartRemove(t, Colliding(k), 1)
              /\ began' = [began EXCEPT ![t] = Listed]
        /\ stage \in MapOpsOf[t]
        /\ unused' = unused
        /\ op[t] = NoOp
        /\ op' = [op EXCEPT ![t] = [stage |-> stage, key |-> k, item |-> Null]]
        /\ found' = found
        /\ calls < MaxCalls /\ calls' = calls + 1
  BY DEF MapGet, MapContains, Query, MapRemove, CountedEnter, Enter
<1>2. /\ Starts(t) /\ Makes([stage |-> stage, key |-> k, item |-> Null], call'[t])
      /\ call'[t].method = "remove_count" => call'[t].count > 0
      /\ IF call'[t].method = "find" THEN kept' = [kept EXCEPT ![t] = Listed] ELSE kept' = kept
      /\ call'[t].method \notin Pushes
  <2>1. CASE stage = "get"
    BY <1>1, <2>1, Closures, FindStarts DEF Makes, Pushes
  <2>2. CASE stage = "contains"
    BY <1>1, <2>2, Closures, FindStarts DEF Makes, Pushes
  <2>3. CASE stage = "remove"
    BY <1>1, <2>3, Closures, CountType, RemoveStarts DEF Makes, Pushes
  <2> QED
    BY <2>1, <2>2, <2>3
<1>3. /\ op'[t] = [stage |-> stage, key |-> k, item |-> Null]
      /\ began'[t] = IF stage = "remove" THEN Listed ELSE Left
      /\ began' = [began EXCEPT ![t] = began'[t]]
      /\ Listed \subseteq Items /\ Left \subseteq Items
  BY <1>1, ListedItems DEF MapTypeOK, Left
<1>4. calls' \in 0 .. MaxCalls
  BY <1>1, ListAssumption DEF TInv, TypeOK
<1>5. Brings(t)
  BY <1>2 DEF Brings
<1>6. /\ op'[t].stage = stage /\ op'[t].key = k /\ op'[t].item = Null
      /\ op' = [op EXCEPT ![t] = op'[t]]
  <2>1. op'[t].stage = stage /\ op'[t].key = k /\ op'[t].item = Null
    BY <1>3
  <2> DEFINE o == [stage |-> stage, key |-> k, item |-> Null]
  <2>2. op'[t] = o /\ op' = [op EXCEPT ![t] = o]
    BY <1>1, <1>3
  <2> HIDE DEF o
  <2> QED
    BY <1>1, <1>3, <2>1, <2>2
<1>7. op'[t] \in [stage : Stages \cup {"none"}, key : Keys \cup {Null}, item : Nodes]
  BY <1>3 DEF Stages
<1>8. Makes(op'[t], call'[t])
  BY <1>2, <1>3
<1>9. Started(t)
  BY <1>1, <1>2, <1>3, <1>4, <1>5, <1>6, <1>7, <1>8 DEF Started, Shaped
<1> QED
  BY <1>1, <1>3, <1>6, <1>9

LEMMA StageStarts ==
  ASSUME MInv, NEW t \in Threads, InsertPut(t) \/ ComputeFill(t) \/ ComputeAgain(t)
  PROVE  /\ Started(t) /\ unused' = unused /\ began' = began
         /\ \/ AtStage(t, "evict") /\ op'[t] = [op[t] EXCEPT !.stage = "put"]
            \/ AtStage(t, "func") /\ op'[t] = [op[t] EXCEPT !.stage = "fill"]
            \/ AtStage(t, "fill") /\ op'[t] = [op[t] EXCEPT !.stage = "again"]
<1>. TInv /\ Held /\ Fits /\ MapTypeOK
  BY DEF MInv
<1>. KeyOf \in [Items -> Keys] /\ \A i \in Items : i # Null /\ i \in Nodes
  BY MapAssumption, ListAssumption DEF Nodes
<1>. op[t] \in [stage : Stages \cup {"none"}, key : Keys \cup {Null}, item : Nodes]
  BY DEF MapTypeOK
<1>1. PICK stage \in {"put", "fill", "again"} :
        /\ \/ AtStage(t, "evict") /\ stage = "put" /\ StartPush(t, op[t].item)
           \/ AtStage(t, "func") /\ stage = "fill" /\ StartPush(t, op[t].item)
           \/ AtStage(t, "fill") /\ stage = "again" /\ StartFind(t, Colliding(key(t)))
        /\ op' = [op EXCEPT ![t].stage = stage]
        /\ UNCHANGED <<unused, calls, found, began>>
  BY DEF InsertPut, ComputeFill, ComputeAgain, Then
<1>2. op'[t] = [op[t] EXCEPT !.stage = stage] /\ op' = [op EXCEPT ![t] = op'[t]]
  BY <1>1 DEF MapTypeOK
<1>3. Shaped(op[t]) /\ op[t].item \in Items /\ key(t) = KeyOf[op[t].item]
  BY <1>1 DEF Fits, Shaped, AtStage, key
<1>4. Shaped(op'[t]) /\ op'[t].item = op[t].item /\ op'[t].key = op[t].key /\ op'[t].stage = stage
  BY <1>2, <1>3 DEF Shaped, key
<1>5. /\ Starts(t) /\ Makes(op'[t], call'[t])
      /\ call'[t].method # "remove_count"
      /\ IF call'[t].method = "find" THEN kept' = [kept EXCEPT ![t] = Listed] ELSE kept' = kept
  <2>1. CASE stage = "again"
    BY <1>1, <1>3, <1>4, <2>1, Closures, FindStarts DEF Makes, Pushes, key, AtStage
  <2>2. CASE stage # "again"
    BY <1>1, <1>3, <1>4, <2>2, PushStarts DEF Makes, Pushes, AtStage
  <2> QED
    BY <2>1, <2>2
<1>6. Brings(t)
  <2> SUFFICES ASSUME call'[t].method \in Pushes PROVE Brings(t)
    BY DEF Brings
  <2>1. stage # "again" /\ call'[t].item = op[t].item
    BY <1>1, <1>3, <1>5, PushStarts, Closures, FindStarts DEF Pushes
  <2>2. op[t].stage \in {"evict", "func"}
    BY <1>1, <2>1 DEF AtStage
  <2>3. /\ Nowhere(op[t].item) /\ op[t].item \in Items \ unused
        /\ \A u \in Threads \ {t} : op[u].item # op[t].item
    BY <1>3, <2>2 DEF Held
  <2>4. ASSUME NEW u \in Threads \ {t}, Pending(u)
        PROVE  call[u].item # op[t].item
    <3>1. call[u].method \in Pushes /\ Makes(op[u], call[u])
      BY <2>4 DEF Pending, Fits
    <3>2. call[u].item = op[u].item
      BY <3>1 DEF Makes, Pushes
    <3> QED
      BY <2>3, <3>2
  <2> QED
    BY <1>1, <2>1, <2>3, <2>4 DEF Brings
<1>7. /\ op[t].item \in Items \ unused
      /\ \A u \in Threads \ {t} : op[u].item # op[t].item
  BY <1>3 DEF Held
<1>8. /\ calls' \in 0 .. MaxCalls /\ began[t] \subseteq Items
      /\ began' = [began EXCEPT ![t] = began'[t]]
  BY <1>1 DEF TInv, TypeOK, MapTypeOK
<1>9. op'[t] \in [stage : Stages \cup {"none"}, key : Keys \cup {Null}, item : Nodes]
  BY <1>2 DEF Stages
<1>10. Started(t)
  BY <1>1, <1>2, <1>4, <1>5, <1>6, <1>7, <1>8, <1>9 DEF Started
<1> QED
  BY <1>1, <1>2, <1>10

(* A start keeps the invariant of every map.                               *)
LEMMA StartKeeps ==
  ASSUME MInv, NEW t \in Threads, Started(t)
  PROVE  MInv'
<1>. TInv /\ GInv /\ ~edited /\ MapTypeOK /\ Fits /\ Held
  BY DEF MInv
<1>. Starts(t) /\ unused' \subseteq unused
  BY DEF Started
<1>1. /\ inner' = inner /\ reg' = reg /\ edited' = edited
      /\ \A u \in Threads \ {t} : pc'[u] = pc[u] /\ call'[u] = call[u]
  BY StartShape
<1>2. kept' \in [Threads -> SUBSET Items]
  BY ListedItems DEF Started, TInv, TypeOK
<1>3. TInv'
  BY <1>2, StartTypes DEF Started
<1>4. GInv'
  BY StartHolds DEF Started
<1>5. \A u \in Threads \ {t} : op'[u] = op[u] /\ began'[u] = began[u]
  BY DEF Started, MapTypeOK
<1>6. MapTypeOK'
  BY DEF Started, MapTypeOK
<1>7. ASSUME NEW u \in Threads
      PROVE  /\ Shaped(op'[u]) /\ Makes(op'[u], call'[u])
             /\ op'[u].stage = "none" => pc'[u] = "idle"
  <2>1. CASE u = t
    BY <2>1 DEF Started
  <2>2. CASE u # t
    BY <1>1, <1>5, <2>2 DEF Fits, AtStage, At
  <2> QED
    BY <2>1, <2>2
<1>8. Fits'
  BY <1>7 DEF Fits, AtStage, At
<1>9. ASSUME NEW u \in Threads, op'[u].item # Null
      PROVE  /\ op'[u].item \in Items \ unused'
             /\ \A v \in Threads \ {u} : op'[v].item # op'[u].item
             /\ op'[u].stage \in {"evict", "seek", "func"} => Nowhere(op'[u].item)
  <2>1. CASE u = t
    BY <1>5, <1>9, <2>1 DEF Started
  <2>2. CASE u # t
    <3>1. op[u].item # Null /\ op'[u] = op[u]
      BY <1>5, <1>9, <2>2
    <3>2. /\ op[u].item \in Items \ unused
          /\ \A v \in Threads \ {u} : op[v].item # op[u].item
          /\ op[u].stage \in {"evict", "seek", "func"} => Nowhere(op[u].item)
      BY <3>1 DEF Held
    <3>3. op'[t].item # op[u].item
      BY <2>2, <3>1 DEF Started
    <3> QED
      BY <1>5, <3>1, <3>2, <3>3
  <2> QED
    BY <2>1, <2>2
<1>10. Held'
  BY <1>1, <1>9 DEF Held, Nowhere
<1> QED
  BY <1>1, <1>3, <1>4, <1>6, <1>8, <1>10 DEF MInv

(* A step of a map call between its list calls, or after the last.         *)
Aside(t) == Answer(t) \/ ComputeCall(t) \/ ComputePanic(t)

(* It changes nothing of the list but what is remembered of a find.        *)
LEMMA AsideShape ==
  ASSUME MInv, NEW t \in Threads, Aside(t)
  PROVE  /\ inner' = inner /\ mutLock' = mutLock /\ immLock' = immLock /\ len' = len
         /\ rank' = rank /\ edited' = edited
         /\ enforce' = enforce /\ call' = call /\ reg' = reg /\ unused' = unused
         /\ calls' = calls /\ leaked' = leaked
         /\ pc[t] = "idle" /\ call[t].method = "none"
         /\ \A u \in Threads \ {t} :
              pc'[u] = pc[u] /\ op'[u] = op[u] /\ found'[u] = found[u] /\ began'[u] = began[u]
              /\ kept'[u] = kept[u]
         /\ \/ /\ (AtStage(t, "again") /\ found[t] = {}) \/ AtStage(t, "func")
               /\ pc'[t] = "panicked" /\ op' = op /\ found' = found /\ began' = began
               /\ kept' = kept
            \/ /\ pc' = pc /\ op'[t] = NoOp /\ found'[t] = {} /\ began'[t] = {}
               /\ kept'[t] = {}
            \/ /\ pc' = pc /\ AtStage(t, "seek") /\ found[t] = {}
               /\ op'[t].stage = "func" /\ op'[t].key = op[t].key /\ op'[t].item = op[t].item
               /\ found' = found /\ began' = began /\ kept' = kept
         /\ pc' \in [Threads -> Places] /\ kept' \in [Threads -> SUBSET Items]
<1>. TInv /\ TypeOK /\ MapTypeOK /\ OnPath
  BY DEF MInv, TInv, GInv
<1>. "panicked" \in Places
  BY DEF Places
<1>1. /\ UNCHANGED <<cells, len, enforce, call, reg, unused, calls, leaked, edited>>
      /\ pc[t] = "idle"
  BY DEF Aside, Answer, Answers, ComputeCall, ComputePanic, Then, Step, At
<1>2. call[t].method = "none"
  BY <1>1, MethodAt
<1>3. CASE ComputePanic(t) \/ (Answer(t) /\ AtStage(t, "again") /\ found[t] = {})
  <2>1. /\ pc' = [pc EXCEPT ![t] = "panicked"]
        /\ kept' = kept /\ op' = op /\ found' = found /\ began' = began
        /\ (AtStage(t, "again") /\ found[t] = {}) \/ AtStage(t, "func")
    BY <1>3 DEF Answer, ComputePanic, Step, Goto
  <2> QED
    BY <1>1, <1>2, <2>1 DEF TypeOK, cells
<1>4. CASE Answer(t) /\ ~(AtStage(t, "again") /\ found[t] = {})
  <2>1. Leave(t)
    BY <1>4 DEF Answer
  <2> QED
    BY <1>1, <1>2, <2>1 DEF Leave, TypeOK, MapTypeOK, cells
<1>5. CASE ComputeCall(t)
  <2>1. /\ pc' = pc /\ kept' = kept /\ found' = found /\ began' = began
        /\ op' = [op EXCEPT ![t].stage = "func"] /\ AtStage(t, "seek") /\ found[t] = {}
    BY <1>5 DEF ComputeCall, Then
  <2>2. /\ op'[t].stage = "func" /\ op'[t].key = op[t].key /\ op'[t].item = op[t].item
        /\ \A u \in Threads \ {t} : op'[u] = op[u]
    BY <2>1 DEF MapTypeOK
  <2> QED
    BY <1>1, <1>2, <2>1, <2>2 DEF TypeOK, cells
<1> QED
  BY <1>3, <1>4, <1>5 DEF Aside

(* It keeps the invariant of every map.                                    *)
LEMMA AsideKeeps ==
  ASSUME MInv, NEW t \in Threads, Aside(t)
  PROVE  MInv'
<1>. TInv /\ TypeOK /\ GInv /\ ~edited /\ OnPath /\ MapTypeOK /\ Fits /\ Held
  BY DEF MInv, TInv, GInv
<1>. Null \in Nodes /\ NoOp.stage = "none" /\ NoOp.item = Null
  BY DEF Nodes, NoOp
<1>1. TInv'
  <2>1. TypeOK'
    BY AsideShape DEF TypeOK, CellsType
  <2>2. ItemKnown' /\ NodeKnown' /\ CountPositive' /\ MethodKnown'
    BY AsideShape DEF TInv, ItemKnown, NodeKnown, CountPositive, MethodKnown, At, Doing
  <2> QED
    BY <2>1, <2>2 DEF TInv
<1>2. OnPath'
  BY AsideShape DEF OnPath, At, Doing
<1>3. \A u \in Threads : Pending(u)' => Pending(u)
  BY AsideShape DEF Pending, Pushes
<1>4. PendingNowhere'
  BY <1>3, AsideShape DEF GInv, PendingNowhere, Nowhere
<1>5. /\ op' \in [Threads -> [stage : Stages \cup {"none"}, key : Keys \cup {Null}, item : Nodes]]
      /\ found' \in [Threads -> SUBSET Items] /\ began' \in [Threads -> SUBSET Items]
  <2>1. CASE op' = op /\ found' = found /\ began' = began
    BY <2>1 DEF MapTypeOK
  <2>2. CASE Leave(t)
    <3>1. NoOp \in [stage : Stages \cup {"none"}, key : Keys \cup {Null}, item : Nodes]
      BY DEF NoOp
    <3> QED
      BY <2>2, <3>1 DEF Leave, MapTypeOK
  <2>3. CASE ComputeCall(t)
    <3>1. op' = [op EXCEPT ![t].stage = "func"] /\ found' = found /\ began' = began
      BY <2>3 DEF ComputeCall, Then
    <3>2. "func" \in Stages \cup {"none"}
      BY DEF Stages
    <3> QED
      BY <3>1, <3>2 DEF MapTypeOK
  <2> QED
    BY <2>1, <2>2, <2>3 DEF Aside, Answer, ComputePanic
<1>6. ASSUME NEW u \in Threads
      PROVE  /\ Shaped(op'[u]) /\ Makes(op'[u], call'[u])
             /\ op'[u].stage = "none" => pc'[u] = "idle"
  <2>1. Shaped(NoOp) /\ Makes(NoOp, call[t])
    BY AsideShape DEF Shaped, Makes
  <2>2. Shaped(op[u]) /\ Makes(op[u], call[u]) /\ (op[u].stage = "none" => pc[u] = "idle")
    BY DEF Fits, AtStage, At
  <2>3. CASE u = t /\ op'[t].stage # "func"
    BY <2>1, <2>2, <2>3, AsideShape DEF AtStage
  <2>4. CASE u # t
    BY <2>2, <2>4, AsideShape
  <2>5. CASE u = t /\ op'[t].stage = "func"
    <3>1. /\ op[t].stage \in {"seek", "func"} /\ op'[t].key = op[t].key
          /\ op'[t].item = op[t].item /\ call'[t].method = "none"
      BY <2>5, AsideShape DEF AtStage, NoOp
    <3> QED
      BY <2>2, <2>5, <3>1 DEF Shaped, Makes
  <2> QED
    BY <2>3, <2>4, <2>5
<1>7. Fits'
  BY <1>6 DEF Fits, AtStage, At
<1>8. \A u \in Threads :
        \/ op'[u] = op[u] \/ op'[u].item = Null
        \/ op'[u].item = op[u].item /\ op[u].stage = "seek"
  BY AsideShape DEF AtStage
<1>9. Held'
  BY <1>8, AsideShape DEF Held, Nowhere
<1> QED
  BY <1>1, <1>2, <1>4, <1>5, <1>7, <1>9, AsideShape DEF MInv, GInv, MapTypeOK

(* The invariant of every map holds at first and is kept.                  *)
LEMMA EmptyHolds == MapInit => MInv
<1> SUFFICES ASSUME MapInit PROVE MInv
  OBVIOUS
<1>. Null \in Nodes
  BY DEF Nodes
<1>1. Init /\ op = [t \in Threads |-> NoOp] /\ found = [t \in Threads |-> {}]
      /\ began = [t \in Threads |-> {}]
  BY DEF MapInit
<1>2. TInv /\ GInv
  BY <1>1, TypesInit, PathsInit
<1>3. NoOp \in [stage : Stages \cup {"none"}, key : Keys \cup {Null}, item : Nodes]
  BY DEF NoOp
<1>4. MapTypeOK /\ ~edited
  BY <1>1, <1>3 DEF MapTypeOK, Init
<1>5. \A t \in Threads : call[t].method = "none" /\ pc[t] = "idle"
  BY <1>1 DEF Init, NoCall
<1>6. Fits
  BY <1>1, <1>5 DEF Fits, Shaped, Makes, AtStage, At, NoOp
<1>7. Held
  BY <1>1 DEF Held, NoOp
<1> QED
  BY <1>2, <1>4, <1>6, <1>7 DEF MInv

(* The steps of a map.                                                     *)
LEMMA MapSteps ==
  ASSUME MInv, NEW t \in Threads, MapCall(t) \/ MapProceed(t)
  PROVE  ListStep(t) \/ Aside(t) \/ (Starting(t) /\ Started(t))
BY UpdateStarts, QueryStarts, StageStarts DEF MapCall, MapProceed, Starting, Aside

LEMMA MapKeeps ==
  ASSUME MInv, [MapNext]_mapVars
  PROVE  MInv'
<1>1. CASE UNCHANGED mapVars
  <2>1. UNCHANGED vars /\ op' = op /\ found' = found /\ began' = began
    BY <1>1 DEF mapVars
  <2>2. TInv' /\ GInv'
    BY <2>1, TypesStep, PathsStep DEF MInv
  <2>3. /\ inner' = inner /\ pc' = pc /\ call' = call /\ reg' = reg /\ unused' = unused
        /\ edited' = edited
    BY <2>1 DEF vars, cells
  <2> QED
    BY <2>1, <2>2, <2>3 DEF MInv, MapTypeOK, Fits, Held, AtStage, At, Nowhere
<1>2. ASSUME NEW t \in Threads, MapCall(t) \/ MapProceed(t)
      PROVE  MInv'
  BY <1>2, MapSteps, AccessKeeps, AsideKeeps, StartKeeps
<1> QED
  BY <1>1, <1>2 DEF MapNext

(* Whatever its clients call, a map call goes from list call to list call  *)
(* with a key and an entry that fit each other and the closures of its     *)
(* stage; its entry belongs to no other call, and is in no list before the *)
(* call pushes it; and what it finds are entries.                          *)
THEOREM MapTypeCorrect == MapSpec => [](MapTypeOK /\ Fits /\ Held)
<1>1. MapInit => MInv
  BY EmptyHolds
<1>2. MInv /\ [MapNext]_mapVars => MInv'
  BY MapKeeps
<1>3. MInv => MapTypeOK /\ Fits /\ Held
  BY DEF MInv
<1> QED
  BY <1>1, <1>2, <1>3, PTL DEF MapSpec

-----------------------------------------------------------------------------
(* One thread that updates the map.                                        *)

(* The others read.                                                        *)
OnlyReads(w) == \A t \in Threads \ {w} : op[t].stage \in {"none", "get", "contains"}

(* The invariant of these clients: the list is used as by one writer.      *)
UInv(w) == MInv /\ AInv /\ enforce /\ OnlyReads(w)

LEMMA MapApart ==
  ASSUME MInv, NEW w \in Threads, OnlyReads(w)
  PROVE  /\ BInv
         /\ \A t \in Threads \ {w} : call[t].method \in {"none", "find"}
<1>1. ASSUME NEW t \in Threads \ {w}
      PROVE  call[t].method \in {"none", "find"}
  <2>1. Makes(op[t], call[t]) /\ op[t].stage \in {"none", "get", "contains"}
    BY DEF MInv, Fits, OnlyReads
  <2> QED
    BY <2>1 DEF Makes
<1>2. Apart
  BY <1>1 DEF Apart, Writes
<1> QED
  BY <1>1, <1>2, MapAssumption DEF BInv, MInv

(* Who but w starts a call starts one that reads.                          *)
LEMMA OthersRead ==
  ASSUME MInv, NEW w \in Threads, SoleWriter(w), OnlyReads(w),
         NEW t \in Threads \ {w}, Starting(t)
  PROVE  op'[t].stage \in {"get", "contains"}
<1>. ItemsOf[t] = {} /\ "remove" \notin MapOpsOf[t]
  BY DEF SoleWriter
<1>1. ~InsertPut(t) /\ ~ComputeFill(t) /\ ~ComputeAgain(t)
  BY DEF OnlyReads, InsertPut, ComputeFill, ComputeAgain, Then, AtStage
<1>2. \A i \in Items : ~MapInsert(t, i) /\ ~ComputeIfAbsent(t, i)
  BY DEF MapInsert, ComputeIfAbsent, Update
<1> QED
  BY <1>1, <1>2, QueryStarts DEF Starting, MapCall

(* The invariant is kept.                                                  *)
LEMMA AsideSees ==
  ASSUME MInv, AInv, NEW t \in Threads, Aside(t)
  PROVE  AInv'
<1>1. /\ inner' = inner /\ call' = call /\ reg' = reg /\ enforce' = enforce
      /\ rank' = rank /\ edited' = edited
      /\ call[t].method = "none" /\ pc'[t] \in {"idle", "panicked"} /\ pc[t] = "idle"
      /\ \A u \in Threads \ {t} : pc'[u] = pc[u] /\ kept'[u] = kept[u]
  BY AsideShape
<1>2. Listing' = Listing
  BY <1>1 DEF Listing
<1>3. \A u \in Threads : pc'[u] = pc[u] \/ (u = t /\ pc'[u] \in {"idle", "panicked"})
  BY <1>1
<1>4. Fresh'
  BY <1>1, <1>3 DEF AInv, Fresh, Doing, At, cur
<1>5. Copies'
  BY <1>1, <1>3 DEF AInv, Copies, Copying, Doing, At, cur
<1>6. Shape'
  BY <1>1, <1>2 DEF AInv, Shape
<1>7. \A u \in Threads : Busy(u)' => Busy(u) /\ u # t
  BY <1>1, <1>3 DEF Busy, At, cur
<1>8. Found'
  BY <1>1, <1>2, <1>7 DEF AInv, Found, Linked, TakesNode, At, cur
<1>9. OrderKnown'
  BY <1>1, <1>7 DEF AInv, OrderKnown, Below, Doing, At, cur
<1>10. LinksAscend'
  BY <1>1 DEF AInv, LinksAscend
<1>11. ReaderSees'
  BY <1>1 DEF AInv, ReaderSees, Reading, Sees, Doing, cur
<1>12. Ranked'
  BY <1>1, <1>3 DEF AInv, Ranked, Carrying, Doing, At
<1> QED
  BY <1>4, <1>5, <1>6, <1>8, <1>9, <1>10, <1>11, <1>12 DEF AInv

LEMMA UpdaterKeeps ==
  ASSUME NEW w \in Threads, SoleWriter(w), UInv(w), [MapNext]_mapVars
  PROVE  UInv(w)'
<1>. MInv /\ AInv /\ enforce /\ OnlyReads(w) /\ TInv /\ GInv
  BY DEF UInv, MInv
<1>1. MInv'
  BY MapKeeps
<1>2. CASE UNCHANGED mapVars
  <2>1. /\ inner' = inner /\ pc' = pc /\ call' = call /\ reg' = reg /\ enforce' = enforce
        /\ kept' = kept /\ op' = op /\ rank' = rank /\ edited' = edited
    BY <1>2 DEF mapVars, vars, cells
  <2> QED
    BY <1>1, <2>1 DEF UInv, OnlyReads, AInv, Fresh, Copies, Copying, Shape, Found, OrderKnown,
        Ranked, Carrying, Below, LinksAscend, ReaderSees, Reading, Sees, Busy, Linked, TakesNode, Listing,
        Doing, At, cur
<1>3. ASSUME NEW t \in Threads, MapCall(t) \/ MapProceed(t)
      PROVE  AInv' /\ enforce' = enforce /\ OnlyReads(w)'
  <2>1. CASE ListStep(t)
    <3>1. Proceed(t) /\ op' = op
      BY <2>1 DEF ListStep
    <3> QED
      BY <3>1, MapApart, ProceedSees, KeptNarrows DEF OnlyReads
  <2>2. CASE Aside(t)
    <3>1. AInv' /\ enforce' = enforce
      BY <2>2, AsideSees, AsideShape
    <3>2. \A u \in Threads : op'[u] = op[u] \/ op'[u] = NoOp \/ op[u].stage = "seek"
      BY <2>2, AsideShape DEF AtStage
    <3>3. OnlyReads(w)'
      BY <3>2 DEF OnlyReads, NoOp
    <3> QED
      BY <3>1, <3>3
  <2>3. CASE Starting(t) /\ Started(t)
    <3>1. AInv' /\ enforce' = enforce
      BY <2>3, StartSees, StartShape DEF Started
    <3>2. \A u \in Threads \ {t} : op'[u] = op[u]
      BY <2>3 DEF Started, MInv, MapTypeOK
    <3> QED
      BY <2>3, <3>1, <3>2, OthersRead DEF OnlyReads
  <2> QED
    BY <1>3, <2>1, <2>2, <2>3, MapSteps
<1> QED
  BY <1>1, <1>2, <1>3 DEF UInv, MapNext

LEMMA UpdaterStarts ==
  ASSUME NEW w \in Threads, SoleWriter(w), MapInit
  PROVE  UInv(w)
<1>1. MInv /\ Init /\ enforce /\ \A t \in Threads : op[t] = NoOp
  BY EmptyHolds DEF MapInit
<1>2. AInv
  BY <1>1, ClientsInit DEF CInv
<1> QED
  BY <1>1, <1>2 DEF UInv, OnlyReads, NoOp

-----------------------------------------------------------------------------
(* The refinement.                                                         *)

(* What an access does to the entries that a removal has taken.            *)
LEMMA TakenKept ==
  ASSUME TInv, OnPath, NEW t \in Threads, Proceed(t), Doing(t, "remove_count")
  PROVE  \/ RemoveStore(t)
         \/ call'[t].method = "remove_count" /\ reg'[t].got = reg[t].got
         \/ call'[t] = NoCall /\ At(t, "unlock")
<1>. /\ pc \in [Threads -> Places] /\ call \in [Threads -> Calls]
     /\ reg \in [Threads -> Regs]
  BY DEF TInv, TypeOK
<1>. call[t].method = "remove_count"
  BY DEF Doing
<1>. pc[t] \notin {"decideWait", "decide", "setLock", "setImm", "setStore", "setFreeImm",
                   "setFreeMut", "mutWait", "mutTest", "mutLock", "mutLoad", "mutDrop",
                   "noneq", "reload", "popCount", "pushCount"}
  BY MethodAt
<1> USE DEF Goto, Step, At, Doing
<1>1. CASE WaitImm(t) \/ Lock(t) \/ SetLock(t) \/ SetImm(t) \/ SetFreeImm(t)
           \/ SetFreeMut(t) \/ PopCount(t) \/ MutLock(t)
  BY <1>1 DEF WaitImm, Lock, SetLock, SetImm, SetFreeImm, SetFreeMut,
      PopCount, MutLock, Tests
<1>2. CASE PushStore(t) \/ SetStore(t) \/ PopStore(t)
  BY <1>2 DEF PushStore, SetStore, PopStore, Pushes
<1>3. CASE Decide(t) \/ RemoveCount(t)
  BY <1>3 DEF Decide, RemoveCount, Calls
<1>4. CASE LoadNext(t) \/ Reload(t) \/ MutLoad(t) \/ Move(t) \/ FindNext(t)
           \/ MutDrop(t)
  BY <1>4 DEF LoadNext, Reload, MutLoad, Move, FindNext, MutDrop, Regs
<1>5. CASE RemoveStore(t)
  BY <1>5
<1>6. CASE GetTest(t) \/ GetNull(t) \/ GetPanic(t)
  BY <1>6 DEF GetTest, GetNull, GetPanic, NodeGone, Panic
<1>7. CASE PushSkip(t) \/ PushCompare(t) \/ PushFind(t) \/ PopFind(t) \/ RemoveFind(t) \/
           MutFind(t)
  BY <1>7 DEF PushSkip, PushCompare, PushFind, PopFind, RemoveFind, MutFind, Got, Regs
<1>8. CASE Test(t) \/ PushCount(t) \/ Unlock(t) \/ FindHit(t)
  BY <1>8 DEF Test, PushCount, Unlock, FindHit, Return, AtEnd, AtNode,
      Pushes
<1> QED
  BY <1>1, <1>2, <1>3, <1>4, <1>5, <1>6, <1>7, <1>8 DEF Proceed

LEMMA HoldsKept ==
  ASSUME MInv, NEW t \in Threads, ListStep(t), ~RemoveStore(t)
  PROVE  \A u \in Threads : Holds(u)' = Holds(u)
<1>. TInv /\ TypeOK /\ OnPath /\ MapTypeOK
  BY DEF MInv, GInv, TInv
<1>. /\ Proceed(t) /\ op' = op
     /\ found' = [found EXCEPT ![t] = Outcome(t)]
  BY DEF ListStep
<1>1. ASSUME NEW u \in Threads \ {t}
      PROVE  Holds(u)' = Holds(u)
  <2>1. call'[u] = call[u] /\ reg'[u] = reg[u] /\ found'[u] = found[u]
    BY Elsewhere DEF MapTypeOK
  <2> QED
    BY <2>1 DEF Holds, Doing
<1>2. Makes(op[t], call[t]) /\ call[t].method # "none" /\ found'[t] = Outcome(t)
  BY CallGoesOn DEF MInv, Fits, MapTypeOK
<1>3. Holds(t)' = Holds(t)
  <2>1. CASE Doing(t, "remove_count")
    <3>1. op[t].stage \in {"evict", "remove"} /\ Holds(t) = reg[t].got
      BY <1>2, <2>1 DEF Makes, Doing, Holds
    <3>2. CASE call'[t].method = "remove_count" /\ reg'[t].got = reg[t].got
      BY <3>1, <3>2 DEF Holds, Doing
    <3>3. CASE call'[t] = NoCall /\ At(t, "unlock")
      <4>1. found'[t] = reg[t].got /\ call'[t].method # "remove_count"
        BY <1>2, <2>1, <3>3 DEF Outcome, NoCall, At
      <4> QED
        BY <3>1, <4>1 DEF Holds, Doing
    <3> QED
      BY <2>1, <3>2, <3>3, TakenKept
  <2>2. CASE call[t].method \in {"pushHead", "pushOrdered", "pushSkipped"}
    <3>1. op[t].stage \in {"put", "fill"} /\ found'[t] = found[t]
      BY <1>2, <2>2 DEF Makes, Outcome, Doing
    <3>2. call'[t].method # "remove_count"
      BY <2>2, CallGoesOn DEF NoCall
    <3> QED
      BY <2>2, <3>1, <3>2 DEF Holds, Doing
  <2>3. CASE call[t].method = "find"
    <3>1. op[t].stage \in {"get", "contains", "seek", "again"}
      BY <1>2, <2>3 DEF Makes
    <3>2. call'[t].method # "remove_count"
      BY <2>3, CallGoesOn DEF NoCall
    <3> QED
      BY <2>3, <3>1, <3>2 DEF Holds, Doing
  <2> QED
    BY <1>2, <2>1, <2>2, <2>3 DEF Makes, Doing
<1> QED
  BY <1>1, <1>3

(* The hashes of the entries in the list differ from that of the one that  *)
(* is pushed.                                                              *)
LEMMA PushFits ==
  ASSUME MInv, AInv, enforce, NEW t \in Threads, Inserts(t)
  PROVE  /\ call[t].item \in Items /\ call[t].item \notin Listed
         /\ Listed' = Listed \cup {call[t].item}
         /\ \A j \in Listed : Key[j] # Key[call[t].item]
<1>. TInv /\ GInv
  BY DEF MInv
<1>1. call[t].item \in Items /\ Busy(t)
  BY DEF Inserts
<1>2. Linked(cur(t)) /\ Shape
  BY <1>1 DEF AInv, Found
<1>3. /\ ToSet(Listing') = ToSet(Listing) \cup {call[t].item}
      /\ call[t].item \notin ToSet(Listing)
  BY <1>2, Inserted
<1>4. Abstract!Push(call[t].item)
  BY PushTakesEffect
<1>5. \A j \in ToSet(Listing) : Key[j] # Key[call[t].item]
  BY <1>4, SameOperators, MapAssumption DEF Abstract!Push, MInv
<1> QED
  BY <1>1, <1>3, <1>5 DEF Listed

(* What a removal takes was in the list, and is no longer.                 *)
LEMMA TakeFits ==
  ASSUME MInv, AInv, NEW t \in Threads, Removes(t)
  PROVE  /\ inner[cur(t)] \in Listed /\ reg[t].node = inner[cur(t)]
         /\ Listed' = Listed \ {inner[cur(t)]}
<1>. TInv
  BY DEF MInv
<1>1. Busy(t) /\ inner[cur(t)] \in Items /\ reg[t].node = inner[cur(t)]
  BY DEF Removes
<1>2. Linked(cur(t)) /\ Shape
  BY <1>1 DEF AInv, Found
<1>3. /\ inner[cur(t)] \in ToSet(Listing)
      /\ ToSet(Listing') = ToSet(Listing) \ {inner[cur(t)]}
  BY <1>2, Removed
<1> QED
  BY <1>1, <1>3 DEF Listed

(* An access is a step of the abstract map or nothing that clients see.    *)
LEMMA AccessRefines ==
  ASSUME NEW w \in Threads, UInv(w), NEW t \in Threads, ListStep(t)
  PROVE  [MapView!Next]_(MapView!vars)
<1>. MInv /\ AInv /\ enforce /\ TInv /\ TypeOK /\ GInv /\ MapTypeOK
  BY DEF UInv, MInv, TInv
<1>. Proceed(t) /\ op' = op /\ found' = [found EXCEPT ![t] = Outcome(t)]
  BY DEF ListStep
<1>1. CASE PushStore(t) \/ SetStore(t)
  <2>1. Inserts(t)
    BY <1>1, StoreEffect DEF AInv
  <2>2. ~RemoveStore(t)
    BY <1>1 DEF RemoveStore, PushStore, SetStore, Step, At, Doing, Pushes
  <2>3. MapView!Put(call[t].item)
    BY <2>1, <2>2, PushFits, HoldsKept DEF MapView!Put
  <2> QED
    BY <2>1, <2>3 DEF MapView!Next, Inserts
<1>2. CASE RemoveStore(t)
  <2>1. Removes(t)
    BY <1>2, StoreEffect DEF AInv
  <2>2. PICK i \in Items : i = reg[t].node /\ i \in Listed /\ Listed' = Listed \ {i}
    BY <2>1, TakeFits DEF Listed
  <2>3. call' = call /\ Doing(t, "remove_count") /\ reg'[t].got = reg[t].got \cup {i}
    BY <1>2, <2>2 DEF RemoveStore, TypeOK
  <2>4. Holds(t)' = Holds(t) \cup {i}
    BY <2>3 DEF Holds, Doing
  <2>5. ASSUME NEW u \in Threads \ {t}
        PROVE  Holds(u)' = Holds(u)
    <3>1. call'[u] = call[u] /\ reg'[u] = reg[u] /\ found'[u] = found[u]
      BY Elsewhere DEF MapTypeOK
    <3> QED
      BY <3>1 DEF Holds, Doing
  <2>6. MapView!Take(t, i)
    BY <2>2, <2>4, <2>5 DEF MapView!Take
  <2> QED
    BY <2>6 DEF MapView!Next
<1>3. CASE ~(PushStore(t) \/ SetStore(t) \/ RemoveStore(t))
  <2>1. ~PopStore(t)
    <3>1. call[t].method # "pop"
      BY DEF MInv, Fits, Makes
    <3> QED
      BY <3>1 DEF PopStore, Doing
  <2>2. inner' = inner
    BY <1>3, <2>1, StoreEffect DEF AInv, Inserts, Removes
  <2>3. Listed' = Listed
    BY <2>2 DEF Listed, Listing
  <2>4. UNCHANGED MapView!vars
    BY <1>3, <2>3, HoldsKept DEF MapView!vars
  <2> QED
    BY <2>4
<1> QED
  BY <1>1, <1>2, <1>3

(* No start changes what clients see, and an answer ends what it took.     *)
LEMMA StartRefines ==
  ASSUME NEW w \in Threads, UInv(w), NEW t \in Threads, Starting(t), Started(t)
  PROVE  UNCHANGED MapView!vars
<1>. MInv /\ TInv /\ TypeOK /\ GInv /\ OnPath /\ MapTypeOK /\ Fresh
  BY DEF UInv, MInv, TInv, GInv, AInv
<1>1. /\ inner' = inner /\ reg' = reg /\ found' = found /\ At(t, "idle")
      /\ \A u \in Threads \ {t} : call'[u] = call[u] /\ op'[u] = op[u]
  BY StartShape DEF Started, MapTypeOK, At
<1>2. Listed' = Listed
  BY <1>1 DEF Listed, Listing
<1>3. \A u \in Threads \ {t} : Holds(u)' = Holds(u)
  BY <1>1 DEF Holds, Doing
<1>4. call[t].method = "none" /\ reg[t].got = {}
  BY <1>1, MethodAt DEF Fresh, At, NoReg
<1>5. Makes(op'[t], call'[t])
  BY DEF Started
<1>6. \/ op[t] = NoOp
      \/ op[t].stage = "evict" /\ op'[t].stage = "put"
      \/ op[t].stage = "func" /\ op'[t].stage = "fill"
      \/ op[t].stage = "fill" /\ op'[t].stage = "again"
  <2>. op[t] \in [stage : Stages \cup {"none"}, key : Keys \cup {Null}, item : Nodes]
    BY DEF MapTypeOK
  <2> QED
    BY UpdateStarts, QueryStarts, StageStarts DEF Starting, MapCall, AtStage
<1>7. Holds(t)' = Holds(t)
  <2>1. CASE op[t] = NoOp
    <3>1. Holds(t) = {}
      BY <1>4, <2>1 DEF Holds, Doing, NoOp
    <3>2. \/ call'[t].method = "remove_count"
          \/ op'[t].stage \in {"get", "contains", "seek"}
      <4>1. op'[t].stage \in {"evict", "seek", "get", "contains", "remove"}
        <5>1. ~InsertPut(t) /\ ~ComputeFill(t) /\ ~ComputeAgain(t)
          BY <2>1 DEF InsertPut, ComputeFill, ComputeAgain, Then, AtStage, NoOp
        <5> QED
          BY <5>1, UpdateStarts, QueryStarts DEF Starting, MapCall
      <4>2. call'[t].method # "none"
        BY StartShape DEF Started, Entry
      <4> QED
        BY <1>5, <4>1, <4>2 DEF Makes
    <3>3. Holds(t)' = {}
      BY <1>1, <1>4, <3>2 DEF Holds, Doing
    <3> QED
      BY <3>1, <3>3
  <2>2. CASE op[t].stage = "evict" /\ op'[t].stage = "put"
    <3>1. call'[t].method # "remove_count"
      BY <1>5, <2>2 DEF Makes
    <3> QED
      BY <1>1, <1>4, <2>2, <3>1 DEF Holds, Doing
  <2>3. CASE op[t].stage \in {"func", "fill"} /\ op'[t].stage \in {"fill", "again"}
    <3>1. call'[t].method # "remove_count"
      BY <1>5, <2>3 DEF Makes
    <3> QED
      BY <1>1, <1>4, <2>3, <3>1 DEF Holds, Doing
  <2> QED
    BY <1>6, <2>1, <2>2, <2>3
<1> QED
  BY <1>2, <1>3, <1>7 DEF MapView!vars

LEMMA AsideRefines ==
  ASSUME MInv, NEW t \in Threads, Aside(t)
  PROVE  [MapView!Next]_(MapView!vars)
<1>1. /\ inner' = inner /\ call' = call /\ reg' = reg /\ call[t].method = "none"
      /\ \A u \in Threads \ {t} : op'[u] = op[u] /\ found'[u] = found[u]
      /\ \/ /\ found' = found
            /\ op' = op \/ (AtStage(t, "seek") /\ op'[t].stage = "func")
         \/ op'[t] = NoOp
  BY AsideShape
<1>2. Listed' = Listed
  BY <1>1 DEF Listed, Listing
<1>3. \A u \in Threads \ {t} : Holds(u)' = Holds(u)
  BY <1>1 DEF Holds, Doing
<1>4. CASE found' = found /\ (op' = op \/ (AtStage(t, "seek") /\ op'[t].stage = "func"))
  <2>1. Holds(t)' = Holds(t)
    BY <1>1, <1>4 DEF Holds, Doing, AtStage
  <2>2. UNCHANGED MapView!vars
    BY <1>2, <1>3, <2>1 DEF MapView!vars
  <2> QED
    BY <2>2
<1>5. CASE op'[t] = NoOp
  <2>1. Holds(t)' = {}
    BY <1>1, <1>5 DEF Holds, Doing, NoOp
  <2>2. MapView!Return(t)
    BY <1>2, <1>3, <2>1 DEF MapView!Return
  <2> QED
    BY <2>2 DEF MapView!Next
<1> QED
  BY <1>1, <1>4, <1>5

(* A map that one thread updates beside any number of readers has at most  *)
(* one entry for each hash, and no entry is taken that is not there:       *)
(* though insert evicts and pushes in two list calls, and the push looks   *)
(* for an equal entry without the locks of what it has passed.             *)
THEOREM MapRefinement ==
  ASSUME NEW w \in Threads, SoleWriter(w)
  PROVE  MapSpec => ImplementsAbstractMap
<1>1. MapInit => UInv(w)
  BY UpdaterStarts
<1>2. UInv(w) /\ [MapNext]_mapVars => UInv(w)'
  BY UpdaterKeeps
<1>3. MapInit => MapView!Init
  <2> SUFFICES ASSUME MapInit PROVE MapView!Init
    OBVIOUS
  <2>1. Init /\ \A t \in Threads : op[t] = NoOp
    BY DEF MapInit
  <2>2. Path(inner, head, Listing) /\ inner[head] = Null
    BY <2>1, ClientsInit DEF CInv, AInv, Shape, Init, CellsInit, Cells
  <2>3. Listing \in Seq(Items) /\ Len(Listing) = 0
    BY <2>2, PathFacts, ListAssumption
  <2>4. Listed = {}
    BY <2>2, <2>3, PathFacts DEF Listed
  <2>5. \A t \in Threads : Holds(t) = {}
    BY <2>1 DEF Holds, Doing, Init, NoCall, NoOp
  <2> QED
    BY <2>4, <2>5 DEF MapView!Init
<1>4. UInv(w) /\ [MapNext]_mapVars => [MapView!Next]_(MapView!vars)
  <2> SUFFICES ASSUME UInv(w), [MapNext]_mapVars PROVE [MapView!Next]_(MapView!vars)
    OBVIOUS
  <2>1. CASE UNCHANGED mapVars
    BY <2>1 DEF mapVars, vars, cells, MapView!vars, Listed, Listing, Holds, Doing
  <2>2. ASSUME NEW t \in Threads, MapCall(t) \/ MapProceed(t)
        PROVE  [MapView!Next]_(MapView!vars)
    <3>1. MInv
      BY DEF UInv
    <3> QED
      BY <2>2, <3>1, MapSteps, AccessRefines, StartRefines, AsideRefines
  <2> QED
    BY <2>1, <2>2 DEF MapNext
<1> QED
  BY <1>1, <1>2, <1>3, <1>4, PTL DEF MapSpec, ImplementsAbstractMap, MapView!Spec

-----------------------------------------------------------------------------
(* What finds answer.                                                      *)

(* The steps of a find: it hits, it comes to the end, it panics or it goes *)
(* on from a cell that it has tested.                                      *)
LEMMA FindSteps ==
  ASSUME TInv, OnPath, NEW t \in Threads, Proceed(t), Doing(t, "find")
  PROVE  /\ inner' = inner /\ kept' = kept
         /\ \/ /\ At(t, "getLoad") /\ Matches(t) /\ Node(t) \in Items
               /\ call'[t] = NoCall /\ pc'[t] = "idle"
            \/ /\ At(t, "test") /\ inner[cur(t)] = Null
               /\ call'[t] = NoCall /\ pc'[t] = "idle"
            \/ /\ ~(At(t, "getLoad") /\ Matches(t)) /\ call'[t] = call[t] /\ pc'[t] = "panicked"
               /\ pc[t] \in {"getTest", "getLoad"} /\ inner[cur(t)] = Null
            \/ /\ ~(At(t, "getLoad") /\ Matches(t)) /\ call'[t] = call[t]
               /\ pc'[t] \in {"testWait", "test", "getWait", "getTest", "getLoad"}
               /\ \/ /\ reg'[t] = reg[t]
                     /\ pc'[t] \in {"getWait", "getTest", "getLoad"} =>
                          inner[cur(t)] # Null \/ pc[t] \in {"getWait", "getTest"}
                  \/ /\ reg'[t].cur = inner[cur(t)] /\ inner[cur(t)] # Null
                     /\ pc'[t] = "testWait" /\ pc[t] = "getLoad"
<1>. /\ pc \in [Threads -> Places] /\ call \in [Threads -> Calls]
     /\ reg \in [Threads -> Regs]
  BY DEF TInv, TypeOK
<1>. call[t].method = "find"
  BY DEF Doing
<1>. pc[t] \in {"testWait", "test", "getWait", "getTest", "getLoad", "panicked"}
  BY DEF OnPath, Doing
<1>1. Matches(t) => Node(t) \in Items
  BY ListAssumption DEF Matches, Calls
<1> USE DEF Goto, Step, At, Doing, Node, Matches
<1>2. CASE Lock(t) \/ SetLock(t) \/ SetImm(t) \/ SetFreeImm(t) \/
           SetFreeMut(t) \/ PopCount(t) \/ MutLock(t) \/ Decide(t) \/
           RemoveCount(t)
  BY <1>2 DEF Lock, SetLock, SetImm, SetFreeImm, SetFreeMut, PopCount,
      MutLock, Decide, RemoveCount
<1>3. CASE WaitImm(t)
  BY <1>3 DEF WaitImm, Tests, cells
<1>4. CASE PushStore(t) \/ SetStore(t) \/ PopStore(t)
  BY <1>4 DEF PushStore, SetStore, PopStore, Pushes
<1>5. CASE LoadNext(t) \/ Reload(t) \/ MutLoad(t) \/ Move(t) \/
           RemoveStore(t) \/ MutDrop(t)
  BY <1>5 DEF LoadNext, Reload, MutLoad, Move, RemoveStore, MutDrop
<1>6. CASE FindNext(t)
  BY <1>1, <1>6 DEF FindNext, cells
<1>7. CASE GetTest(t) \/ GetNull(t) \/ GetPanic(t)
  BY <1>1, <1>7, ListAssumption DEF GetTest, GetNull, GetPanic, NodeGone, Panic, IsNull, Node, cells
<1>8. CASE PushSkip(t) \/ PushCompare(t) \/ PushFind(t) \/ PopFind(t) \/ RemoveFind(t) \/
           MutFind(t)
  BY <1>8 DEF PushSkip, PushCompare, PushFind, PopFind, RemoveFind, MutFind, Got
<1>9. CASE Test(t)
  BY <1>9 DEF Test, Return, AtEnd, AtNode, Pushes, IsNull, cells
<1>10. CASE FindHit(t)
  BY <1>1, <1>10 DEF FindHit, Return, cells
<1>11. CASE PushCount(t) \/ Unlock(t)
  BY <1>11 DEF PushCount, Unlock
<1> QED
  BY <1>1, <1>2, <1>3, <1>4, <1>5, <1>6, <1>7, <1>8, <1>9, <1>10, <1>11 DEF
     Proceed

(* A get or contains is on a path to what it must not miss and to nothing  *)
(* that had left the map when it began, and what had left does not come    *)
(* back: it is not among the entries that are still to be inserted.        *)
Gone(t) ==
  began[t] \cap unused = {} /\ \A u \in Threads : op[u].item \notin began[t]
Seeks(t) ==
  Reading(t) => /\ found[t] = {}
                /\ \E s \in Seq(Items) : Sees(t, s) /\ ToSet(s) \cap began[t] = {}
Answered(t) ==
  At(t, "idle") => /\ found[t] \subseteq Wanted(t) \ began[t]
                   /\ found[t] = {} => kept[t] \cap Wanted(t) = {}
Queries(t) ==
  /\ AtStage(t, "none") => found[t] = {}
  /\ op[t].stage \in {"get", "contains"} => Gone(t) /\ Seeks(t) /\ Answered(t)
QInv == \A t \in Threads : Queries(t)

(* The accesses of the others.                                             *)
LEMMA QueriesBeside ==
  ASSUME NEW w \in Threads, UInv(w), QInv, NEW t \in Threads, ListStep(t),
         NEW u \in Threads \ {t}
  PROVE  Queries(u)'
<1>. MInv /\ AInv /\ TInv /\ TypeOK /\ GInv /\ OnPath /\ MapTypeOK /\ BInv
  BY MapApart DEF UInv, MInv, TInv, GInv
<1>1. /\ Proceed(t) /\ op' = op /\ began' = began /\ found'[u] = found[u]
      /\ unused' = unused
  BY PendingKept DEF ListStep, MapTypeOK
<1>2. pc'[u] = pc[u] /\ call'[u] = call[u] /\ reg'[u] = reg[u]
  BY <1>1, Elsewhere
<1>3. SUFFICES ASSUME op[u].stage \in {"get", "contains"}, Gone(u), Seeks(u), Answered(u)
               PROVE  Gone(u)' /\ Seeks(u)' /\ Answered(u)'
  BY <1>1 DEF QInv, Queries, AtStage
<1>4. Gone(u)'
  BY <1>1, <1>3 DEF Gone
<1>5. Seeks(u)'
  <2> SUFFICES ASSUME Reading(u)'
               PROVE  /\ found'[u] = {}
                      /\ \E s \in Seq(Items) : Sees(u, s)' /\ ToSet(s) \cap began'[u] = {}
    BY DEF Seeks
  <2>1. Reading(u)
    BY <1>2 DEF Reading, Doing
  <2>2. PICK s \in Seq(Items) : Sees(u, s) /\ ToSet(s) \cap began[u] = {}
    BY <1>3, <2>1 DEF Seeks
  <2>3. PICK r \in Seq(Items) :
          /\ Path(inner', cur(u), r) /\ kept'[u] \cap call[u].want \subseteq ToSet(r)
          /\ \A i \in ToSet(r) : i \in ToSet(s) \/ (Inserts(t) /\ i = call[t].item)
    BY <1>1, <2>1, <2>2, OthersSee
  <2>4. Inserts(t) => call[t].item \notin began[u]
    <3> SUFFICES ASSUME Inserts(t) PROVE call[t].item \notin began[u]
      OBVIOUS
    <3>1. call[t].method \in Pushes
      BY DEF Inserts, Pending
    <3>2. call[t].item = op[t].item
      BY <3>1 DEF MInv, Fits, Makes, Pushes
    <3> QED
      BY <1>3, <3>2 DEF Gone
  <2>5. ToSet(r) \cap began[u] = {}
    BY <2>2, <2>3, <2>4
  <2>6. Sees(u, r)'
    BY <1>2, <2>3 DEF Sees, cur
  <2> QED
    BY <1>1, <1>3, <2>1, <2>5, <2>6 DEF Seeks
<1>6. Answered(u)'
  <2>1. kept'[u] \subseteq kept[u]
    BY <1>1, KeptNarrows DEF Narrow
  <2> QED
    BY <1>1, <1>2, <1>3, <2>1 DEF Answered, Wanted, AtStage, At, key
<1> QED
  BY <1>4, <1>5, <1>6

(* ... and its own.                                                        *)
LEMMA QueriesOn ==
  ASSUME MInv, AInv, QInv, NEW t \in Threads, ListStep(t)
  PROVE  Queries(t)'
<1>. TInv /\ TypeOK /\ GInv /\ OnPath /\ MapTypeOK
  BY DEF MInv, TInv, GInv
<1>1. /\ Proceed(t) /\ op' = op /\ began' = began /\ found'[t] = Outcome(t)
      /\ unused' = unused
  BY PendingKept DEF ListStep, MapTypeOK
<1>2. Makes(op[t], call[t]) /\ call[t].method # "none" /\ op[t].stage # "none"
  BY <1>1, CallGoesOn DEF MInv, Fits, AtStage, At
<1>3. SUFFICES ASSUME op[t].stage \in {"get", "contains"}, Gone(t), Seeks(t)
               PROVE  Gone(t)' /\ Seeks(t)' /\ Answered(t)'
  BY <1>1, <1>2 DEF QInv, Queries, AtStage
<1>4. call[t].method = "find" /\ call[t].want = Wanted(t) /\ Wanted(t)' = Wanted(t)
  BY <1>1, <1>2, <1>3 DEF Makes, Wanted, AtStage, key
<1>5. Reading(t)
  BY <1>1, <1>4, CallGoesOn DEF Reading, Doing, OnPath
<1>6. PICK s \in Seq(Items) : Sees(t, s) /\ ToSet(s) \cap began[t] = {}
  BY <1>3, <1>5 DEF Seeks
<1>7. found[t] = {}
  BY <1>3, <1>5 DEF Seeks
<1>8. Gone(t)'
  BY <1>1, <1>3 DEF Gone
<1>9. inner' = inner /\ kept' = kept
  BY <1>1, <1>4, FindSteps DEF Doing
<1>10. Path(inner, cur(t), s) /\ kept[t] \cap Wanted(t) \subseteq ToSet(s)
  BY <1>4, <1>6 DEF Sees
<1>11. CASE /\ At(t, "getLoad") /\ Matches(t) /\ Node(t) \in Items
            /\ call'[t] = NoCall /\ pc'[t] = "idle"
  <2>1. found'[t] = {Node(t)}
    BY <1>1, <1>4, <1>11 DEF Outcome, Doing, At
  <2>2. Node(t) \in Wanted(t)
    BY <1>4, <1>11 DEF Matches
  <2>3. inner[cur(t)] # Null
    BY <1>11, ListAssumption DEF Node
  <2>4. Node(t) \in ToSet(s)
    BY <1>10, <2>3, PathRest DEF Node
  <2>5. Answered(t)'
    BY <1>1, <1>4, <1>6, <2>1, <2>2, <2>4 DEF Answered
  <2>6. Seeks(t)'
    BY <1>11 DEF Seeks, Reading, Doing, NoCall
  <2> QED
    BY <1>8, <2>5, <2>6
<1>12. CASE At(t, "test") /\ inner[cur(t)] = Null /\ call'[t] = NoCall /\ pc'[t] = "idle"
  <2>1. found'[t] = {}
    BY <1>1, <1>7, <1>12 DEF Outcome, At
  <2>2. ToSet(s) = {}
    BY <1>10, <1>12, PathFacts, ListAssumption
  <2>3. Answered(t)'
    BY <1>4, <1>9, <1>10, <2>1, <2>2 DEF Answered
  <2>4. Seeks(t)'
    BY <1>12 DEF Seeks, Reading, Doing, NoCall
  <2> QED
    BY <1>8, <2>3, <2>4
<1>13. CASE pc'[t] = "panicked"
  BY <1>8, <1>13 DEF Answered, Seeks, Reading, At
<1>14. CASE /\ ~(At(t, "getLoad") /\ Matches(t)) /\ call'[t] = call[t]
            /\ pc'[t] \in {"testWait", "test", "getWait", "getTest", "getLoad"}
            /\ \/ reg'[t] = reg[t]
               \/ /\ reg'[t].cur = inner[cur(t)] /\ inner[cur(t)] # Null
                  /\ pc[t] = "getLoad"
  <2>1. found'[t] = {}
    BY <1>1, <1>4, <1>7, <1>14 DEF Outcome, Doing
  <2>2. \E r \in Seq(Items) :
          /\ Path(inner, reg'[t].cur, r) /\ kept[t] \cap Wanted(t) \subseteq ToSet(r)
          /\ ToSet(r) \cap began[t] = {}
    <3>1. CASE reg'[t] = reg[t]
      BY <1>6, <1>10, <3>1 DEF cur
    <3>2. CASE /\ reg'[t].cur = inner[cur(t)] /\ inner[cur(t)] # Null
               /\ pc[t] = "getLoad"
      <4>1. Path(inner, inner[cur(t)], Tail(s)) /\ ToSet(s) = {inner[cur(t)]} \cup ToSet(Tail(s))
        BY <1>10, <3>2, PathRest
      <4>2. inner[cur(t)] \notin Wanted(t)
        BY <1>4, <1>14, <3>2 DEF Matches, Node, At
      <4>3. Tail(s) \in Seq(Items)
        BY <4>1, PathFacts
      <4> QED
        BY <1>6, <1>10, <3>2, <4>1, <4>2, <4>3
    <3> QED
      BY <1>14, <3>1, <3>2
  <2>3. Seeks(t)'
    BY <1>1, <1>4, <1>9, <1>14, <2>1, <2>2 DEF Seeks, Sees, cur
  <2>4. Answered(t)'
    BY <1>14 DEF Answered, At
  <2> QED
    BY <1>8, <2>3, <2>4
<1> QED
  BY <1>1, <1>4, <1>11, <1>12, <1>13, <1>14, FindSteps DEF Doing

(* A call that starts.                                                     *)
LEMMA QueriesStart ==
  ASSUME MInv, AInv, QInv, NEW t \in Threads, Starting(t), Started(t), NEW u \in Threads
  PROVE  Queries(u)'
<1>. TInv /\ TypeOK /\ GInv /\ OnPath /\ MapTypeOK /\ Held /\ Fresh
  BY DEF MInv, TInv, GInv, AInv
<1>1. /\ inner' = inner /\ reg' = reg /\ found' = found /\ pc[t] = "idle"
      /\ unused' \subseteq unused /\ pc'[t] # "idle"
      /\ \A v \in Threads \ {t} : call'[v] = call[v] /\ op'[v] = op[v] /\ pc'[v] = pc[v]
                                  /\ began'[v] = began[v] /\ kept'[v] = kept[v]
  BY StartShape DEF Started, MapTypeOK, Entry, TypeOK
<1>. op[t] \in [stage : Stages \cup {"none"}, key : Keys \cup {Null}, item : Nodes]
  BY DEF MapTypeOK
<1>2. \/ op'[t].stage \in {"evict", "seek"} /\ op'[t].item \in unused
      \/ op'[t].stage = "remove" /\ op'[t].item = Null
      \/ /\ op'[t].stage \in {"get", "contains"} /\ op'[t].item = Null
         /\ op[t] = NoOp /\ unused' = unused /\ began'[t] = Left
      \/ op'[t].stage \in {"put", "fill", "again"} /\ op'[t].item = op[t].item
  <2>1. CASE \E i \in Items : MapInsert(t, i) \/ ComputeIfAbsent(t, i)
    BY <2>1, UpdateStarts
  <2>2. CASE \E k \in KeysOf[t] : MapGet(t, k) \/ MapContains(t, k) \/ MapRemove(t, k)
    <3>1. /\ op[t] = NoOp /\ unused' = unused
          /\ op'[t].stage \in {"get", "contains", "remove"}
          /\ op'[t].stage # "remove" => began'[t] = Left
      BY <2>2, QueryStarts
    <3>2. op'[t].item = Null
      BY <3>1 DEF Started, Shaped
    <3> QED
      BY <3>1, <3>2
  <2>3. CASE InsertPut(t) \/ ComputeFill(t) \/ ComputeAgain(t)
    <3>1. \E stage \in {"put", "fill", "again"} : op'[t] = [op[t] EXCEPT !.stage = stage]
      BY <2>3, StageStarts
    <3> QED
      BY <3>1
  <2> QED
    BY <2>1, <2>2, <2>3 DEF Starting, MapCall
<1>3. op'[t].stage # "none"
  BY DEF Started
<1>4. CASE u # t
  <2>1. SUFFICES ASSUME op[u].stage \in {"get", "contains"}, Gone(u), Seeks(u), Answered(u)
                 PROVE  Gone(u)' /\ Seeks(u)' /\ Answered(u)'
    BY <1>1, <1>4 DEF QInv, Queries, AtStage
  <2>2. Gone(u)'
    <3>1. began[u] \subseteq Items /\ Null \notin Items
      BY ListAssumption DEF MapTypeOK
    <3>2. op'[t].item \notin began[u]
      BY <1>2, <2>1, <3>1 DEF Gone
    <3> QED
      BY <1>1, <1>4, <2>1, <3>2 DEF Gone
  <2>3. Seeks(u)'
    BY <1>1, <1>4, <2>1 DEF Seeks, Reading, Sees, Doing, cur
  <2>4. Answered(u)'
    BY <1>1, <1>4, <2>1 DEF Answered, Wanted, AtStage, At, key
  <2> QED
    BY <2>2, <2>3, <2>4
<1>5. CASE u = t
  <2>1. SUFFICES ASSUME op'[t].stage \in {"get", "contains"}
                 PROVE  Gone(t)' /\ Seeks(t)' /\ Answered(t)'
    BY <1>3, <1>5 DEF Queries, AtStage
  <2>2. op[t] = NoOp /\ unused' = unused /\ began'[t] = Left
    BY <1>2, <2>1
  <2>3. found[t] = {} /\ op[t].item = Null
    BY <2>2 DEF QInv, Queries, AtStage, NoOp
  <2>4. Gone(t)'
    <3>1. Left \subseteq Items /\ Left \cap unused = {} /\ \A v \in Threads : op[v].item \notin Left
      BY DEF Left
    <3>2. op'[t].item = Null /\ Null \notin Items
      BY <2>1, ListAssumption DEF Started, Shaped
    <3> QED
      BY <1>1, <2>2, <3>1, <3>2 DEF Gone
  <2>5. Seeks(t)'
    <3>1. call'[t].method = "find"
      <4>1. call'[t].method # "none"
        BY StartShape DEF Started, Entry
      <4> QED
        BY <2>1, <4>1 DEF Started, Makes
    <3>2. kept'[t] = Listed
      BY <3>1 DEF Started, TypeOK
    <3>3. reg[t].cur = head
      BY <1>1 DEF Fresh, NoReg
    <3>4. Path(inner, head, Listing) /\ Listing \in Seq(Items)
      BY PathFacts DEF AInv, Shape
    <3>5. ToSet(Listing) \cap Left = {}
      BY DEF Left, Listed
    <3>6. Sees(t, Listing)'
      BY <1>1, <3>2, <3>3, <3>4 DEF Sees, Listed, Listing, cur
    <3>7. Listing' = Listing
      BY <1>1 DEF Listing
    <3>8. \E s \in Seq(Items) : Sees(t, s)' /\ ToSet(s) \cap began'[t] = {}
      BY <2>2, <3>4, <3>5, <3>6, <3>7 DEF Sees
    <3> QED
      BY <1>1, <2>3, <3>8 DEF Seeks
  <2>6. Answered(t)'
    BY <1>1 DEF Answered, At
  <2> QED
    BY <2>4, <2>5, <2>6
<1> QED
  BY <1>4, <1>5

(* A call that ends, or goes on without the list.                          *)
LEMMA QueriesEnd ==
  ASSUME MInv, QInv, NEW t \in Threads, Aside(t), NEW u \in Threads
  PROVE  Queries(u)'
<1>. TInv /\ TypeOK /\ GInv /\ OnPath /\ MapTypeOK
  BY DEF MInv, TInv, GInv
<1>1. /\ inner' = inner /\ call' = call /\ reg' = reg /\ unused' = unused
      /\ \A v \in Threads \ {t} : pc'[v] = pc[v] /\ op'[v] = op[v] /\ found'[v] = found[v]
                                  /\ began'[v] = began[v] /\ kept'[v] = kept[v]
      /\ \/ op[t].stage \in {"again", "func"} /\ op' = op
         \/ op'[t] = NoOp /\ found'[t] = {}
         \/ op'[t].stage = "func" /\ op'[t].item = op[t].item
  BY AsideShape DEF AtStage
<1>2. CASE u # t
  <2>1. SUFFICES ASSUME op[u].stage \in {"get", "contains"}, Gone(u), Seeks(u), Answered(u)
                 PROVE  Gone(u)' /\ Seeks(u)' /\ Answered(u)'
    BY <1>1, <1>2 DEF QInv, Queries, AtStage
  <2>2. Gone(u)'
    <3>1. began[u] \subseteq Items /\ Null \notin Items
      BY ListAssumption DEF MapTypeOK
    <3>2. op'[t].item = op[t].item \/ op'[t].item = Null
      BY <1>1 DEF NoOp
    <3> QED
      BY <1>1, <1>2, <2>1, <3>1, <3>2 DEF Gone
  <2>3. Seeks(u)'
    BY <1>1, <1>2, <2>1 DEF Seeks, Reading, Sees, Doing, cur
  <2>4. Answered(u)'
    BY <1>1, <1>2, <2>1 DEF Answered, Wanted, AtStage, At, key
  <2> QED
    BY <2>2, <2>3, <2>4
<1>3. CASE u = t
  BY <1>1, <1>3 DEF Queries, AtStage, NoOp
<1> QED
  BY <1>2, <1>3

LEMMA QueriesStep ==
  ASSUME NEW w \in Threads, SoleWriter(w), UInv(w), QInv, [MapNext]_mapVars
  PROVE  QInv'
<1>. MInv /\ AInv
  BY DEF UInv
<1>1. CASE UNCHANGED mapVars
  BY <1>1 DEF mapVars, vars, cells, QInv, Queries, Gone, Seeks, Answered, Wanted, Reading,
      Sees, AtStage, At, Doing, key, cur
<1>2. ASSUME NEW t \in Threads, MapCall(t) \/ MapProceed(t), NEW u \in Threads
      PROVE  Queries(u)'
  <2>1. CASE ListStep(t)
    BY <2>1, QueriesBeside, QueriesOn
  <2> QED
    BY <1>2, <2>1, MapSteps, QueriesStart, QueriesEnd
<1> QED
  BY <1>1, <1>2 DEF QInv, MapNext

(* get and contains, beside a thread that updates the map, answer for no   *)
(* entry that had left it before they were called, though they may stand   *)
(* on a node that is no longer listed, for none of another key or hash,    *)
(* and miss none of their key that is there from beginning to end.         *)
THEOREM ReadersServed ==
  ASSUME NEW w \in Threads, SoleWriter(w)
  PROVE  MapSpec => []ReaderAnswers
<1> DEFINE Inv == UInv(w) /\ QInv
<1>1. MapInit => Inv
  <2> SUFFICES ASSUME MapInit PROVE QInv
    BY UpdaterStarts
  <2>1. \A t \in Threads : op[t] = NoOp /\ found[t] = {}
    BY DEF MapInit
  <2> QED
    BY <2>1 DEF QInv, Queries, AtStage, NoOp
<1>2. Inv /\ [MapNext]_mapVars => Inv'
  BY UpdaterKeeps, QueriesStep
<1>3. Inv => ReaderAnswers
  <2> SUFFICES ASSUME Inv, NEW t \in Threads, Answers(t), op[t].stage \in {"get", "contains"}
               PROVE  /\ found[t] \subseteq Wanted(t) \ began[t]
                      /\ found[t] = {} => kept[t] \cap Entries(key(t)) = {}
    BY DEF ReaderAnswers
  <2>1. Answered(t) /\ At(t, "idle") /\ MInv
    BY DEF QInv, Queries, Answers, UInv
  <2>2. Entries(key(t)) \subseteq Wanted(t)
    BY <2>1, KeyKnown, Closures DEF Wanted, AtStage
  <2> QED
    BY <2>1, <2>2 DEF Answered
<1> QED
  BY <1>1, <1>2, <1>3, PTL DEF MapSpec

-----------------------------------------------------------------------------
(* What the calls of the thread that updates do.                           *)

(* The accesses of a removal: it takes a node, it returns, or it looks on. *)
LEMMA RemoveSteps ==
  ASSUME TInv, OnPath, NEW t \in Threads, Proceed(t), Doing(t, "remove_count")
  PROVE  \/ RemoveStore(t)
         \/ At(t, "unlock") /\ call'[t] = NoCall /\ pc'[t] = "idle" /\ inner' = inner
         \/ /\ inner' = inner /\ call'[t].method = "remove_count" /\ reg'[t].got = reg[t].got
            /\ pc'[t] \notin {"idle", "removeCount"}
            /\ \/ /\ reg'[t].cur = cur(t) /\ call'[t] = call[t]
                  /\ pc[t] \notin {"removeCount", "unlock"}
                  /\ \/ pc'[t] \notin {"next", "store", "move", "unlock"}
                     \/ /\ pc[t] = "getLoad" /\ Node(t) # Null /\ reg'[t].node = Node(t)
                        /\ pc'[t] = IF Matches(t) THEN "next" ELSE "move"
                     \/ pc[t] = "next" /\ pc'[t] = "store" /\ reg'[t].node = reg[t].node
                     \/ /\ pc[t] = "test" /\ pc'[t] = "unlock"
                        /\ inner[cur(t)] = Null \/ call[t].count = 0
               \/ pc[t] = "removeCount" /\ reg'[t] = reg[t] /\ pc'[t] = "testWait"
               \/ /\ pc[t] = "move" /\ reg'[t].cur = reg[t].node /\ call'[t] = call[t]
                  /\ pc'[t] = "lock"
<1>. /\ pc \in [Threads -> Places] /\ call \in [Threads -> Calls]
     /\ reg \in [Threads -> Regs]
  BY DEF TInv, TypeOK
<1>. call[t].method = "remove_count"
  BY DEF Doing
<1>. pc[t] \notin {"decideWait", "decide", "setLock", "setImm", "setStore", "setFreeImm",
                   "setFreeMut", "mutWait", "mutTest", "mutLock", "mutLoad", "mutDrop",
                   "noneq", "reload", "popCount", "pushCount"}
  BY MethodAt
<1> USE DEF Goto, Step, At, Doing, Node, Matches, cur
<1>1. CASE Lock(t) \/ SetLock(t) \/ SetImm(t) \/ SetFreeImm(t)
           \/ SetFreeMut(t) \/ PopCount(t) \/ MutLock(t)
  BY <1>1 DEF Lock, SetLock, SetImm, SetFreeImm, SetFreeMut, PopCount, MutLock
<1>2. CASE WaitImm(t)
  BY <1>2 DEF WaitImm, Tests, cells
<1>3. CASE PushStore(t) \/ SetStore(t) \/ PopStore(t)
  BY <1>3 DEF PushStore, SetStore, PopStore, Pushes
<1>4. CASE Decide(t) \/ RemoveCount(t)
  BY <1>4 DEF Decide, RemoveCount, Calls, cells
<1>5. CASE LoadNext(t) \/ Reload(t) \/ MutLoad(t) \/ FindNext(t) \/ MutDrop(t)
  BY <1>5 DEF LoadNext, Reload, MutLoad, FindNext, MutDrop, Regs, cells
<1>6. CASE Move(t)
  BY <1>6 DEF Move, Regs
<1>7. CASE RemoveStore(t)
  BY <1>7
<1>8. CASE GetTest(t) \/ GetNull(t) \/ GetPanic(t)
  BY <1>8 DEF GetTest, GetNull, GetPanic, NodeGone, Panic, cells
<1>9. CASE PushSkip(t) \/ PushCompare(t) \/ PushFind(t) \/ PopFind(t) \/ MutFind(t)
  BY <1>9 DEF PushSkip, PushCompare, PushFind, PopFind, MutFind, Got
<1>10. CASE RemoveFind(t)
  BY <1>10 DEF RemoveFind, Got, Regs, cells
<1>11. CASE Test(t)
  BY <1>11 DEF Test, Return, AtEnd, AtNode, IsNull, cells
<1>12. CASE PushCount(t) \/ FindHit(t)
  BY <1>12 DEF PushCount, FindHit
<1>13. CASE Unlock(t)
  BY <1>13 DEF Unlock, Return, Pushes
<1> QED
  BY <1>1, <1>2, <1>3, <1>4, <1>5, <1>6, <1>7, <1>8, <1>9, <1>10, <1>11, <1>12, <1>13
  DEF Proceed

(* The accesses of a push: it stores, it finds an equal entry and gives    *)
(* up, or it goes on, or it ends.                                          *)
LEMMA PushSteps ==
  ASSUME TInv, OnPath, NEW t \in Threads, Proceed(t),
         call[t].method \in {"pushHead", "pushOrdered", "pushSkipped"}
  PROVE  \/ PushStore(t) \/ SetStore(t)
         \/ /\ inner' = inner /\ pc'[t] # "panicked"
            /\ \/ Pending(t) /\ Pending(t)'
               \/ /\ Pending(t) /\ call'[t].method = "pushSkipped" /\ enforce /\ Equal(t)
                  /\ pc[t] = "noneq"
               \/ ~Pending(t) /\ ~Pending(t)'
            /\ call'[t].method = "pushSkipped" => Doing(t, "pushSkipped") \/ Pending(t)
         \/ pc'[t] = "panicked"
<1>. /\ pc \in [Threads -> Places] /\ call \in [Threads -> Calls]
     /\ reg \in [Threads -> Regs]
  BY DEF TInv, TypeOK
<1>. pc[t] \in {"idle", "mutWait", "mutTest", "mutLock", "mutLoad", "mutDrop", "next", "popCount",
                "removeCount", "panicked"} => pc[t] = "panicked"
  BY MethodAt
<1>. call[t].method = "pushSkipped" => pc[t] = "unlock"
  BY DEF OnPath, Doing, At
<1> USE DEF Goto, Step, At, Doing, Pending, Pushes
<1>1. CASE Lock(t) \/ SetLock(t) \/ SetImm(t) \/ SetFreeImm(t)
           \/ SetFreeMut(t) \/ PopCount(t) \/ MutLock(t)
  BY <1>1 DEF Lock, SetLock, SetImm, SetFreeImm, SetFreeMut, PopCount, MutLock
<1>2. CASE WaitImm(t)
  BY <1>2 DEF WaitImm, Tests, cells
<1>3. CASE PushStore(t) \/ SetStore(t)
  BY <1>3
<1>4. CASE Decide(t) \/ RemoveCount(t) \/ PopStore(t) \/ RemoveStore(t)
  BY <1>4 DEF Decide, RemoveCount, PopStore, RemoveStore, Calls, cells
<1>5. CASE LoadNext(t) \/ Reload(t) \/ MutLoad(t) \/ FindNext(t) \/ MutDrop(t) \/ Move(t)
  BY <1>5 DEF LoadNext, Reload, MutLoad, FindNext, MutDrop, Move, cells
<1>6. CASE GetTest(t) \/ GetNull(t) \/ GetPanic(t)
  BY <1>6 DEF GetTest, GetNull, GetPanic, NodeGone, Panic, cells
<1>7. CASE PushCompare(t) \/ PushFind(t) \/ PopFind(t) \/ MutFind(t) \/ RemoveFind(t)
  BY <1>7 DEF PushCompare, PushFind, PopFind, MutFind, RemoveFind, Got, cells
<1>8. CASE PushSkip(t)
  BY <1>8 DEF PushSkip, cells, Calls
<1>9. CASE Test(t)
  BY <1>9 DEF Test, AtEnd, AtNode, cells
<1>10. CASE PushCount(t) \/ FindHit(t) \/ Unlock(t)
  BY <1>10 DEF PushCount, FindHit, Unlock, Return, NoCall, cells
<1> QED
  BY <1>1, <1>2, <1>3, <1>4, <1>5, <1>6, <1>7, <1>8, <1>9, <1>10 DEF Proceed

(* What a call of the thread that updates has come to.  Same is what has   *)
(* the hash of the call's key, at most one entry; Filled is the list that  *)
(* compute_if_absent leaves.                                               *)
Distinct(S) == \A i, j \in S : Key[i] = Key[j] => i = j
Same(t) == began[t] \cap Colliding(key(t))
Filled(t) == IF Same(t) = {} THEN began[t] \cup {op[t].item} ELSE began[t]

(* A removal has taken only what it is to take, and what is left of that   *)
(* lies ahead.                                                             *)
Removing(t) ==
  IF At(t, "idle")
  THEN found[t] = Same(t) /\ Listed = began[t] \ Same(t)
  ELSE /\ Listed = began[t] \ reg[t].got /\ reg[t].got \subseteq Same(t)
       /\ reg[t].got = {} => call[t].count > 0 /\ ~At(t, "removeCount")
       /\ pc[t] \in {"next", "store"} => reg[t].node \in Colliding(key(t))
       /\ At(t, "move") => reg[t].node \notin Colliding(key(t))
       /\ \/ Listed \cap Colliding(key(t)) = {}
          \/ /\ ~At(t, "unlock")
             /\ \E s \in Seq(Items) :
                  Path(inner, cur(t), s) /\ Listed \cap Colliding(key(t)) \subseteq ToSet(s)

(* A push of insert finds no entry of the hash any more.                   *)
Putting(t) ==
  /\ found[t] = Same(t) /\ ~Doing(t, "pushSkipped")
  /\ Listed = IF Pending(t) THEN began[t] \ Same(t) ELSE (began[t] \ Same(t)) \cup {op[t].item}

Filling(t) ==
  found[t] = {} /\ Listed = IF Pending(t) THEN began[t] ELSE Filled(t)

(* The finds of the only thread that writes stay on a list that stays.     *)
Looking(t, want) ==
  /\ ~At(t, "panicked")
  /\ At(t, "idle") => found[t] = Listed \cap want
  /\ Reading(t) =>
       /\ found[t] = {} /\ kept[t] = Listed /\ Linked(cur(t))
       /\ pc[t] \in {"getWait", "getTest", "getLoad"} => inner[cur(t)] # Null

Updates(t) ==
  /\ op[t].stage \notin {"none", "get", "contains"} => Distinct(began[t])
  /\ op[t].stage \in {"evict", "remove"} => Removing(t)
  /\ AtStage(t, "put") => Putting(t)
  /\ AtStage(t, "fill") => Filling(t)
  /\ op[t].stage \in {"func", "fill", "again"} => began[t] \cap Entries(key(t)) = {}
  /\ AtStage(t, "seek") => Listed = began[t] /\ Looking(t, Entries(key(t)))
  /\ AtStage(t, "func") => Listed = began[t] /\ found[t] = {}
  /\ AtStage(t, "again") => Listed = Filled(t) /\ Looking(t, Colliding(key(t)))
WInv(w) == UInv(w) /\ QInv /\ Distinct(Listed) /\ Updates(w)

(* The list has one entry for each hash.                                   *)
LEMMA DistinctKept ==
  ASSUME MInv, AInv, enforce, Distinct(Listed), NEW t \in Threads, ListStep(t)
  PROVE  Distinct(Listed')
<1>. TInv /\ GInv /\ Proceed(t)
  BY DEF MInv, ListStep
<1>1. CASE inner' = inner
  BY <1>1 DEF Listed, Listing
<1>2. CASE Inserts(t)
  BY <1>2, PushFits DEF Distinct
<1>3. CASE Removes(t)
  BY <1>3, TakeFits DEF Distinct
<1> QED
  BY <1>1, <1>2, <1>3, StoreEffect DEF AInv

(* The steps of the readers touch nothing of it.                           *)
LEMMA UpdatesBeside ==
  ASSUME NEW w \in Threads, SoleWriter(w), WInv(w), NEW t \in Threads \ {w},
         MapCall(t) \/ MapProceed(t)
  PROVE  Distinct(Listed') /\ Updates(w)'
<1>. UInv(w) /\ MInv /\ AInv /\ TInv /\ TypeOK /\ GInv /\ OnPath /\ MapTypeOK
  BY DEF WInv, UInv, MInv, TInv, GInv
<1>1. /\ inner' = inner /\ pc'[w] = pc[w] /\ call'[w] = call[w] /\ reg'[w] = reg[w]
      /\ op'[w] = op[w] /\ found'[w] = found[w] /\ began'[w] = began[w] /\ kept'[w] = kept[w]
  <2>1. CASE ListStep(t)
    <3>1. Proceed(t) /\ op' = op /\ found'[w] = found[w] /\ began' = began
      BY <2>1 DEF ListStep, MapTypeOK
    <3>2. Doing(t, "find")
      BY <3>1, CallGoesOn, MapApart DEF Doing, UInv
    <3> QED
      BY <3>1, <3>2, Elsewhere, FindSteps
  <2>2. CASE Aside(t)
    BY <2>2, AsideShape
  <2>3. CASE Starting(t) /\ Started(t)
    <3>1. /\ inner' = inner /\ pc'[w] = pc[w] /\ call'[w] = call[w] /\ reg' = reg
          /\ found' = found
      BY <2>3, StartShape DEF Started
    <3>2. op'[w] = op[w] /\ began'[w] = began[w] /\ kept'[w] = kept[w]
      BY <2>3 DEF Started, MapTypeOK, TypeOK
    <3> QED
      BY <3>1, <3>2
  <2> QED
    BY <2>1, <2>2, <2>3, MapSteps
<1>2. Listing' = Listing /\ Listed' = Listed
  BY <1>1 DEF Listing, Listed
<1>3. Updates(w)
  BY DEF WInv
<1> QED
  BY <1>1, <1>2, <1>3 DEF WInv, Updates, Removing, Putting, Filling, Looking, Same, Filled,
     Reading, Linked, Pending, Doing, AtStage, At, key, cur

(* The accesses of a removal.                                              *)
LEMMA RemovingStep ==
  ASSUME NEW w \in Threads, WInv(w), ListStep(w), op[w].stage \in {"evict", "remove"}
  PROVE  Removing(w)'
<1>. UInv(w) /\ MInv /\ AInv /\ TInv /\ TypeOK /\ GInv /\ OnPath /\ MapTypeOK
  BY DEF WInv, UInv, MInv, TInv, GInv
<1> DEFINE K == Colliding(key(w))
<1>1. Proceed(w) /\ op' = op /\ began' = began /\ found'[w] = Outcome(w)
  BY DEF ListStep, MapTypeOK
<1>2. /\ call[w].method = "remove_count" /\ call[w].want = K
      /\ pc[w] # "idle"
  BY <1>1, CallGoesOn DEF MInv, Fits, Makes, key
<1>3. /\ Listed = began[w] \ reg[w].got /\ reg[w].got \subseteq Same(w)
      /\ reg[w].got = {} => call[w].count > 0 /\ ~At(w, "removeCount")
      /\ pc[w] \in {"next", "store"} => reg[w].node \in K
      /\ At(w, "move") => reg[w].node \notin K
      /\ \/ Listed \cap K = {}
         \/ /\ ~At(w, "unlock")
            /\ \E s \in Seq(Items) : Path(inner, cur(w), s) /\ Listed \cap K \subseteq ToSet(s)
      /\ Distinct(began[w])
  BY <1>2 DEF WInv, Updates, Removing, At
<1>4. Same(w)' = Same(w) /\ key(w)' = key(w) /\ Same(w) = began[w] \cap K
  BY <1>1 DEF Same, key
<1> HIDE DEF K
<1>5. key(w) \in Keys
  BY KeyKnown DEF AtStage
<1>6. reg[w].got # {} => Listed \cap K = {}
  <2> SUFFICES ASSUME NEW n \in reg[w].got, NEW i \in Listed \cap K PROVE FALSE
    OBVIOUS
  <2>1. n \in began[w] /\ i \in began[w] /\ n \in K /\ i \in K
    BY <1>3, <1>4
  <2>2. n = i
    BY <1>3, <1>5, <2>1, SameHash DEF Distinct, K
  <2> QED
    BY <1>3, <2>2
<1>7. CASE RemoveStore(w)
  <2>1. Removes(w) /\ pc[w] = "store" /\ pc'[w] = "removeCount"
    BY <1>1, <1>7, StoreEffect DEF AInv, RemoveStore, Step, At, Goto, TypeOK
  <2>2. PICK i \in Items : i = reg[w].node /\ i \in Listed /\ Listed' = Listed \ {i}
    BY <2>1, TakeFits DEF Listed
  <2>3. reg'[w].got = reg[w].got \cup {i}
    BY <1>7, <2>2 DEF RemoveStore, TypeOK
  <2>4. i \in K /\ i \in Same(w)
    BY <1>3, <1>4, <2>1, <2>2
  <2>5. Listed' = began[w] \ reg'[w].got /\ reg'[w].got \subseteq Same(w) /\ reg'[w].got # {}
    BY <1>3, <2>2, <2>3, <2>4
  <2>6. Listed' \cap K = {}
    <3> SUFFICES ASSUME NEW j \in Listed' \cap K PROVE FALSE
      OBVIOUS
    <3>1. j \in began[w] /\ i \in began[w] /\ j # i
      BY <1>3, <2>2
    <3> QED
      BY <1>3, <1>5, <2>4, <3>1, SameHash DEF Distinct, K
  <2> QED
    BY <1>1, <1>4, <2>1, <2>5, <2>6 DEF Removing, At, K
<1>8. CASE At(w, "unlock") /\ call'[w] = NoCall /\ pc'[w] = "idle" /\ inner' = inner
  <2>1. found'[w] = reg[w].got
    BY <1>1, <1>2, <1>8 DEF Outcome, Doing
  <2>2. Listed \cap K = {} /\ Listed' = Listed
    BY <1>3, <1>8 DEF Listed, Listing
  <2>3. reg[w].got = Same(w)
    BY <1>3, <1>4, <2>2
  <2> QED
    BY <1>1, <1>3, <1>4, <1>8, <2>1, <2>2, <2>3 DEF Removing, At
<1>9. CASE /\ inner' = inner /\ call'[w].method = "remove_count" /\ reg'[w].got = reg[w].got
           /\ pc'[w] \notin {"idle", "removeCount"}
           /\ \/ /\ reg'[w].cur = cur(w) /\ call'[w] = call[w]
                 /\ pc[w] \notin {"removeCount", "unlock"}
                 /\ \/ pc'[w] \notin {"next", "store", "move", "unlock"}
                    \/ /\ pc[w] = "getLoad" /\ Node(w) # Null /\ reg'[w].node = Node(w)
                       /\ pc'[w] = IF Matches(w) THEN "next" ELSE "move"
                    \/ pc[w] = "next" /\ pc'[w] = "store" /\ reg'[w].node = reg[w].node
                    \/ /\ pc[w] = "test" /\ pc'[w] = "unlock"
                       /\ inner[cur(w)] = Null \/ call[w].count = 0
              \/ pc[w] = "removeCount" /\ reg'[w] = reg[w] /\ pc'[w] = "testWait"
              \/ /\ pc[w] = "move" /\ reg'[w].cur = reg[w].node /\ call'[w] = call[w]
                 /\ pc'[w] = "lock"
  <2>1. Listed' = Listed
    BY <1>9 DEF Listed, Listing
  <2>2. reg'[w].got = {} => call'[w].count > 0 /\ pc'[w] # "removeCount"
    BY <1>3, <1>9 DEF At
  <2>3. pc'[w] \in {"next", "store"} => reg'[w].node \in K
    BY <1>2, <1>3, <1>9 DEF Matches, Node
  <2>4. pc'[w] = "move" => reg'[w].node \notin K
    BY <1>2, <1>3, <1>9 DEF Matches, Node
  <2>5. ASSUME Listed \cap K # {}
        PROVE  /\ pc'[w] # "unlock"
               /\ \E r \in Seq(Items) :
                    Path(inner, reg'[w].cur, r) /\ Listed \cap K \subseteq ToSet(r)
    <3>1. PICK s \in Seq(Items) : Path(inner, cur(w), s) /\ Listed \cap K \subseteq ToSet(s)
      BY <1>3, <2>5
    <3>2. reg[w].got = {}
      BY <1>6, <2>5
    <3>3. inner[cur(w)] = Null => ToSet(s) = {}
      BY <3>1, PathFacts, ListAssumption
    <3>4. pc'[w] # "unlock"
      BY <1>3, <1>9, <2>5, <3>1, <3>2, <3>3 DEF TInv, TypeOK, Calls
    <3>5. CASE reg'[w].cur = cur(w)
      BY <3>1, <3>4, <3>5
    <3>6. CASE pc[w] = "removeCount"
      BY <1>3, <3>2, <3>6 DEF At
    <3>7. CASE pc[w] = "move" /\ reg'[w].cur = reg[w].node
      <4>1. reg[w].node = inner[cur(w)] /\ inner[cur(w)] # Null
        BY <1>2, <3>7 DEF AInv, Found, Busy, TakesNode, At
      <4>2. /\ Path(inner, inner[cur(w)], Tail(s))
            /\ ToSet(s) = {inner[cur(w)]} \cup ToSet(Tail(s))
        BY <3>1, <4>1, PathRest
      <4>3. Tail(s) \in Seq(Items) /\ inner[cur(w)] \notin K
        BY <1>3, <3>7, <4>1, <4>2, PathFacts DEF At
      <4> QED
        BY <3>1, <3>4, <3>7, <4>1, <4>2, <4>3
    <3> QED
      BY <1>9, <3>5, <3>6, <3>7
  <2> QED
    BY <1>1, <1>3, <1>4, <1>9, <2>1, <2>2, <2>3, <2>4, <2>5 DEF Removing, At, cur, K
<1> QED
  BY <1>1, <1>2, <1>7, <1>8, <1>9, RemoveSteps DEF Doing

(* The accesses of a push: it stores when there is no entry of the hash,   *)
(* and gives up only beside one.                                           *)
LEMMA PushesOn ==
  ASSUME NEW w \in Threads, WInv(w), ListStep(w), op[w].stage \in {"put", "fill"}
  PROVE  /\ op' = op /\ began' = began /\ found'[w] = found[w]
         /\ call'[w].method = "pushSkipped" => Doing(w, "pushSkipped") \/ Pending(w)
         /\ \/ /\ Pending(w) /\ ~Pending(w)' /\ call'[w].method # "pushSkipped"
               /\ Listed' = Listed \cup {op[w].item}
               /\ \A j \in Listed : Key[j] # Key[op[w].item]
            \/ /\ Pending(w) /\ ~Pending(w)' /\ Listed' = Listed
               /\ \E j \in Listed : Key[j] = Key[op[w].item]
            \/ /\ (Pending(w)' <=> Pending(w)) /\ Listed' = Listed
               /\ Pending(w) => call'[w].method # "pushSkipped"
<1>. UInv(w) /\ MInv /\ AInv /\ enforce /\ TInv /\ TypeOK /\ GInv /\ OnPath /\ MapTypeOK
  BY DEF WInv, UInv, MInv, TInv, GInv
<1>1. Proceed(w) /\ op' = op /\ began' = began /\ found'[w] = Outcome(w)
  BY DEF ListStep, MapTypeOK
<1>2. /\ call[w].method \in {"pushHead", "pushOrdered", "pushSkipped"}
      /\ call[w].item = op[w].item /\ op[w].item \in Items
  BY <1>1, CallGoesOn DEF MInv, Fits, Makes, Shaped
<1>3. found'[w] = found[w]
  BY <1>1, <1>2 DEF Outcome, Doing
<1>4. CASE PushStore(w) \/ SetStore(w)
  <2>1. Inserts(w)
    BY <1>1, <1>4, StoreEffect DEF AInv
  <2>2. Pending(w) /\ ~Pending(w)' /\ call'[w] = call[w]
    BY <1>1, <1>4, PendingKept DEF PushStore, SetStore
  <2>3. call'[w].method # "pushSkipped"
    BY <2>2 DEF Pending, Pushes
  <2> QED
    BY <1>1, <1>2, <1>3, <2>1, <2>2, <2>3, PushFits
<1>5. CASE pc'[w] = "panicked"
  <2>1. call[w].method = "pushOrdered" /\ pc[w] \in {"getTest", "getLoad"} /\ inner[cur(w)] = Null
    BY <1>1, <1>2, <1>5, PanicsAt DEF Doing
  <2>2. Busy(w)
    BY <2>1 DEF Busy
  <2> QED
    BY <2>1, <2>2 DEF AInv, Found
<1>6. CASE /\ inner' = inner
           /\ \/ Pending(w) /\ Pending(w)'
              \/ /\ Pending(w) /\ call'[w].method = "pushSkipped" /\ enforce /\ Equal(w)
                 /\ pc[w] = "noneq"
              \/ ~Pending(w) /\ ~Pending(w)'
           /\ call'[w].method = "pushSkipped" => Doing(w, "pushSkipped") \/ Pending(w)
  <2>1. Listed' = Listed
    BY <1>6 DEF Listed, Listing
  <2>2. Pending(w)' => call'[w].method # "pushSkipped"
    BY DEF Pending, Pushes
  <2>3. ASSUME Pending(w), call'[w].method = "pushSkipped", Equal(w), pc[w] = "noneq"
        PROVE  \E j \in Listed : Key[j] = Key[op[w].item]
    <3>1. Busy(w)
      BY <2>3 DEF Busy, Pending, Pushes
    <3>2. /\ Linked(cur(w)) /\ Shape
          /\ reg[w].node = inner[cur(w)] /\ inner[cur(w)] # Null
      BY <2>3, <3>1 DEF AInv, Found, TakesNode
    <3>3. inner[cur(w)] \in ToSet(Listing)
      BY <3>2, NextListed
    <3>4. inner[cur(w)] \in Listed
      BY <3>2, <3>3, PathFacts DEF Listed, Shape
    <3>5. reg[w].rank = Key[reg[w].node]
      BY <2>3 DEF AInv, Ranked, MInv, At
    <3> QED
      BY <1>2, <2>3, <3>2, <3>4, <3>5 DEF Equal
  <2> QED
    BY <1>1, <1>3, <1>6, <2>1, <2>2, <2>3
<1> QED
  BY <1>1, <1>2, <1>4, <1>5, <1>6, PushSteps

LEMMA PuttingStep ==
  ASSUME NEW w \in Threads, WInv(w), ListStep(w), AtStage(w, "put")
  PROVE  Putting(w)'
<1>1. Putting(w) /\ MInv
  BY DEF WInv, Updates, UInv
<1>2. op[w].item \in Items /\ op[w].item \in Colliding(key(w)) /\ key(w) \in Keys
  BY <1>1, KeyKnown DEF AtStage
<1>3. began[w] \subseteq Items
  BY <1>1 DEF MInv, MapTypeOK
<1>4. op' = op /\ Same(w)' = Same(w) /\ began' = began /\ found'[w] = found[w]
  BY PushesOn DEF Same, key, AtStage
<1>5. Pending(w) => \A j \in Listed : Key[j] # Key[op[w].item]
  <2> SUFFICES ASSUME Pending(w), NEW j \in began[w] \ Same(w) PROVE Key[j] # Key[op[w].item]
    BY <1>1 DEF Putting
  <2> QED
    BY <1>2, <1>3, SameHash DEF Same
<1>6. call'[w].method # "pushSkipped"
  BY <1>1, <1>5, PushesOn DEF Putting, AtStage, Doing
<1>7. Listed' = IF Pending(w)' THEN began[w] \ Same(w) ELSE (began[w] \ Same(w)) \cup {op[w].item}
  BY <1>1, <1>5, PushesOn DEF Putting, AtStage
<1> QED
  BY <1>1, <1>4, <1>6, <1>7 DEF Putting, Doing

LEMMA FillingStep ==
  ASSUME NEW w \in Threads, WInv(w), ListStep(w), AtStage(w, "fill")
  PROVE  Filling(w)'
<1>1. Filling(w) /\ MInv
  BY DEF WInv, Updates, UInv
<1>2. op[w].item \in Items /\ op[w].item \in Colliding(key(w)) /\ key(w) \in Keys
  BY <1>1, KeyKnown DEF AtStage
<1>3. began[w] \subseteq Items
  BY <1>1 DEF MInv, MapTypeOK
<1>4. op' = op /\ Filled(w)' = Filled(w) /\ began' = began /\ found'[w] = found[w]
  BY PushesOn DEF Filled, Same, key, AtStage
<1>5. (\E j \in began[w] : Key[j] = Key[op[w].item]) <=> Same(w) # {}
  BY <1>2, <1>3, SameHash DEF Same
<1>6. Listed' = IF Pending(w)' THEN began[w] ELSE Filled(w)
  BY <1>1, <1>5, PushesOn DEF Filling, Filled, AtStage
<1> QED
  BY <1>1, <1>4, <1>6 DEF Filling

(* The accesses of a find.                                                 *)
LEMMA LookingStep ==
  ASSUME NEW w \in Threads, WInv(w), ListStep(w), NEW want,
         \/ AtStage(w, "seek") /\ want = Entries(key(w))
         \/ AtStage(w, "again") /\ want = Colliding(key(w)),
         Looking(w, want)
  PROVE  /\ Looking(w, want)' /\ Listed' = Listed
         /\ op' = op /\ began' = began
<1>. UInv(w) /\ MInv /\ AInv /\ TInv /\ TypeOK /\ GInv /\ OnPath /\ MapTypeOK /\ Shape
  BY DEF WInv, UInv, MInv, TInv, GInv, AInv
<1>1. Proceed(w) /\ op' = op /\ began' = began /\ found'[w] = Outcome(w)
  BY DEF ListStep, MapTypeOK
<1>2. call[w].method = "find" /\ call[w].want = want
  BY <1>1, CallGoesOn DEF MInv, Fits, Makes, AtStage, key
<1>3. Reading(w)
  BY <1>1, <1>2, CallGoesOn DEF Reading, OnPath, Doing
<1>4. /\ found[w] = {} /\ kept[w] = Listed /\ Linked(cur(w))
      /\ pc[w] \in {"getWait", "getTest", "getLoad"} => inner[cur(w)] # Null
  BY <1>3 DEF Looking
<1>5. want \subseteq Colliding(key(w)) /\ key(w) \in Keys
  BY Closures, KeyKnown DEF AtStage
<1>6. inner' = inner /\ kept' = kept /\ Listed' = Listed /\ Listing' = Listing
  BY <1>1, <1>2, FindSteps DEF Doing, Listed, Listing
<1>7. inner[cur(w)] # Null => inner[cur(w)] \in ToSet(Listing) /\ inner[cur(w)] \in Listed
  <2>1. Listing \in Seq(Items) /\ \A i \in ToSet(Listing) : i \in Items
    BY PathFacts DEF Shape
  <2> QED
    BY <1>4, <2>1, NextListed DEF Listed
<1>8. CASE /\ At(w, "getLoad") /\ Matches(w) /\ Node(w) \in Items
           /\ call'[w] = NoCall /\ pc'[w] = "idle"
  <2>1. found'[w] = {Node(w)}
    BY <1>1, <1>2, <1>8 DEF Outcome, Doing, At
  <2>2. Node(w) \in want /\ Node(w) \in Listed
    BY <1>2, <1>7, <1>8, ListAssumption DEF Matches, Node
  <2>3. ASSUME NEW i \in Listed \cap want PROVE i = Node(w)
    BY <1>5, <2>2, SameHash DEF WInv, Distinct
  <2>4. found'[w] = Listed \cap want
    BY <2>1, <2>2, <2>3
  <2> QED
    BY <1>1, <1>6, <1>8, <2>4 DEF Looking, Reading, Doing, NoCall, At
<1>9. CASE At(w, "test") /\ inner[cur(w)] = Null /\ call'[w] = NoCall /\ pc'[w] = "idle"
  <2>1. PICK s \in Seq(Items) : Sees(w, s)
    BY <1>3 DEF AInv, ReaderSees
  <2>2. ToSet(s) = {}
    BY <1>9, <2>1, PathFacts, ListAssumption DEF Sees
  <2>3. Listed \cap want = {}
    BY <1>2, <1>4, <2>1, <2>2 DEF Sees
  <2>4. found'[w] = {}
    BY <1>1, <1>4, <1>9 DEF Outcome, At
  <2> QED
    BY <1>1, <1>6, <1>9, <2>3, <2>4 DEF Looking, Reading, Doing, NoCall, At
<1>10. CASE pc[w] \in {"getTest", "getLoad"} /\ inner[cur(w)] = Null
  BY <1>4, <1>10
<1>11. CASE /\ ~(At(w, "getLoad") /\ Matches(w)) /\ call'[w] = call[w]
            /\ pc'[w] \in {"testWait", "test", "getWait", "getTest", "getLoad"}
            /\ \/ /\ reg'[w] = reg[w]
                  /\ pc'[w] \in {"getWait", "getTest", "getLoad"} =>
                       inner[cur(w)] # Null \/ pc[w] \in {"getWait", "getTest"}
               \/ /\ reg'[w].cur = inner[cur(w)] /\ inner[cur(w)] # Null
                  /\ pc'[w] = "testWait" /\ pc[w] = "getLoad"
  <2>1. found'[w] = {}
    BY <1>1, <1>2, <1>4, <1>11 DEF Outcome, Doing
  <2>2. /\ reg'[w].cur = head \/ reg'[w].cur \in ToSet(Listing)
        /\ pc'[w] \in {"getWait", "getTest", "getLoad"} => inner[reg'[w].cur] # Null
    BY <1>4, <1>7, <1>11 DEF Linked, cur
  <2> QED
    BY <1>1, <1>4, <1>6, <1>11, <2>1, <2>2 DEF Looking, Linked, At, cur
<1> QED
  BY <1>1, <1>2, <1>8, <1>9, <1>10, <1>11, FindSteps DEF Doing

(* The accesses of the thread that updates.                                *)
LEMMA UpdatesOn ==
  ASSUME NEW w \in Threads, WInv(w), ListStep(w)
  PROVE  Distinct(Listed') /\ Updates(w)'
<1>. UInv(w) /\ MInv /\ AInv /\ enforce /\ MapTypeOK /\ Updates(w) /\ Distinct(Listed)
  BY DEF WInv, UInv, MInv
<1>1. op' = op /\ began' = began
  BY DEF ListStep
<1>2. Distinct(Listed')
  BY DistinctKept
<1>3. AtStage(w, "seek") => Listed' = began[w] /\ Looking(w, Entries(key(w)))'
  <2> SUFFICES ASSUME AtStage(w, "seek")
               PROVE  Listed' = began[w] /\ Looking(w, Entries(key(w)))'
    OBVIOUS
  <2>1. PICK want : want = Entries(key(w))
    OBVIOUS
  <2>2. Looking(w, want)' /\ Listed' = Listed
    BY <2>1, LookingStep DEF Updates
  <2> QED
    BY <1>1, <2>1, <2>2 DEF Updates, Looking, key
<1>4. AtStage(w, "again") => Listed' = Filled(w) /\ Looking(w, Colliding(key(w)))'
  <2> SUFFICES ASSUME AtStage(w, "again")
               PROVE  Listed' = Filled(w) /\ Looking(w, Colliding(key(w)))'
    OBVIOUS
  <2>1. PICK want : want = Colliding(key(w))
    OBVIOUS
  <2>2. Looking(w, want)' /\ Listed' = Listed
    BY <2>1, LookingStep DEF Updates
  <2> QED
    BY <1>1, <2>1, <2>2 DEF Updates, Looking, key
<1>5. Filled(w)' = Filled(w)
  BY <1>1 DEF Filled, Same, key
<1> QED
  <2>1. key(w)' = key(w) /\ Proceed(w)
    BY <1>1 DEF key, ListStep
  <2>2. ~AtStage(w, "func")
    <3>1. call[w].method # "none" /\ Makes(op[w], call[w])
      BY <2>1, CallGoesOn DEF MInv, GInv, Fits
    <3> QED
      BY <3>1 DEF Makes, AtStage
  <2> QED
    BY <1>1, <1>2, <1>3, <1>4, <1>5, <2>1, <2>2, RemovingStep, PuttingStep, FillingStep
    DEF Updates, AtStage

(* A call of it that starts.                                               *)
LEMMA UpdatesStart ==
  ASSUME NEW w \in Threads, WInv(w), Starting(w), Started(w)
  PROVE  Distinct(Listed') /\ Updates(w)'
<1>. UInv(w) /\ QInv /\ MInv /\ AInv /\ TInv /\ TypeOK /\ GInv /\ OnPath /\ MapTypeOK
     /\ Fresh /\ Shape /\ Updates(w) /\ Distinct(Listed)
  BY DEF WInv, UInv, MInv, TInv, GInv, AInv
<1>. op[w] \in [stage : Stages \cup {"none"}, key : Keys \cup {Null}, item : Nodes]
  BY DEF MapTypeOK
<1>1. /\ inner' = inner /\ reg' = reg /\ found' = found /\ pc[w] = "idle"
      /\ Entry(pc'[w], call'[w].method) /\ reg[w] = NoReg
      /\ op'[w].stage # "none" /\ Makes(op'[w], call'[w])
      /\ call'[w].method = "remove_count" => call'[w].count > 0
      /\ IF call'[w].method = "find" THEN kept' = [kept EXCEPT ![w] = Listed] ELSE kept' = kept
  BY StartShape DEF Started, Fresh
<1>2. Listed' = Listed /\ Listing' = Listing
  BY <1>1 DEF Listed, Listing
<1>3. call[w].method = "none" /\ ~Pending(w)
  BY <1>1, MethodAt DEF Pending, Pushes
<1>4. /\ pc'[w] \in {"decideWait", "lock", "testWait"} /\ call'[w].method # "none"
      /\ call'[w].method \in Pushes => pc'[w] \in {"decideWait", "lock"}
      /\ call'[w].method = "remove_count" => pc'[w] = "lock"
      /\ call'[w].method = "find" => pc'[w] = "testWait"
  BY <1>1 DEF Entry, Pushes
<1>5. Path(inner, head, Listing) /\ Listing \in Seq(Items) /\ reg[w].cur = head /\ reg[w].got = {}
  BY <1>1, PathFacts DEF Shape, NoReg
<1>6. CASE op'[w].stage \in {"evict", "remove"} /\ began'[w] = Listed
  <2>1. call'[w].method = "remove_count"
    BY <1>1, <1>4, <1>6 DEF Makes
  <2>2. Removing(w)'
    BY <1>1, <1>2, <1>4, <1>5, <1>6, <2>1 DEF Removing, At, cur, Listed
  <2> QED
    BY <1>2, <1>6, <2>2 DEF Updates, AtStage
<1>7. ASSUME NEW want, call'[w].method = "find", found[w] = {}
      PROVE  Looking(w, want)'
  <2>1. kept'[w] = Listed
    BY <1>1, <1>7 DEF TypeOK
  <2> QED
    BY <1>1, <1>2, <1>4, <1>5, <1>7, <2>1 DEF Looking, Linked, At, cur
<1>8. CASE op'[w].stage = "seek" /\ began'[w] = Listed /\ op[w] = NoOp
  <2>1. call'[w].method = "find" /\ found[w] = {}
    BY <1>1, <1>4, <1>8 DEF Makes, QInv, Queries, AtStage, NoOp
  <2>2. \A want : Looking(w, want)'
    BY <1>7, <2>1
  <2>3. Looking(w, Entries(key(w)))'
    BY <2>2 DEF Looking
  <2> QED
    BY <1>2, <1>8, <2>3 DEF Updates, AtStage
<1>9. CASE AtStage(w, "evict") /\ op'[w] = [op[w] EXCEPT !.stage = "put"] /\ began' = began
  <2>1. op'[w].stage = "put" /\ op'[w].item = op[w].item /\ op'[w].key = op[w].key
    BY <1>9
  <2>2. call'[w].method \in Pushes /\ Pending(w)'
    BY <1>1, <1>4, <2>1 DEF Makes, Pending, Entry, Pushes
  <2>3. found[w] = Same(w) /\ Listed = began[w] \ Same(w) /\ Distinct(began[w])
    BY <1>1, <1>9 DEF Updates, Removing, AtStage, At
  <2>4. Same(w)' = Same(w)
    BY <1>9, <2>1 DEF Same, key
  <2>5. Putting(w)'
    BY <1>1, <1>2, <1>9, <2>2, <2>3, <2>4 DEF Putting, Doing, Pushes
  <2> QED
    BY <1>2, <1>9, <2>1, <2>3, <2>5 DEF Updates, AtStage
<1>10. CASE AtStage(w, "func") /\ op'[w] = [op[w] EXCEPT !.stage = "fill"] /\ began' = began
  <2>1. op'[w].stage = "fill" /\ op'[w].item = op[w].item /\ op'[w].key = op[w].key
    BY <1>10
  <2>2. Pending(w)'
    BY <1>1, <1>4, <2>1 DEF Makes, Pending, Entry, Pushes
  <2>3. Listed = began[w] /\ Distinct(began[w]) /\ found[w] = {}
    BY <1>10 DEF Updates, AtStage
  <2>4. Filling(w)'
    BY <1>1, <1>2, <1>10, <2>2, <2>3 DEF Filling
  <2>5. began[w] \cap Entries(key(w)) = {} /\ key(w)' = key(w)
    BY <1>10, <2>1 DEF Updates, AtStage, key
  <2> QED
    BY <1>2, <1>10, <2>1, <2>3, <2>4, <2>5 DEF Updates, AtStage
<1>11. CASE AtStage(w, "fill") /\ op'[w] = [op[w] EXCEPT !.stage = "again"] /\ began' = began
  <2>1. op'[w].stage = "again" /\ op'[w].item = op[w].item /\ op'[w].key = op[w].key
    BY <1>11
  <2>2. call'[w].method = "find"
    BY <1>1, <1>4, <2>1 DEF Makes
  <2>3. found[w] = {} /\ Listed = Filled(w) /\ Distinct(began[w])
    BY <1>3, <1>11 DEF Updates, Filling, AtStage
  <2>4. Filled(w)' = Filled(w)
    BY <1>11, <2>1 DEF Filled, Same, key
  <2>5. Looking(w, Colliding(key(w)))'
    <3>1. \A want : Looking(w, want)'
      BY <1>7, <2>2, <2>3
    <3> QED
      BY <3>1 DEF Looking
  <2>6. began[w] \cap Entries(key(w)) = {} /\ key(w)' = key(w)
    BY <1>11, <2>1 DEF Updates, AtStage, key
  <2> QED
    BY <1>2, <1>11, <2>1, <2>3, <2>4, <2>5, <2>6 DEF Updates, AtStage
<1>12. CASE op'[w].stage \in {"get", "contains"}
  BY <1>2, <1>12 DEF Updates, AtStage
<1>13. CASE MapCall(w)
  <2>1. CASE \E i \in Items : MapInsert(w, i) \/ ComputeIfAbsent(w, i)
    BY <1>6, <1>8, <2>1, UpdateStarts
  <2>2. CASE \E k \in KeysOf[w] : MapGet(w, k) \/ MapContains(w, k) \/ MapRemove(w, k)
    BY <1>6, <1>12, <2>2, QueryStarts
  <2> QED
    BY <1>13, <2>1, <2>2 DEF MapCall
<1>14. CASE InsertPut(w) \/ ComputeFill(w) \/ ComputeAgain(w)
  BY <1>9, <1>10, <1>11, <1>14, StageStarts
<1> QED
  BY <1>13, <1>14 DEF Starting

(* compute_if_absent finds an entry in its last find.                      *)
LEMMA FoundAgain ==
  ASSUME NEW w \in Threads, WInv(w), AtStage(w, "again"), At(w, "idle")
  PROVE  found[w] # {}
<1>1. Listed = Filled(w) /\ found[w] = Listed \cap Colliding(key(w)) /\ MInv
  BY DEF WInv, UInv, Updates, Looking
<1>2. op[w].item \in Colliding(key(w))
  BY <1>1, KeyKnown DEF AtStage
<1> QED
  BY <1>1, <1>2 DEF Filled, Same

(* A call of it that answers, or goes on without the list.                 *)
LEMMA UpdatesEnd ==
  ASSUME NEW w \in Threads, WInv(w), Aside(w)
  PROVE  Distinct(Listed') /\ Updates(w)'
<1>1. MInv /\ Distinct(Listed)
  BY DEF WInv, UInv
<1>2. Listed' = Listed /\ pc[w] = "idle"
  BY <1>1, AsideShape DEF Listed, Listing
<1>3. CASE op'[w] = NoOp
  BY <1>1, <1>2, <1>3 DEF Updates, AtStage, NoOp
<1>4. CASE op[w].stage \in {"seek", "func"} /\ op'[w].stage = "func"
  <2>1. /\ Listed = began[w] /\ found[w] = {} /\ Distinct(began[w])
        /\ found' = found /\ began' = began
    BY <1>1, <1>4, AsideShape DEF WInv, Updates, AtStage, NoOp
  <2>2. began[w] \cap Entries(key(w)) = {} /\ key(w)' = key(w)
    <3>1. key(w)' = key(w)
      BY <1>1, <1>4, AsideShape DEF key, NoOp
    <3>2. CASE AtStage(w, "seek")
      BY <1>2, <2>1, <3>1, <3>2 DEF WInv, Updates, Looking, At
    <3>3. CASE AtStage(w, "func")
      BY <3>1, <3>3 DEF WInv, Updates, AtStage
    <3> QED
      BY <1>4, <3>2, <3>3 DEF AtStage
  <2> QED
    BY <1>1, <1>2, <1>4, <2>1, <2>2 DEF Updates, AtStage
<1> QED
  BY <1>1, <1>2, <1>3, <1>4, AsideShape, FoundAgain DEF At, AtStage

(* Every step keeps the invariant of the thread that updates.              *)
LEMMA UpdatesStep ==
  ASSUME NEW w \in Threads, SoleWriter(w), WInv(w), [MapNext]_mapVars
  PROVE  WInv(w)'
<1>. UInv(w) /\ QInv /\ MInv
  BY DEF WInv, UInv
<1>1. UInv(w)' /\ QInv'
  BY UpdaterKeeps, QueriesStep
<1>2. CASE UNCHANGED mapVars
  BY <1>1, <1>2 DEF mapVars, vars, cells, WInv, Updates, Removing, Putting, Filling, Looking,
      Same, Filled, Reading, Linked, Pending, Listed, Listing, Doing, AtStage, At, key, cur
<1>3. ASSUME NEW t \in Threads, MapCall(t) \/ MapProceed(t)
      PROVE  Distinct(Listed') /\ Updates(w)'
  <2>1. CASE t # w
    BY <1>3, <2>1, UpdatesBeside
  <2>2. CASE t = w
    BY <1>3, <2>2, MapSteps, UpdatesOn, UpdatesStart, UpdatesEnd
  <2> QED
    BY <2>1, <2>2
<1>4. CASE MapNext
  <2>1. Distinct(Listed') /\ Updates(w)'
    BY <1>3, <1>4 DEF MapNext
  <2> QED
    BY <1>1, <2>1 DEF WInv, Distinct
<1> QED
  BY <1>2, <1>4

LEMMA UpdatesInit ==
  ASSUME NEW w \in Threads, SoleWriter(w), MapInit
  PROVE  WInv(w)
<1>1. UInv(w)
  BY UpdaterStarts
<1>2. \A t \in Threads : op[t] = NoOp /\ found[t] = {}
  BY DEF MapInit
<1>3. QInv /\ Updates(w)
  BY <1>2 DEF QInv, Queries, Updates, AtStage, NoOp
<1>4. Distinct(Listed)
  <2>1. Path(inner, head, Listing) /\ inner[head] = Null
    BY <1>1 DEF MapInit, UInv, AInv, Shape, Init, CellsInit, Cells
  <2>2. ToSet(Listing) = {}
    BY <2>1, PathFacts, ListAssumption
  <2> QED
    BY <2>2 DEF Listed, Distinct
<1> QED
  BY <1>1, <1>3, <1>4 DEF WInv

(* What its calls do, in terms of hashes.                                  *)
DidByHash(t, content) ==
  CASE AtStage(t, "put")    -> found[t] = Same(t) /\ content = (began[t] \ Same(t)) \cup {op[t].item}
    [] AtStage(t, "remove") -> found[t] = Same(t) /\ content = began[t] \ Same(t)
    [] AtStage(t, "seek")   -> found[t] = began[t] \cap Entries(key(t)) /\ content = began[t]
    [] AtStage(t, "again")  -> content = Filled(t) /\ found[t] = content \cap Colliding(key(t))
    [] OTHER                -> TRUE

(* Those of a key whose hash no other key in the map has.                  *)
LEMMA ByKey ==
  ASSUME MInv, NEW t \in Threads, Answers(t), Undisputed(t), NEW content, DidByHash(t, content),
         AtStage(t, "again") => began[t] \cap Entries(key(t)) = {}
  PROVE  Did(t, content)
<1>1. CASE op[t].stage \in {"put", "remove", "seek", "again"}
  <2>1. key(t) \in Keys /\ (AtStage(t, "again") => op[t].item \in Colliding(key(t)))
    BY <1>1, KeyKnown DEF AtStage
  <2>2. Same(t) = began[t] \cap Entries(key(t))
    BY <2>1, Closures DEF Same, Undisputed
  <2>3. CASE AtStage(t, "again")
    BY <2>1, <2>2, <2>3 DEF DidByHash, Did, Filled, Same, AtStage
  <2> QED
    BY <1>1, <2>2, <2>3 DEF DidByHash, Did, AtStage
<1> QED
  BY <1>1 DEF Did, AtStage

(* What is behind a call of a lone updater, when it has ended.             *)
LEMMA DoneByHash ==
  ASSUME NEW w \in Threads, WInv(w), At(w, "idle"), ~Pending(w)
  PROVE  DidByHash(w, Listed)
<1>1. Updates(w)
  BY DEF WInv
<1>2. op[w].stage \in {"evict", "remove"} => found[w] = Same(w) /\ Listed = began[w] \ Same(w)
  BY <1>1 DEF Updates, Removing
<1>3. AtStage(w, "put") =>
        found[w] = Same(w) /\ Listed = (began[w] \ Same(w)) \cup {op[w].item}
  BY <1>1 DEF Updates, Putting
<1>4. AtStage(w, "seek") => found[w] = began[w] \cap Entries(key(w)) /\ Listed = began[w]
  BY <1>1 DEF Updates, Looking
<1>5. AtStage(w, "again") => Listed = Filled(w) /\ found[w] = Listed \cap Colliding(key(w))
  BY <1>1 DEF Updates, Looking
<1> QED
  BY <1>2, <1>3, <1>4, <1>5 DEF DidByHash, AtStage

(* What the calls of a thread do that alone updates the map, beside any    *)
(* number that read it, when they begin with no other key of the hash in   *)
(* the map: insert replaces the entry of the key and answers for it,       *)
(* though it removes and pushes in two list calls; remove takes it;        *)
(* compute_if_absent answers it, or else the new one.                      *)
THEOREM WriterServed == MapSpec => []WriterAnswers
<1> DEFINE Inv == \A w \in Threads : SoleWriter(w) => WInv(w)
<1>1. MapInit => Inv
  BY UpdatesInit
<1>2. Inv /\ [MapNext]_mapVars => Inv'
  BY UpdatesStep DEF SoleWriter
<1>3. Inv => WriterAnswers
  <2> SUFFICES ASSUME Inv, NEW w \in Threads, Answers(w), SoleWriter(w), Undisputed(w)
               PROVE  Did(w, Listed)
    BY DEF WriterAnswers
  <2>1. WInv(w) /\ MInv /\ At(w, "idle")
    BY DEF WInv, UInv, Answers
  <2>2. ~Pending(w)
    BY <2>1, MethodAt DEF MInv, GInv, Pending, Pushes, At
  <2>3. DidByHash(w, Listed)
    BY <2>1, <2>2, DoneByHash
  <2>4. AtStage(w, "again") => began[w] \cap Entries(key(w)) = {}
    BY <2>1 DEF WInv, Updates, AtStage
  <2> QED
    BY <2>1, <2>3, <2>4, ByKey
<1> QED
  BY <1>1, <1>2, <1>3, PTL DEF MapSpec

(* The unwrap of compute_if_absent never fails for that thread, and its    *)
(* last find does not panic either.                                        *)
THEOREM ComputeSafe == MapSpec => []ComputeNeverPanics
<1> DEFINE Inv == \A w \in Threads : SoleWriter(w) => WInv(w)
<1>1. MapInit => Inv
  BY UpdatesInit
<1>2. Inv /\ [MapNext]_mapVars => Inv'
  BY UpdatesStep DEF SoleWriter
<1>3. Inv => ComputeNeverPanics
  BY DEF WInv, Updates, Looking, ComputeNeverPanics
<1> QED
  BY <1>1, <1>2, <1>3, PTL DEF MapSpec
=============================================================================
