----------------------- MODULE SharedListAtomicProofs -----------------------
(***************************************************************************)
(* Proofs about SharedList: where the threads that write keep out of each  *)
(* other's way, what the cells point to is one path without a cycle that   *)
(* each store extends or shortens by one node, and no find overlooks what  *)
(* stays.  This holds for threads that push and pop but do not remove, in  *)
(* a list without an order function, and in any list that one thread       *)
(* writes; any number of others read.                                      *)
(***************************************************************************)
EXTENDS SharedListProofs, SharedListPaths

(* The clients.                                                            *)
StackClients == ~Ordered /\ \A t \in Threads : "remove_count" \notin OpsOf[t]
Sole(w) ==
  \A t \in Threads \ {w} : ItemsOf[t] = {} /\ OpsOf[t] \subseteq {"find"}
OneWriter == \E w \in Threads : Sole(w)

(* What they do.                                                           *)
Allowed ==
  \A t \in Threads :
    \/ Doing(t, "none") \/ call[t].method \in OpsOf[t]
    \/ ItemsOf[t] # {} /\ call[t].method \in Pushes \cup {"pushSkipped"}

Writes(t) == call[t].method \notin {"none", "find"}
Apart ==
  \/ \E w \in Threads : \A t \in Threads \ {w} : ~Writes(t)
  \/ ~Ordered /\ \A t \in Threads : ~Doing(t, "remove_count")

(* A writer between create_lock and its last store, and an iter_mut that   *)
(* holds a copy of what its cell points to.                                *)
Busy(t) ==
  /\ call[t].method \in {"pushHead", "pushOrdered", "pop", "remove_count"}
  /\ \/ pc[t] \in {"testWait", "test", "getWait", "getTest", "getLoad", "noneq", "reload", "next",
                   "popCount", "store", "removeCount", "move", "setLock", "setImm", "setStore"}
     \/ At(t, "lock") /\ cur(t) # head
Copying(t) == Doing(t, "iter_mut") /\ pc[t] \in {"getWait", "getTest", "getLoad", "mutDrop"}

(* One of them stores into a cell at a time.                               *)
Alone ==
  \A t \in Threads : Busy(t) =>
    \A u \in Threads \ {t} : ~Busy(u) /\ (Copying(u) => cur(u) # cur(t))

(* The locals that have not been set yet, and the methods that stay at the *)
(* head.                                                                   *)
Fresh ==
  \A t \in Threads :
    /\ \/ pc[t] \in {"idle", "decideWait", "decide"}
       \/ call[t].method \in {"pop", "pushHead"} /\ pc[t] \in {"lock", "testWait", "test"}
       \/ Doing(t, "pushOrdered") /\ At(t, "lock")
       => reg[t] = NoReg
    /\ call[t].method \in {"pop", "pushHead"} => cur(t) = head
    /\ /\ Doing(t, "iter_mut")
       /\ pc[t] \in {"testWait", "test", "mutWait", "mutTest", "mutLock", "mutLoad"}
       => reg[t].ptr = Null

(* The copy that a MutCowData stores when it is dropped is of the node that*)
(* its cell points to already.                                             *)
Copies == \A t \in Threads : Copying(t) => reg[t].ptr = inner[cur(t)]

(* The listed nodes are a path.                                            *)
Shape == Path(inner, head, Listing)
Linked(c) == c = head \/ c \in ToSet(Listing)

(* What a writer has found at its cell is still there.                     *)
TakesNode(t) ==
  \/ pc[t] \in {"noneq", "next", "move", "popCount"}
  \/ At(t, "store") /\ call[t].method \in {"pop", "remove_count"}
Found ==
  \A t \in Threads : Busy(t) =>
    /\ Linked(cur(t))
    /\ pc[t] \in {"getWait", "getTest", "getLoad"} => inner[cur(t)] # Null
    /\ TakesNode(t) => reg[t].node = inner[cur(t)] /\ inner[cur(t)] # Null
    /\ TakesNode(t) /\ pc[t] \in {"popCount", "store"} => reg[t].ptr = inner[reg[t].node]
    /\ At(t, "store") /\ call[t].method \in Pushes => reg[t].ptr = inner[cur(t)]
    /\ pc[t] \in {"setLock", "setImm", "setStore"} => inner[cur(t)] = Null

(* What the order function compares is that of the items, in every cell    *)
(* and wherever a method carries it, until a client has changed it.        *)
Carrying(t) ==
  pc[t] \in {"popCount", "store"}
    \/ (Doing(t, "iter_mut") /\ pc[t] \in {"getWait", "getTest", "getLoad", "mutDrop"})
Ranked ==
  ~edited =>
    /\ \A c \in Cells : inner[c] # Null => rank[c] = Key[inner[c]]
    /\ \A t \in Threads :
         /\ At(t, "noneq") => reg[t].rank = Key[reg[t].node]
         /\ Carrying(t) /\ reg[t].ptr # Null => reg[t].rank = Key[reg[t].ptr]

(* Where a push of an ordered list has come to.                            *)
Below(t, i) == Key[i] <= Key[call[t].item] /\ (enforce => Key[i] # Key[call[t].item])
OrderKnown ==
  Ordered /\ ~edited =>
    \A t \in Threads :
      /\ Doing(t, "pushOrdered") /\ Busy(t) =>
           /\ cur(t) = head \/ Below(t, cur(t))
           /\ At(t, "move") => Below(t, reg[t].node)
           /\ pc[t] \in {"reload", "store"} =>
                inner[cur(t)] # Null /\ Key[call[t].item] < Key[inner[cur(t)]]
      /\ Doing(t, "pushHead") /\ pc[t] \in {"lock", "testWait", "test", "reload", "store"} =>
           inner[head] = Null

(* A find is on a path to everything it must not overlook.                 *)
Reading(t) == Doing(t, "find") /\ pc[t] \in {"testWait", "test", "getWait", "getTest", "getLoad"}
Sees(t, s) == Path(inner, cur(t), s) /\ kept[t] \cap call[t].want \subseteq ToSet(s)
ReaderSees == \A t \in Threads : Reading(t) => \E s \in Seq(Items) : Sees(t, s)

(* The invariant of these clients, on top of TInv, GInv and, if there is   *)
(* no order function, LInv.                                                *)
BInv == TInv /\ GInv /\ (~Ordered => LInv) /\ Apart
AInv ==
  /\ Fresh /\ Copies /\ Shape /\ Found /\ ReaderSees
  /\ Ranked /\ OrderKnown /\ LinksAscend

-----------------------------------------------------------------------------
(* The writers.                                                            *)

(* What a store does to the cells: it links a new node behind cur, or      *)
(* skips the node after cur.                                               *)
Inserts(t) ==
  /\ PushStore(t) \/ SetStore(t)
  /\ Busy(t) /\ Pending(t)
  /\ call[t].item \in Items /\ Nowhere(call[t].item)
  /\ inner' = [inner EXCEPT ![call[t].item] = inner[cur(t)], ![cur(t)] = call[t].item]
Removes(t) ==
  /\ PopStore(t) \/ RemoveStore(t)
  /\ Busy(t)
  /\ inner[cur(t)] \in Items /\ reg[t].node = inner[cur(t)]
  /\ inner' = [inner EXCEPT ![cur(t)] = inner[inner[cur(t)]]]

(* The methods that come to a place.                                       *)
LEMMA MethodAt ==
  ASSUME OnPath, NEW t \in Threads
  PROVE  /\ pc[t] = "idle" => call[t].method = "none"
         /\ pc[t] \in {"decideWait", "decide", "noneq", "setLock", "setImm", "setStore", "setFreeImm",
                      "setFreeMut"} => call[t].method = "pushOrdered"
         /\ pc[t] = "lock" =>
              call[t].method \in {"pushHead", "pushOrdered", "pop", "remove_count"}
         /\ pc[t] \in {"testWait", "test"} => call[t].method \in
              {"pushHead", "pushOrdered", "pop", "remove_count", "find", "iter_mut"}
         /\ pc[t] \in {"getWait", "getTest", "getLoad"} => call[t].method \in
              {"pushOrdered", "pop", "remove_count", "find", "iter_mut"}
         /\ pc[t] \in {"mutWait", "mutTest", "mutLock", "mutLoad", "mutDrop"} =>
              call[t].method = "iter_mut"
         /\ pc[t] = "reload" => call[t].method \in {"pushHead", "pushOrdered"}
         /\ pc[t] = "next" => call[t].method \in {"pop", "remove_count"}
         /\ pc[t] = "popCount" => call[t].method = "pop"
         /\ pc[t] = "store" =>
              call[t].method \in {"pushHead", "pushOrdered", "pop", "remove_count"}
         /\ pc[t] = "removeCount" => call[t].method = "remove_count"
         /\ pc[t] = "move" => call[t].method \in {"pushOrdered", "remove_count"}
         /\ pc[t] = "unlock" => call[t].method \in
              {"pushHead", "pushOrdered", "pushSkipped", "pop", "remove_count"}
         /\ pc[t] = "pushCount" => call[t].method \in {"pushHead", "pushOrdered"}
         /\ call[t].method \in {"pushOrdered", "pushSkipped"} => Ordered
BY DEF OnPath, Doing, At

(* Two writers of these clients are never busy at a time: there is one     *)
(* only, or all of them hold the lock of the head.                         *)
LEMMA AloneHolds ==
  ASSUME BInv, Fresh
  PROVE  Alone
<1>1. CASE \E w \in Threads : \A t \in Threads \ {w} : ~Writes(t)
  <2>1. \A t \in Threads : Busy(t) \/ Copying(t) => Writes(t)
    BY DEF Busy, Copying, Writes, Doing
  <2> QED
    BY <1>1, <2>1 DEF Alone
<1>2. CASE ~Ordered /\ \A t \in Threads : ~Doing(t, "remove_count")
  <2>1. ASSUME NEW t \in Threads, Busy(t)
        PROVE  Holding(t) /\ cur(t) = head
    <3>1. call[t].method \in {"pop", "pushHead"} /\ cur(t) = head
      BY <1>2, <2>1, MethodAt DEF BInv, GInv, Busy, Doing, Fresh
    <3>2. pc[t] \in {"testWait", "test", "getWait", "getTest", "getLoad", "reload", "next",
                   "popCount", "store"}
      BY <2>1, <3>1, MethodAt DEF BInv, GInv, Busy
    <3> QED
      BY <3>1, <3>2 DEF Holding
  <2>2. \A t \in Threads : Copying(t) => Holding(t)
    BY DEF Copying, Holding
  <2>3. \A t, u \in Threads : t # u /\ Holding(t) /\ Holding(u) => cur(u) # cur(t)
    BY <1>2 DEF BInv, LInv, OneHolder
  <2> QED
    BY <2>1, <2>2, <2>3 DEF Alone
<1> QED
  BY <1>1, <1>2 DEF BInv, Apart

(* A method sets its locals where it says.                                 *)
LEMMA FreshStep ==
  ASSUME TInv, OnPath, Fresh, NEW t \in Threads, Proceed(t)
  PROVE  Fresh'
<1>. \A u \in Threads \ {t} :
       pc'[u] = pc[u] /\ call'[u] = call[u] /\ reg'[u] = reg[u]
  BY Elsewhere DEF TInv
<1>. /\ pc \in [Threads -> Places] /\ call \in [Threads -> Calls]
     /\ reg \in [Threads -> Regs]
  BY DEF TInv, TypeOK
<1>. /\ \/ pc[t] \in {"idle", "decideWait", "decide"}
        \/ call[t].method \in {"pop", "pushHead"} /\ pc[t] \in {"lock", "testWait", "test"}
        \/ call[t].method = "pushOrdered" /\ pc[t] = "lock"
        => reg[t] = NoReg
     /\ call[t].method \in {"pop", "pushHead"} => reg[t].cur = head
     /\ /\ call[t].method = "iter_mut"
        /\ pc[t] \in {"testWait", "test", "mutWait", "mutTest", "mutLock", "mutLoad"}
        => reg[t].ptr = Null
  BY DEF Fresh, At, Doing, cur
<1>. /\ pc[t] \in {"decideWait", "decide"} => call[t].method = "pushOrdered"
     /\ pc[t] \in {"setLock", "setImm", "setStore", "setFreeImm", "setFreeMut"} =>
          call[t].method = "pushOrdered"
     /\ pc[t] = "lock" => call[t].method # "iter_mut"
     /\ pc[t] = "mutDrop" => call[t].method = "iter_mut"
     /\ pc[t] = "removeCount" => call[t].method = "remove_count"
     /\ pc[t] = "move" => call[t].method \in {"pushOrdered", "remove_count"}
     /\ NoReg.cur = head
  BY MethodAt DEF NoReg
<1> SUFFICES
      /\ \/ pc'[t] \in {"idle", "decideWait", "decide"}
         \/ call'[t].method \in {"pop", "pushHead"} /\ pc'[t] \in {"lock", "testWait", "test"}
         \/ call'[t].method = "pushOrdered" /\ pc'[t] = "lock"
         => reg'[t] = NoReg
      /\ call'[t].method \in {"pop", "pushHead"} => reg'[t].cur = head
      /\ /\ call'[t].method = "iter_mut"
         /\ pc'[t] \in {"testWait", "test", "mutWait", "mutTest", "mutLock", "mutLoad"}
         => reg'[t].ptr = Null
  BY DEF Fresh, At, Doing, cur
<1> USE DEF Goto, Step, At, Doing
<1>1. CASE WaitImm(t)
  BY <1>1 DEF WaitImm, Tests
<1>2. CASE Decide(t)
  BY <1>2 DEF Decide, Calls
<1>3. CASE Lock(t) \/ PushStore(t) \/ SetLock(t) \/ SetImm(t)
  BY <1>3 DEF Lock, PushStore, SetLock, SetImm
<1>4. CASE SetStore(t) \/ SetFreeImm(t) \/ SetFreeMut(t) \/ PopCount(t) \/
           PopStore(t) \/ MutLock(t)
  BY <1>4 DEF SetStore, SetFreeImm, SetFreeMut, PopCount, PopStore,
      MutLock
<1>5. CASE LoadNext(t) \/ RemoveStore(t)
  BY <1>5 DEF LoadNext, RemoveStore, Regs
<1>6. CASE RemoveCount(t)
  BY <1>6 DEF RemoveCount, Calls
<1>7. CASE Move(t) \/ FindNext(t)
  BY <1>7 DEF Move, FindNext, Regs
<1>8. CASE Reload(t) \/ MutLoad(t) \/ MutDrop(t)
  BY <1>8 DEF Reload, MutLoad, MutDrop, NoReg, Regs
<1>9. CASE GetTest(t) \/ GetNull(t) \/ GetPanic(t)
  BY <1>9 DEF GetTest, GetNull, GetPanic, NodeGone, Panic
<1>10. CASE PushSkip(t) \/ PushCompare(t)
  BY <1>10 DEF PushSkip, PushCompare, Calls, Regs
<1>11. CASE PushFind(t) \/ PopFind(t)
  BY <1>11 DEF PushFind, PopFind, Got, Regs
<1>12. CASE RemoveFind(t) \/ MutFind(t)
  BY <1>12 DEF RemoveFind, MutFind, Got, Regs
<1>13. CASE Test(t)
  BY <1>13 DEF Test, Return, AtEnd, AtNode, NoCall
<1>14. CASE PushCount(t) \/ Unlock(t) \/ FindHit(t)
  BY <1>14 DEF PushCount, Unlock, FindHit, Return, NoCall, Pushes
<1> QED
  BY <1>1, <1>2, <1>3, <1>4, <1>5, <1>6, <1>7, <1>8, <1>9, <1>10, <1>11,
     <1>12, <1>13, <1>14 DEF Proceed

(* The store of a push links its node, those of pop and remove_count skip  *)
(* the one they have found, and a MutCowData stores what is there already. *)
LEMMA StoreEffect ==
  ASSUME TInv, GInv, Fresh, Copies, Found, NEW t \in Threads, Proceed(t)
  PROVE  /\ inner' = inner \/ Inserts(t) \/ Removes(t)
         /\ PushStore(t) \/ SetStore(t) => Inserts(t)
         /\ PopStore(t) \/ RemoveStore(t) => Removes(t)
<1>. CellsType /\ cur(t) \in Cells /\ reg[t].cur = cur(t)
  BY DEF TInv, TypeOK, Regs, cur
<1>. [inner EXCEPT ![cur(t)] = inner[cur(t)]] = inner
  BY DEF CellsType
<1>. inner[cur(t)] # Null => inner[cur(t)] \in Items
  BY DEF CellsType, Nodes
<1>1. ASSUME PushStore(t) \/ SetStore(t)
      PROVE  Inserts(t)
  <2>1. /\ Pending(t) /\ call[t].method \in Pushes
        /\ pc[t] = IF PushStore(t) THEN "store" ELSE "setStore"
    BY <1>1, PendingKept DEF GInv, Pending, PushStore, SetStore, Step, At
  <2>2. Busy(t)
    BY <2>1 DEF Busy, Pushes
  <2>3. call[t].item \in Items /\ Nowhere(call[t].item)
    BY <2>1 DEF GInv, PendingNowhere
  <2>4. CASE PushStore(t)
    <3>1. reg[t].ptr = inner[cur(t)]
      BY <2>1, <2>2, <2>4 DEF Found, At
    <3>2. inner' = [inner EXCEPT ![call[t].item] = reg[t].ptr, ![cur(t)] = call[t].item]
      BY <2>4 DEF PushStore
    <3> QED
      BY <1>1, <2>1, <2>2, <2>3, <3>1, <3>2 DEF Inserts
  <2>5. CASE ~PushStore(t)
    <3>1. inner[cur(t)] = Null
      BY <2>1, <2>2, <2>5 DEF Found
    <3>2. inner' = [inner EXCEPT ![call[t].item] = Null, ![cur(t)] = call[t].item]
      BY <1>1, <2>5 DEF SetStore
    <3> QED
      BY <1>1, <2>1, <2>2, <2>3, <3>1, <3>2 DEF Inserts
  <2> QED
    BY <2>4, <2>5
<1>2. ASSUME PopStore(t) \/ RemoveStore(t)
      PROVE  Removes(t)
  <2>1. pc[t] = "store" /\ call[t].method \in {"pop", "remove_count"}
    BY <1>2 DEF PopStore, RemoveStore, Step, At, Doing
  <2>2. Busy(t) /\ TakesNode(t)
    BY <2>1 DEF Busy, TakesNode, At
  <2>3. reg[t].node = inner[cur(t)] /\ inner[cur(t)] # Null /\ reg[t].ptr = inner[reg[t].node]
    BY <2>1, <2>2 DEF Found
  <2>4. inner' = [inner EXCEPT ![cur(t)] = reg[t].ptr]
    BY <1>2 DEF PopStore, RemoveStore, StoreNode, Store
  <2> QED
    BY <1>2, <2>2, <2>3, <2>4 DEF Removes
<1>3. ASSUME MutDrop(t)
      PROVE  inner' = inner
  <2>1. Copying(t)
    BY <1>3, MethodAt DEF MutDrop, Copying, Step, At, Doing, GInv
  <2> QED
    BY <1>3, <2>1 DEF MutDrop, StoreNode, Store, Copies
<1>4. ASSUME GetTest(t) \/ GetNull(t) \/ GetPanic(t)
      PROVE  inner' = inner
  <2>1. CASE inner' # inner
    <3>1. /\ Doing(t, "iter_mut") /\ reg[t].ptr # Null
          /\ inner' = [inner EXCEPT ![cur(t)] = reg[t].ptr]
      BY <1>4, <2>1 DEF GetTest, GetNull, GetPanic, Panic, StoreNode, Store, cells
    <3>2. pc[t] \in {"getTest", "mutTest", "getLoad", "mutDrop"}
      BY <1>4 DEF GetTest, GetNull, GetPanic
    <3>3. Copying(t)
      BY <3>1, <3>2 DEF Fresh, Copying
    <3> QED
      BY <3>1, <3>3 DEF Copies
  <2> QED
    BY <2>1
<1> QED
  BY <1>1, <1>2, <1>3, <1>4, InnerKept

(* The list that a store leaves behind.                                    *)
LEMMA Inserted ==
  ASSUME TInv, Shape, NEW t \in Threads, Inserts(t), Linked(cur(t))
  PROVE  \E p \in 0 .. Len(Listing) :
           /\ cur(t) = Cell(head, Listing, p)
           /\ Listing' = InsertAt(Listing, p + 1, call[t].item)
           /\ Path(inner', head, Listing')
           /\ Len(Listing') = Len(Listing) + 1
           /\ call[t].item \notin ToSet(Listing)
           /\ ToSet(Listing') = ToSet(Listing) \cup {call[t].item}
<1> DEFINE i == call[t].item
           s == Listing
<1>1. /\ inner \in [Cells -> Nodes] /\ head \in Cells /\ i \in Items /\ i # head
      /\ inner' = [inner EXCEPT ![i] = inner[cur(t)], ![cur(t)] = i]
      /\ \A c \in Cells : inner[c] # i
  BY ListAssumption DEF TInv, TypeOK, CellsType, Cells, Inserts, Nowhere
<1>2. Path(inner, head, s) /\ s \in Seq(Items)
  BY DEF Shape, Path
<1>3. PICK p \in 0 .. Len(s) : cur(t) = Cell(head, s, p)
  BY <1>1, <1>2, PathCells DEF Linked
<1>4. i \notin ToSet(s)
  BY <1>1, <1>2, PathCells
<1> HIDE DEF i, s
<1>5. Path(inner', head, InsertAt(s, p + 1, i))
  BY <1>1, <1>2, <1>3, <1>4, PathInsert
<1>6. ListOf(inner') = InsertAt(s, p + 1, i)
  BY <1>5, PathListed
<1>7. p + 1 \in 1 .. Len(s) + 1
  BY <1>2, LenProperties
<1>8. Len(InsertAt(s, p + 1, i)) = Len(s) + 1
  BY <1>1, <1>2, <1>7, InsertLength
<1>9. ToSet(InsertAt(s, p + 1, i)) = ToSet(s) \cup {i}
  BY <1>1, <1>2, <1>7, InsertSet
<1> QED
  BY <1>3, <1>4, <1>5, <1>6, <1>8, <1>9 DEF s, i, Listing

(* ... of a pop or remove_count.                                           *)
LEMMA Removed ==
  ASSUME TInv, Shape, NEW t \in Threads, Removes(t), Linked(cur(t))
  PROVE  \E p \in 0 .. Len(Listing) - 1 :
           /\ cur(t) = Cell(head, Listing, p)
           /\ inner[cur(t)] = Listing[p + 1]
           /\ Listing' = RemoveAt(Listing, p + 1)
           /\ Path(inner', head, Listing')
           /\ Len(Listing') = Len(Listing) - 1
           /\ inner[cur(t)] \in ToSet(Listing)
           /\ ToSet(Listing') = ToSet(Listing) \ {inner[cur(t)]}
           /\ \A k \in 1 .. p : Listing'[k] = Listing[k]
<1> DEFINE s == Listing
<1>1. /\ inner \in [Cells -> Nodes] /\ head \in Cells /\ inner[cur(t)] \in Items
      /\ inner' = [inner EXCEPT ![cur(t)] = inner[inner[cur(t)]]]
      /\ inner[cur(t)] # Null
  BY ListAssumption DEF TInv, TypeOK, CellsType, Cells, Removes
<1>2. Path(inner, head, s) /\ s \in Seq(Items) /\ Len(s) \in Nat
  BY LenProperties DEF Shape, Path
<1>3. PICK p \in 0 .. Len(s) : cur(t) = Cell(head, s, p)
  BY <1>1, <1>2, PathCells DEF Linked
<1> HIDE DEF s
<1>4. p < Len(s) /\ inner[cur(t)] = s[p + 1]
  BY <1>1, <1>2, <1>3, PathCells
<1>5. p \in 0 .. Len(s) - 1
  BY <1>2, <1>4
<1>6. Path(inner', head, RemoveAt(s, p + 1))
  BY <1>1, <1>2, <1>3, <1>4, <1>5, PathRemove
<1>7. ListOf(inner') = RemoveAt(s, p + 1)
  BY <1>6, PathListed
<1>8. /\ Len(RemoveAt(s, p + 1)) = Len(s) - 1
      /\ \A k \in 1 .. p : RemoveAt(s, p + 1)[k] = s[k]
  BY <1>2, <1>5, RemoveAtEntries
<1>9. ToSet(RemoveAt(s, p + 1)) = ToSet(s) \ {s[p + 1]}
  <2>1. \A j, k \in 1 .. Len(s) : s[j] = s[k] => j = k
    BY <1>2, PathFacts
  <2> QED
    BY <1>2, <1>5, <2>1, RemoveSet
<1>10. s[p + 1] \in ToSet(s)
  <2>1. p + 1 \in 1 .. Len(s) /\ DOMAIN s = 1 .. Len(s)
    BY <1>2, <1>5, LenProperties
  <2> QED
    BY <2>1 DEF ToSet
<1> QED
  BY <1>3, <1>4, <1>5, <1>6, <1>7, <1>8, <1>9, <1>10 DEF s, Listing

(* The cells stay as they are while another thread is busy.                *)
LEMMA BusyAlone ==
  ASSUME BInv, Fresh, Copies, Found, NEW t \in Threads, Proceed(t),
         NEW u \in Threads \ {t}, Busy(u)
  PROVE  inner' = inner
<1>1. ~Busy(t)
  BY AloneHolds DEF Alone
<1> QED
  BY <1>1, StoreEffect DEF BInv, Inserts, Removes

(* A MutCowData guard keeps its copy of a cell that nobody else stores to. *)
LEMMA CopiesStep ==
  ASSUME BInv, Fresh, Copies, Found, NEW t \in Threads, Proceed(t)
  PROVE  Copies'
<1>. TInv /\ GInv /\ OnPath
  BY DEF BInv, GInv
<1>. \A u \in Threads \ {t} :
       pc'[u] = pc[u] /\ call'[u] = call[u] /\ reg'[u] = reg[u]
  BY Elsewhere DEF TInv
<1>. /\ pc \in [Threads -> Places] /\ call \in [Threads -> Calls]
     /\ reg \in [Threads -> Regs]
  BY DEF TInv, TypeOK
<1>. CellsType /\ \A u \in Threads : reg[u].cur \in Cells /\ cur(u) = reg[u].cur
  BY DEF TInv, TypeOK, Regs, cur
<1>1. ASSUME NEW u \in Threads \ {t}, Copying(u)
      PROVE  reg[u].ptr = inner'[reg[u].cur]
  <2>1. reg[u].ptr = inner[reg[u].cur]
    BY <1>1 DEF Copies
  <2>2. CASE inner' = inner
    BY <2>1, <2>2
  <2>3. CASE Inserts(t)
    <3>1. reg[u].cur # call[t].item /\ reg[u].cur # reg[t].cur
      BY <1>1, <2>3, AloneHolds DEF Inserts, Nowhere, Alone
    <3> QED
      BY <2>1, <2>3, <3>1 DEF Inserts, CellsType
  <2>4. CASE Removes(t)
    <3>1. reg[u].cur # reg[t].cur
      BY <1>1, <2>4, AloneHolds DEF Removes, Alone
    <3> QED
      BY <2>1, <2>4, <3>1 DEF Removes, CellsType
  <2> QED
    BY <2>2, <2>3, <2>4, StoreEffect
<1>2. ASSUME call'[t].method = "iter_mut", pc'[t] \in {"getWait", "getTest", "getLoad", "mutDrop"}
      PROVE  reg'[t].ptr = inner'[reg'[t].cur]
  <2>. call[t].method = "iter_mut" /\ pc[t] \in {"getWait", "getTest", "getLoad", "mutDrop"}
         => reg[t].ptr = inner[reg[t].cur]
    BY DEF Copies, Copying, Doing
  <2>. pc[t] = "mutLoad" => call[t].method = "iter_mut"
    BY MethodAt
  <2> USE <1>2 DEF Goto, Step, At, Doing, cells
  <2>1. CASE WaitImm(t)
    BY <2>1 DEF WaitImm, Tests
  <2>2. CASE Decide(t) \/ Lock(t) \/ PushStore(t) \/ SetLock(t) \/ SetImm(t)
    BY <2>2 DEF Decide, Lock, PushStore, SetLock, SetImm, Calls
  <2>3. CASE SetStore(t) \/ SetFreeImm(t) \/ SetFreeMut(t) \/ PopCount(t) \/
             PopStore(t) \/ MutLock(t)
    BY <2>3 DEF SetStore, SetFreeImm, SetFreeMut, PopCount, PopStore,
        MutLock
  <2>4. CASE LoadNext(t) \/ RemoveStore(t) \/ RemoveCount(t)
    BY <2>4 DEF LoadNext, RemoveStore, RemoveCount, Calls
  <2>5. CASE Move(t) \/ FindNext(t) \/ MutDrop(t)
    BY <2>5 DEF Move, FindNext, MutDrop
  <2>6. CASE Reload(t)
    BY <2>6 DEF Reload
  <2>7. CASE MutLoad(t)
    BY <2>7 DEF MutLoad, Regs
  <2>8. CASE GetTest(t) \/ GetNull(t)
    BY <2>8 DEF GetTest, GetNull, Panic
  <2>9. CASE GetPanic(t)
    BY <2>9 DEF GetPanic, NodeGone, Panic
  <2>10. CASE PushSkip(t) \/ PushCompare(t)
    BY <2>10 DEF PushSkip, PushCompare, Calls
  <2>11. CASE PushFind(t) \/ PopFind(t) \/ RemoveFind(t)
    BY <2>11 DEF PushFind, PopFind, RemoveFind, Got
  <2>12. CASE MutFind(t)
    BY <2>12 DEF MutFind, Got, Regs
  <2>13. CASE Test(t)
    BY <2>13 DEF Test, Return, AtEnd, AtNode, NoCall
  <2>14. CASE PushCount(t) \/ Unlock(t) \/ FindHit(t)
    BY <2>14 DEF PushCount, Unlock, FindHit, Return, NoCall, Pushes
  <2> QED
    BY <2>1, <2>2, <2>3, <2>4, <2>5, <2>6, <2>7, <2>8, <2>9, <2>10, <2>11,
       <2>12, <2>13, <2>14 DEF Proceed
<1> QED
  BY <1>1, <1>2 DEF Copies, Copying, Doing, At, cur

(* The listed nodes remain a path.                                         *)
LEMMA ShapeStep ==
  ASSUME BInv, Fresh, Copies, Found, Shape, NEW t \in Threads, Proceed(t)
  PROVE  Shape'
<1>1. CASE inner' = inner
  BY <1>1 DEF Shape, Listing
<1>2. CASE Inserts(t)
  BY <1>2, Inserted DEF Shape, Found, Inserts, BInv
<1>3. CASE Removes(t)
  BY <1>3, Removed DEF Shape, Found, Removes, BInv
<1> QED
  BY <1>1, <1>2, <1>3, StoreEffect DEF BInv

(* What a linked cell points to is listed.                                 *)
LEMMA NextListed ==
  ASSUME TInv, Shape, NEW c, Linked(c), inner[c] # Null
  PROVE  inner[c] \in ToSet(Listing)
<1> DEFINE s == Listing
<1>1. Path(inner, head, s) /\ head \in Cells
  BY DEF Shape, Cells
<1>. c = head \/ c \in ToSet(s)
  BY DEF Linked
<1> HIDE DEF s
<1>2. PICK p \in 0 .. Len(s) : c = Cell(head, s, p)
  <2>1. \A d : d = head \/ d \in ToSet(s) <=> \E p \in 0 .. Len(s) : d = Cell(head, s, p)
    BY <1>1, PathCells
  <2> QED
    BY <2>1
<1>3. p < Len(s) /\ inner[c] = s[p + 1] /\ Len(s) \in Nat
  BY <1>1, <1>2, PathCells, PathFacts
<1>4. p + 1 \in 1 .. Len(s)
  BY <1>3
<1>5. s[p + 1] \in ToSet(s)
  BY <1>1, <1>4, PathFacts
<1> QED
  BY <1>3, <1>5 DEF s

(* The cell that remove_count has stored to is still linked.               *)
LEMMA StillLinked ==
  ASSUME TInv, Shape, NEW t \in Threads, Removes(t), Linked(cur(t))
  PROVE  cur(t) = head \/ cur(t) \in ToSet(Listing')
<1>1. PICK p \in 0 .. Len(Listing) - 1 :
        /\ cur(t) = Cell(head, Listing, p)
        /\ Path(inner', head, Listing')
        /\ Len(Listing') = Len(Listing) - 1
        /\ \A k \in 1 .. p : Listing'[k] = Listing[k]
  BY Removed
<1>2. Len(Listing') \in Nat
  BY <1>1, PathFacts
<1>3. p \in 0 .. Len(Listing')
  BY <1>1, <1>2
<1>4. cur(t) = Cell(head, Listing', p)
  BY <1>1, <1>3 DEF Cell
<1>5. head \in Cells
  BY DEF Cells
<1> QED
  BY <1>1, <1>3, <1>4, <1>5, PathCells

(* What a writer has found at its cell stays there: nobody else is busy.   *)
LEMMA FoundStep ==
  ASSUME BInv, Fresh, Copies, Found, Shape, NEW t \in Threads, Proceed(t)
  PROVE  Found'
<1>. TInv /\ GInv /\ OnPath
  BY DEF BInv, GInv
<1>. \A u \in Threads \ {t} :
       pc'[u] = pc[u] /\ call'[u] = call[u] /\ reg'[u] = reg[u]
  BY Elsewhere DEF TInv
<1>. /\ pc \in [Threads -> Places] /\ call \in [Threads -> Calls]
     /\ reg \in [Threads -> Regs]
  BY DEF TInv, TypeOK
<1> DEFINE Writer(m) == m \in {"pushHead", "pushOrdered", "pop", "remove_count"}
           At1(p) == p \in {"testWait", "test", "getWait", "getTest", "getLoad", "noneq", "reload", "next",
                   "popCount", "store", "removeCount", "move", "setLock", "setImm", "setStore"}
           Takes(p, m) ==
             \/ p \in {"noneq", "next", "move", "popCount"}
             \/ p = "store" /\ m \in {"pop", "remove_count"}
           Facts(p, m, r, next) ==
             /\ p \in {"getWait", "getTest", "getLoad"} => next[r.cur] # Null
             /\ Takes(p, m) => r.node = next[r.cur] /\ next[r.cur] # Null
             /\ Takes(p, m) /\ p \in {"popCount", "store"} => r.ptr = next[r.node]
             /\ p = "store" /\ m \in {"pushHead", "pushOrdered"} => r.ptr = next[r.cur]
             /\ p \in {"setLock", "setImm", "setStore"} => next[r.cur] = Null
<1>1. \A u \in Threads :
        (Busy(u) <=>
           /\ Writer(call[u].method)
           /\ At1(pc[u]) \/ (pc[u] = "lock" /\ reg[u].cur # head))
  BY DEF Busy, At, cur
<1>2. \A u \in Threads :
        (Busy(u)' <=>
           /\ Writer(call'[u].method)
           /\ At1(pc'[u]) \/ (pc'[u] = "lock" /\ reg'[u].cur # head))
  BY DEF Busy, At, cur
<1>3. \A u \in Threads : Busy(u) =>
        Facts(pc[u], call[u].method, reg[u], inner) /\ Linked(reg[u].cur)
  BY DEF Found, TakesNode, At, cur, Pushes
<1>4. SUFFICES \A u \in Threads : Busy(u)' =>
        /\ Facts(pc'[u], call'[u].method, reg'[u], inner')
        /\ reg'[u].cur = head \/ reg'[u].cur \in ToSet(Listing')
  BY DEF Found, TakesNode, At, cur, Pushes, Linked
<1>5. ASSUME NEW u \in Threads \ {t}, Busy(u)'
      PROVE  /\ Facts(pc'[u], call'[u].method, reg'[u], inner')
             /\ reg'[u].cur = head \/ reg'[u].cur \in ToSet(Listing')
  <2> HIDE DEF Facts, Writer, At1
  <2>1. Busy(u) /\ pc'[u] = pc[u] /\ call'[u] = call[u] /\ reg'[u] = reg[u]
    BY <1>1, <1>2, <1>5
  <2>2. inner' = inner /\ Listing' = Listing
    BY <2>1, BusyAlone, SMTT(30) DEF Listing
  <2> QED
    BY <1>3, <2>1, <2>2 DEF Linked
<1>6. ASSUME Writer(call'[t].method), At1(pc'[t]) \/ (pc'[t] = "lock" /\ reg'[t].cur # head)
      PROVE  /\ Facts(pc'[t], call'[t].method, reg'[t], inner')
             /\ reg'[t].cur = head \/ reg'[t].cur \in ToSet(Listing')
  <2>. /\ Writer(call[t].method) /\ (At1(pc[t]) \/ (pc[t] = "lock" /\ reg[t].cur # head))
         => Facts(pc[t], call[t].method, reg[t], inner)
            /\ (reg[t].cur = head \/ reg[t].cur \in ToSet(Listing))
       /\ inner' = inner => Listing' = Listing
    BY <1>1, <1>3 DEF Linked, Listing
  <2>. /\ pc[t] \in {"decideWait", "decide"} => reg[t] = NoReg
       /\ call[t].method = "pushHead" /\ pc[t] = "test" => reg[t] = NoReg
       /\ pc[t] = "lock" => Writer(call[t].method)
       /\ pc[t] \in {"setLock", "setImm", "setStore", "setFreeImm", "setFreeMut"} =>
            call[t].method = "pushOrdered"
       /\ pc[t] = "next" => call[t].method \in {"pop", "remove_count"}
       /\ pc[t] = "popCount" => call[t].method = "pop"
       /\ pc[t] \in {"mutLoad", "mutDrop"} => call[t].method = "iter_mut"
       /\ pc[t] = "reload" => call[t].method \in {"pushHead", "pushOrdered"}
       /\ NoReg.cur = head /\ NoReg.ptr = Null
    BY MethodAt DEF Fresh, NoReg, Doing, At
  <2> USE <1>6 DEF Goto, Step, At, Doing, cells, cur
  <2>1. CASE WaitImm(t)
    BY <2>1 DEF WaitImm, Tests
  <2>2. CASE Decide(t)
    BY <2>2 DEF Decide, Calls
  <2>3. CASE Lock(t)
    BY <2>3 DEF Lock
  <2>4. CASE SetLock(t) \/ SetImm(t)
    BY <2>4 DEF SetLock, SetImm
  <2>5. CASE PushStore(t) \/ SetStore(t) \/ PopStore(t)
    BY <2>5 DEF PushStore, SetStore, PopStore
  <2>6. CASE SetFreeImm(t) \/ SetFreeMut(t) \/ MutLock(t)
    BY <2>6 DEF SetFreeImm, SetFreeMut, MutLock
  <2>7. CASE PopCount(t)
    BY <2>7 DEF PopCount
  <2>8. CASE LoadNext(t)
    BY <2>8 DEF LoadNext, Regs
  <2>9. CASE RemoveStore(t)
    <3>1. Removes(t)
      BY <2>9, StoreEffect
    <3>2. Linked(cur(t))
      BY <3>1 DEF Found, Removes
    <3>3. cur(t) = head \/ cur(t) \in ToSet(Listing')
      BY <3>1, <3>2, StillLinked
    <3>4. reg'[t].cur = reg[t].cur /\ pc'[t] = "removeCount"
      BY <2>9 DEF RemoveStore, Regs
    <3> QED
      BY <3>3, <3>4
  <2>10. CASE RemoveCount(t)
    BY <2>10 DEF RemoveCount, Calls
  <2>11. CASE Move(t)
    <3>1. inner' = inner /\ pc[t] = "move" /\ call' = call /\ reg'[t].cur = reg[t].node
      BY <2>11 DEF Move, Regs
    <3>2. reg[t].node = inner[cur(t)] /\ inner[cur(t)] # Null /\ Linked(cur(t))
      BY <3>1 DEF Linked
    <3>3. inner[cur(t)] \in ToSet(Listing)
      BY <3>2, NextListed
    <3>4. pc'[t] \in {"lock", "testWait"}
      BY <2>11 DEF Move
    <3> QED
      BY <3>1, <3>2, <3>3, <3>4
  <2>12. CASE FindNext(t) \/ MutDrop(t) \/ MutLoad(t)
    BY <2>12 DEF FindNext, MutDrop, MutLoad
  <2>13. CASE Reload(t)
    BY <2>13 DEF Reload, Regs
  <2>14. CASE GetTest(t) \/ GetNull(t)
    BY <2>14 DEF GetTest, GetNull, Panic, IsNull
  <2>15. CASE GetPanic(t)
    BY <2>15 DEF GetPanic, NodeGone, Panic
  <2>16. CASE PushSkip(t) \/ PushCompare(t)
    BY <2>16 DEF PushSkip, PushCompare, Calls
  <2>17. CASE PushFind(t) \/ PopFind(t) \/ RemoveFind(t) \/ MutFind(t)
    BY <2>17 DEF PushFind, PopFind, RemoveFind, MutFind, Got, Node, Regs
  <2>18. CASE Test(t)
    BY <2>18 DEF Test, Return, AtEnd, AtNode, NoCall, IsNull
  <2>19. CASE PushCount(t) \/ Unlock(t) \/ FindHit(t)
    BY <2>19 DEF PushCount, Unlock, FindHit, Return, NoCall, Pushes
  <2> QED
    BY <2>1, <2>2, <2>3, <2>4, <2>5, <2>6, <2>7, <2>8, <2>9, <2>10, <2>11,
       <2>12, <2>13, <2>14, <2>15, <2>16, <2>17, <2>18, <2>19 DEF Proceed
<1> QED
  <2> HIDE DEF Facts, Writer, At1
  <2> QED
    BY <1>2, <1>5, <1>6

(* Only set_enforce_noneq sets the flag, and a find need not meet an item  *)
(* any longer once a store has taken it out of the list.                   *)
LEMMA KeptNarrows ==
  ASSUME NEW t \in Threads, Proceed(t)
  PROVE  /\ enforce' = enforce /\ (Narrow \/ (kept' = kept /\ inner' = inner))
         /\ MutDrop(t) \/ edited' = edited
<1> USE DEF cells
<1>1. CASE WaitImm(t) \/ Decide(t) \/ Lock(t) \/ Test(t) \/ Reload(t) \/
           SetLock(t) \/ SetImm(t) \/ SetFreeImm(t) \/ SetFreeMut(t)
  BY <1>1 DEF WaitImm, Decide, Lock, Test, Reload, SetLock, SetImm,
      SetFreeImm, SetFreeMut
<1>2. CASE PushCount(t) \/ Unlock(t) \/ LoadNext(t) \/ PopCount(t) \/
           RemoveCount(t) \/ Move(t) \/ FindHit(t) \/ FindNext(t) \/
           MutLock(t) \/ MutLoad(t)
  BY <1>2 DEF PushCount, Unlock, LoadNext, PopCount, RemoveCount, Move,
      FindHit, FindNext, MutLock, MutLoad
<1>3. CASE PushSkip(t) \/ PushCompare(t) \/ PushFind(t) \/ PopFind(t) \/ RemoveFind(t) \/
           MutFind(t)
  BY <1>3 DEF PushSkip, PushCompare, PushFind, PopFind, RemoveFind, MutFind, Got
<1>4. CASE PushStore(t) \/ SetStore(t) \/ PopStore(t) \/ RemoveStore(t) \/
           MutDrop(t)
  BY <1>4 DEF PushStore, SetStore, PopStore, RemoveStore, MutDrop
<1>5. CASE GetTest(t) \/ GetNull(t) \/ GetPanic(t)
  BY <1>5 DEF GetTest, GetNull, GetPanic, NodeGone, Panic
<1> QED
  BY <1>1, <1>2, <1>3, <1>4, <1>5 DEF Proceed

(* What has been changed remains changed.                                  *)
LEMMA EditedStays ==
  ASSUME NEW t \in Threads, Proceed(t), ~edited'
  PROVE  ~edited
BY KeptNarrows DEF MutDrop

(* If there is an order function, the others of a writer do not write.     *)
LEMMA OrderAlone ==
  ASSUME BInv, Ordered, NEW t \in Threads, Writes(t)
  PROVE  \A u \in Threads \ {t} : ~Writes(u)
BY DEF BInv, Apart

(* A push of an ordered list has not gone past its place.                  *)
LEMMA OrderKnownStep ==
  ASSUME BInv, Fresh, Copies, Found, Ranked, OrderKnown, NEW t \in Threads, Proceed(t)
  PROVE  OrderKnown'
<1> SUFFICES ASSUME Ordered, ~edited' PROVE OrderKnown'
  BY DEF OrderKnown
<1>. ~edited
  BY EditedStays
<1>. TInv /\ GInv /\ OnPath
  BY DEF BInv, GInv
<1>. \A u \in Threads \ {t} :
       pc'[u] = pc[u] /\ call'[u] = call[u] /\ reg'[u] = reg[u]
  BY Elsewhere DEF TInv
<1>. /\ pc \in [Threads -> Places] /\ call \in [Threads -> Calls]
     /\ reg \in [Threads -> Regs]
  BY DEF TInv, TypeOK
<1>. enforce' = enforce
  BY KeptNarrows
<1> DEFINE Under(i, j) == Key[i] <= Key[j] /\ (enforce => Key[i] # Key[j])
           Walks(p) == p \in {"testWait", "test", "getWait", "getTest", "getLoad", "noneq", "reload", "next",
                   "popCount", "store", "removeCount", "move", "setLock", "setImm", "setStore"}
           Facts(p, c, r, next) ==
             /\ c.method = "pushOrdered" /\ (Walks(p) \/ (p = "lock" /\ r.cur # head)) =>
                  /\ r.cur = head \/ Under(r.cur, c.item)
                  /\ p = "move" => Under(r.node, c.item)
                  /\ p \in {"reload", "store"} => next[r.cur] # Null /\ Key[c.item] < Key[next[r.cur]]
             /\ c.method = "pushHead" /\ p \in {"lock", "testWait", "test", "reload", "store"} =>
                  next[head] = Null
<1>1. \A u \in Threads : Facts(pc[u], call[u], reg[u], inner)
  BY DEF OrderKnown, Busy, Below, Doing, At, cur
<1>2. ASSUME NEW u \in Threads \ {t}
      PROVE  Facts(pc'[u], call'[u], reg'[u], inner')
  <2>1. CASE inner' = inner
    <3>1. pc'[u] = pc[u] /\ call'[u] = call[u] /\ reg'[u] = reg[u]
      OBVIOUS
    <3>2. Facts(pc[u], call[u], reg[u], inner)
      BY <1>1
    <3> HIDE DEF Facts, Under, Walks
    <3> QED
      BY <2>1, <3>1, <3>2
  <2>2. CASE inner' # inner
    <3>1. Busy(t)
      BY <2>2, StoreEffect DEF Inserts, Removes
    <3>2. Writes(t)
      BY <3>1 DEF Busy, Writes
    <3>3. ~Writes(u)
      BY <3>2, OrderAlone, SMTT(30)
    <3> QED
      BY <3>3 DEF Writes
  <2> QED
    BY <2>1, <2>2
<1>3. Facts(pc'[t], call'[t], reg'[t], inner')
  <2>. Facts(pc[t], call[t], reg[t], inner)
    BY <1>1
  <2>. /\ pc[t] \in {"decideWait", "decide"} => reg[t] = NoReg
       /\ call[t].method = "pushHead" => reg[t].cur = head
       /\ call[t].method = "pushOrdered" /\ pc[t] = "lock" => reg[t] = NoReg
       /\ pc[t] \in {"setLock", "setImm", "setStore", "setFreeImm", "setFreeMut", "decide"} =>
            call[t].method = "pushOrdered"
       /\ pc[t] = "next" => call[t].method \in {"pop", "remove_count"}
       /\ pc[t] = "popCount" => call[t].method = "pop"
       /\ pc[t] \in {"mutLoad", "mutDrop"} => call[t].method = "iter_mut"
       /\ pc[t] = "reload" => call[t].method \in {"pushHead", "pushOrdered"}
       /\ pc[t] = "removeCount" => call[t].method = "remove_count"
       /\ pc[t] = "move" => call[t].method \in {"pushOrdered", "remove_count"}
       /\ NoReg.cur = head /\ NoReg.ptr = Null
    BY MethodAt DEF Fresh, NoReg, Doing, At, cur
  <2> USE DEF Goto, Step, At, Doing, cells, cur
  <2>1. CASE WaitImm(t)
    BY <2>1 DEF WaitImm, Tests
  <2>2. CASE Decide(t)
    BY <2>2 DEF Decide, Calls, IsNull
  <2>3. CASE Lock(t)
    BY <2>3 DEF Lock
  <2>4. CASE SetLock(t) \/ SetImm(t)
    BY <2>4 DEF SetLock, SetImm
  <2>5. CASE PushStore(t) \/ SetStore(t) \/ PopStore(t)
    BY <2>5 DEF PushStore, SetStore, PopStore
  <2>6. CASE SetFreeImm(t) \/ SetFreeMut(t) \/ MutLock(t)
    BY <2>6 DEF SetFreeImm, SetFreeMut, MutLock
  <2>7. CASE PopCount(t)
    BY <2>7 DEF PopCount
  <2>8. CASE LoadNext(t)
    BY <2>8 DEF LoadNext, Regs
  <2>9. CASE RemoveStore(t)
    BY <2>9 DEF RemoveStore, Regs
  <2>10. CASE RemoveCount(t)
    BY <2>10 DEF RemoveCount, Calls
  <2>11. CASE Move(t)
    BY <2>11 DEF Move, Regs
  <2>12. CASE FindNext(t) \/ MutDrop(t) \/ MutLoad(t)
    BY <2>12 DEF FindNext, MutDrop, MutLoad
  <2>13. CASE Reload(t)
    BY <2>13 DEF Reload, Regs
  <2>14. CASE GetTest(t) \/ GetNull(t)
    BY <2>14 DEF GetTest, GetNull, Panic, IsNull
  <2>15. CASE GetPanic(t)
    BY <2>15 DEF GetPanic, NodeGone, Panic
  <2>16. CASE PushSkip(t)
    BY <2>16 DEF PushSkip, Calls
  <2>17. CASE PushCompare(t)
    <3>1. /\ inner[reg[t].cur] \in Items /\ call[t].method = "pushOrdered" /\ pc[t] = "noneq"
          /\ inner' = inner /\ call' = call /\ reg' = reg
          /\ reg[t].node = inner[reg[t].cur] /\ reg[t].rank = Key[inner[reg[t].cur]]
      <4>1. pc[t] = "noneq" /\ inner' = inner /\ call' = call /\ reg' = reg
        BY <2>17 DEF PushCompare
      <4>2. call[t].method = "pushOrdered"
        BY <4>1, MethodAt
      <4>3. reg[t].node = inner[reg[t].cur] /\ inner[reg[t].cur] # Null
        BY <4>1, <4>2 DEF Found, Busy, TakesNode
      <4>4. reg[t].rank = Key[reg[t].node]
        BY <4>1 DEF Ranked
      <4> QED
        BY <4>1, <4>2, <4>3, <4>4 DEF TInv, TypeOK, CellsType, Regs, Nodes
    <3>2. call[t].item \in Items
      <4>1. Pending(t)
        BY <3>1 DEF Pending, Pushes
      <4> QED
        BY <4>1 DEF GInv, PendingNowhere
    <3>3. Key[inner[reg[t].cur]] \in Nat /\ Key[call[t].item] \in Nat
      BY <3>1, <3>2, ListAssumption
    <3>4. CASE Key[call[t].item] < Key[inner[reg[t].cur]]
      <4>1. pc'[t] = "reload"
        BY <2>17, <3>1, <3>4 DEF PushCompare, InsertsBefore
      <4> QED
        BY <3>1, <3>4, <4>1, ListAssumption
    <3>5. CASE ~(Key[call[t].item] < Key[inner[reg[t].cur]])
      <4>1. pc'[t] = "move" /\ (enforce => Key[inner[reg[t].cur]] # Key[call[t].item])
        BY <2>17, <3>1, <3>5 DEF PushCompare, InsertsBefore, Equal
      <4>2. Under(inner[reg[t].cur], call[t].item)
        BY <3>3, <3>5, <4>1
      <4> QED
        BY <3>1, <4>1, <4>2
    <3> QED
      BY <3>4, <3>5
  <2>18. CASE PushFind(t) \/ PopFind(t) \/ RemoveFind(t) \/ MutFind(t)
    BY <2>18 DEF PushFind, PopFind, RemoveFind, MutFind, Got, Regs
  <2>19. CASE Test(t)
    BY <2>19 DEF Test, Return, AtEnd, AtNode, NoCall, IsNull
  <2>20. CASE PushCount(t) \/ Unlock(t) \/ FindHit(t)
    BY <2>20 DEF PushCount, Unlock, FindHit, Return, NoCall, Pushes
  <2> QED
    BY <2>1, <2>2, <2>3, <2>4, <2>5, <2>6, <2>7, <2>8, <2>9, <2>10, <2>11,
       <2>12, <2>13, <2>14, <2>15, <2>16, <2>17, <2>18, <2>19, <2>20 DEF
       Proceed
<1>4. \A u \in Threads : Facts(pc'[u], call'[u], reg'[u], inner')
  <2> HIDE DEF Facts
  <2> QED
    BY <1>2, <1>3
<1> QED
  BY <1>4 DEF OrderKnown, Busy, Below, Doing, At, cur

(* What a method carries and stores is what the order function compares of *)
(* its node, unless a client changes it.                                   *)
LEMMA RankedStep ==
  ASSUME TInv, GInv, Fresh, Ranked, NEW t \in Threads, Proceed(t)
  PROVE  Ranked'
<1> SUFFICES ASSUME ~edited' PROVE Ranked'
  BY DEF Ranked
<1>. ~edited /\ OnPath
  BY EditedStays DEF GInv
<1>. \A u \in Threads \ {t} :
       pc'[u] = pc[u] /\ call'[u] = call[u] /\ reg'[u] = reg[u]
  BY Elsewhere DEF TInv
<1>. /\ pc \in [Threads -> Places] /\ call \in [Threads -> Calls]
     /\ reg \in [Threads -> Regs] /\ rank \in [Cells -> Nat] /\ CellsType
     /\ reg[t].cur \in Cells /\ cur(t) = reg[t].cur
  BY DEF TInv, TypeOK, Regs, cur
<1>. \A c \in Cells : inner[c] # Null => rank[c] = Key[inner[c]]
  BY DEF Ranked
<1> DEFINE Holds(p, m) == \/ p \in {"popCount", "store"}
                          \/ m = "iter_mut" /\ p \in {"getWait", "getTest", "getLoad", "mutDrop"}
<1>. /\ pc[t] = "noneq" => reg[t].rank = Key[reg[t].node]
     /\ Holds(pc[t], call[t].method) /\ reg[t].ptr # Null => reg[t].rank = Key[reg[t].ptr]
  BY DEF Ranked, Carrying, At, Doing
<1>1. \A c \in Cells : inner'[c] # Null => rank'[c] = Key[inner'[c]]
  <2>1. CASE PushStore(t) \/ SetStore(t)
    <3>1. call[t].item \in Cells
      BY <2>1, PendingKept DEF GInv, PendingNowhere, Cells
    <3>2. PushStore(t) => pc[t] = "store"
      BY DEF PushStore, Step, At
    <3> QED
      BY <2>1, <3>1, <3>2 DEF PushStore, SetStore, CellsType
  <2>2. CASE PopStore(t) \/ RemoveStore(t)
    <3>1. pc[t] = "store" /\ StoreNode(cur(t), reg[t].ptr, reg[t].rank)
      BY <2>2 DEF PopStore, RemoveStore, Step, At
    <3> QED
      BY <3>1 DEF StoreNode, Store, CellsType
  <2>3. CASE MutDrop(t)
    <3>1. pc[t] = "mutDrop" /\ StoreNode(cur(t), reg[t].ptr, reg[t].rank)
      BY <2>3 DEF MutDrop, At
    <3>2. call[t].method = "iter_mut"
      BY <3>1, MethodAt
    <3> QED
      BY <3>1, <3>2 DEF StoreNode, Store, CellsType
  <2>4. CASE GetTest(t) \/ GetNull(t) \/ GetPanic(t)
    <3>1. CASE inner' = inner /\ rank' = rank
      BY <3>1
    <3>2. CASE ~(inner' = inner /\ rank' = rank)
      <4>1. /\ Doing(t, "iter_mut") /\ reg[t].ptr # Null
            /\ StoreNode(cur(t), reg[t].ptr, reg[t].rank)
        BY <2>4, <3>2 DEF GetTest, GetNull, GetPanic, Panic, cells
      <4>2. pc[t] \in {"getTest", "mutTest", "getLoad", "mutDrop"}
        BY <2>4 DEF GetTest, GetNull, GetPanic
      <4>3. pc[t] # "mutTest"
        BY <4>1 DEF Fresh, At, Doing
      <4> QED
        BY <4>1, <4>2, <4>3 DEF StoreNode, Store, CellsType, Doing
    <3> QED
      BY <3>1, <3>2
  <2> QED
    BY <2>1, <2>2, <2>3, <2>4, InnerKept
<1>2. /\ pc'[t] = "noneq" => reg'[t].rank = Key[reg'[t].node]
      /\ Holds(pc'[t], call'[t].method) /\ reg'[t].ptr # Null => reg'[t].rank = Key[reg'[t].ptr]
  <2>. /\ pc[t] \in {"decideWait", "decide", "noneq", "setLock"} => call[t].method = "pushOrdered"
       /\ pc[t] = "reload" => call[t].method \in {"pushHead", "pushOrdered"}
       /\ pc[t] = "next" => call[t].method \in {"pop", "remove_count"} /\ reg[t].node \in Cells
       /\ pc[t] = "mutLoad" => call[t].method = "iter_mut"
       /\ pc[t] = "removeCount" => call[t].method = "remove_count"
       /\ call[t].method = "pushHead" /\ pc[t] = "test" => reg[t].ptr = Null
    BY MethodAt DEF TInv, NodeKnown, Cells, Fresh, NoReg, At, Doing
  <2> USE DEF Goto, Step, At, Doing, cur
  <2>1. CASE WaitImm(t)
    BY <2>1 DEF WaitImm, Tests
  <2>2. CASE Decide(t) \/ Lock(t) \/ SetLock(t) \/ SetImm(t) \/ PushStore(t)
    BY <2>2 DEF Decide, Lock, SetLock, SetImm, PushStore, Calls
  <2>3. CASE SetStore(t) \/ SetFreeImm(t) \/ SetFreeMut(t) \/ PopStore(t)
    BY <2>3 DEF SetStore, SetFreeImm, SetFreeMut, PopStore
  <2>4. CASE LoadNext(t)
    BY <2>4 DEF LoadNext, Regs
  <2>5. CASE PopCount(t) \/ MutLock(t)
    BY <2>5 DEF PopCount, MutLock
  <2>6. CASE RemoveStore(t) \/ RemoveCount(t) \/ Move(t)
    BY <2>6 DEF RemoveStore, RemoveCount, Move, Calls, Regs
  <2>7. CASE FindNext(t) \/ MutDrop(t)
    BY <2>7 DEF FindNext, MutDrop
  <2>8. CASE Reload(t) \/ MutLoad(t)
    BY <2>8 DEF Reload, MutLoad, Regs
  <2>9. CASE GetTest(t) \/ GetNull(t)
    BY <2>9 DEF GetTest, GetNull, Panic
  <2>10. CASE GetPanic(t)
    BY <2>10 DEF GetPanic, Panic
  <2>11. CASE PushSkip(t) \/ PushCompare(t)
    BY <2>11 DEF PushSkip, PushCompare
  <2>12. CASE PushFind(t)
    BY <2>12 DEF PushFind, Node, Regs
  <2>13. CASE PopFind(t) \/ RemoveFind(t)
    BY <2>13 DEF PopFind, RemoveFind, Got
  <2>14. CASE MutFind(t)
    BY <2>14 DEF MutFind, Got, Regs
  <2>15. CASE Test(t)
    BY <2>15 DEF Test, Return, AtEnd, AtNode, NoCall
  <2>16. CASE PushCount(t) \/ Unlock(t) \/ FindHit(t)
    BY <2>16 DEF PushCount, Unlock, FindHit, Return, NoCall
  <2> QED
    BY <2>1, <2>2, <2>3, <2>4, <2>5, <2>6, <2>7, <2>8, <2>9, <2>10, <2>11,
       <2>12, <2>13, <2>14, <2>15, <2>16 DEF Proceed
<1>3. \A u \in Threads \ {t} :
        /\ pc'[u] = "noneq" => reg'[u].rank = Key[reg'[u].node]
        /\ Holds(pc'[u], call'[u].method) /\ reg'[u].ptr # Null =>
             reg'[u].rank = Key[reg'[u].ptr]
  BY DEF Ranked, Carrying, At, Doing
<1> QED
  BY <1>1, <1>2, <1>3 DEF Ranked, Carrying, At, Doing

(* The links ascend: a push goes between two nodes that its item lies      *)
(* between, and a removal joins two that had one in between.               *)
LEMMA LinksAscendStep ==
  ASSUME BInv, Fresh, Copies, Found, OrderKnown, LinksAscend, NEW t \in Threads, Proceed(t)
  PROVE  LinksAscend'
<1> SUFFICES ASSUME Ordered, ~edited', NEW j \in Items, inner'[j] # Null
             PROVE  Key[j] <= Key[inner'[j]]
  BY DEF LinksAscend
<1>. ~edited
  BY EditedStays
<1>1. /\ TInv /\ OnPath /\ CellsType /\ cur(t) \in Cells /\ j \in Cells
      /\ \A i \in Items : Key[i] \in Nat /\ i # Null /\ i # head
      /\ inner[j] # Null => inner[j] \in Items /\ Key[j] <= Key[inner[j]]
  BY ListAssumption DEF BInv, GInv, TInv, TypeOK, CellsType, Regs, cur, Cells,
     Nodes, LinksAscend
<1>2. CASE inner' = inner
  BY <1>1, <1>2
<1>3. CASE Inserts(t)
  <2> DEFINE i == call[t].item
  <2>1. /\ i \in Items /\ i # cur(t) /\ Busy(t) /\ call[t].method \in Pushes
        /\ pc[t] \in {"store", "setStore"}
        /\ inner' = [inner EXCEPT ![i] = inner[cur(t)], ![cur(t)] = i]
    BY <1>3 DEF Inserts, Nowhere, Pending, cur, PushStore, SetStore, Step, At
  <2>2. cur(t) = head \/ Key[cur(t)] <= Key[i]
    BY <2>1 DEF OrderKnown, Fresh, Below, Doing, Pushes
  <2>3. inner[cur(t)] = Null \/ Key[i] < Key[inner[cur(t)]]
    <3>1. CASE Doing(t, "pushOrdered") /\ At(t, "store")
      BY <2>1, <3>1 DEF OrderKnown, At
    <3>2. CASE At(t, "setStore")
      BY <2>1, <3>2 DEF Found, At
    <3>3. CASE Doing(t, "pushHead") /\ At(t, "store")
      BY <3>3 DEF OrderKnown, Fresh, Doing, At
    <3> QED
      BY <2>1, <3>1, <3>2, <3>3 DEF Pushes, Doing, At
  <2>4. inner[cur(t)] = Null \/ inner[cur(t)] \in Items
    BY <1>1 DEF CellsType, Nodes
  <2> HIDE DEF i
  <2>5. CASE j = i
    <3>1. inner'[j] = inner[cur(t)]
      BY <1>1, <2>1, <2>5 DEF CellsType
    <3> QED
      BY <1>1, <2>1, <2>3, <2>4, <2>5, <3>1
  <2>6. CASE j = cur(t)
    <3>1. inner'[j] = i
      BY <1>1, <2>1, <2>6 DEF CellsType
    <3> QED
      BY <1>1, <2>2, <2>6, <3>1
  <2>7. CASE j # i /\ j # cur(t)
    BY <1>1, <2>1, <2>7 DEF CellsType
  <2> QED
    BY <2>5, <2>6, <2>7
<1>4. CASE Removes(t)
  <2>1. /\ inner[cur(t)] \in Items
        /\ inner' = [inner EXCEPT ![cur(t)] = inner[inner[cur(t)]]]
    BY <1>4 DEF Removes
  <2>2. CASE j = cur(t)
    <3>1. inner'[j] = inner[inner[j]]
      BY <1>1, <2>1, <2>2 DEF CellsType
    <3>2. Key[j] <= Key[inner[j]] /\ inner[inner[j]] \in Items
      BY <1>1, <2>1, <2>2, <3>1 DEF CellsType, Cells, Nodes
    <3>3. Key[inner[j]] <= Key[inner[inner[j]]]
      BY <2>1, <2>2, <3>1 DEF LinksAscend
    <3> QED
      BY <1>1, <2>1, <2>2, <3>1, <3>2, <3>3
  <2>3. CASE j # cur(t)
    BY <1>1, <2>1, <2>3 DEF CellsType
  <2> QED
    BY <2>2, <2>3
<1> QED
  BY <1>1, <1>2, <1>3, <1>4, StoreEffect DEF BInv

(* A store leaves a path to all that was ahead of a reader, but for the    *)
(* node that it takes out of the list.                                     *)
LEMMA AheadInserted ==
  ASSUME TInv, NEW t \in Threads, Inserts(t), NEW c \in Cells, c # call[t].item,
         NEW s, Path(inner, c, s)
  PROVE  \E r \in Seq(Items) :
           /\ Path(inner', c, r)
           /\ ToSet(s) \subseteq ToSet(r) /\ ToSet(r) \subseteq ToSet(s) \cup {call[t].item}
<1> DEFINE i == call[t].item
<1>1. /\ inner \in [Cells -> Nodes] /\ i \in Items /\ i # c /\ cur(t) \in Cells
      /\ inner' = [inner EXCEPT ![i] = inner[cur(t)], ![cur(t)] = i]
      /\ \A d \in Cells : inner[d] # i
  BY DEF TInv, TypeOK, CellsType, Regs, cur, Inserts, Nowhere
<1>2. i \notin ToSet(s) /\ s \in Seq(Items) /\ \A j \in ToSet(s) : j \in Cells
  <2>1. /\ \A j \in ToSet(s) : \E d \in Cells : inner[d] = j
        /\ s \in Seq(Items) /\ \A k \in 1 .. Len(s) : s[k] \in Items
        /\ \A j : j \in ToSet(s) <=> \E k \in 1 .. Len(s) : s[k] = j
    BY PathCells, PathFacts
  <2> QED
    BY <1>1, <2>1 DEF Cells
<1> HIDE DEF i
<1>3. CASE cur(t) = c \/ cur(t) \in ToSet(s)
  <2>1. PICK p \in 0 .. Len(s) : cur(t) = Cell(c, s, p)
    <3>1. \A d : d = c \/ d \in ToSet(s) <=> \E p \in 0 .. Len(s) : d = Cell(c, s, p)
      BY PathCells
    <3> QED
      BY <1>3, <3>1
  <2> DEFINE q == p + 1
             r == InsertAt(s, q, i)
  <2>2. q \in 1 .. Len(s) + 1
    BY <1>2, <2>1, LenProperties
  <2>3. Path(inner', c, r)
    BY <1>1, <1>2, <2>1, PathInsert
  <2>4. ToSet(r) = ToSet(s) \cup {i}
    <3>1. s \in Seq(Items) /\ q \in 1 .. Len(s) + 1 /\ i \in Items
      BY <1>1, <1>2, <2>2
    <3> HIDE DEF q
    <3> QED
      BY <3>1, InsertSet
  <2> HIDE DEF r
  <2> QED
    BY <2>3, <2>4 DEF Path, i
<1>4. CASE cur(t) # c /\ cur(t) \notin ToSet(s)
  <2>1. inner'[c] = inner[c] /\ \A j \in ToSet(s) : inner'[j] = inner[j]
    BY <1>1, <1>2, <1>4
  <2>2. Path(inner', c, s)
    BY <2>1, PathElsewhere
  <2> QED
    BY <2>2 DEF Path
<1> QED
  BY <1>3, <1>4

(* ... or of a removal.                                                    *)
LEMMA AheadRemoved ==
  ASSUME TInv, NEW t \in Threads, Removes(t), NEW c \in Cells,
         NEW s, Path(inner, c, s)
  PROVE  \E r \in Seq(Items) :
           /\ Path(inner', c, r)
           /\ ToSet(s) \ {inner[cur(t)]} \subseteq ToSet(r) /\ ToSet(r) \subseteq ToSet(s)
<1>1. /\ inner \in [Cells -> Nodes] /\ cur(t) \in Cells
      /\ inner[cur(t)] \in Items /\ inner[cur(t)] # Null
      /\ inner' = [inner EXCEPT ![cur(t)] = inner[inner[cur(t)]]]
  BY ListAssumption DEF TInv, TypeOK, CellsType, Regs, cur, Removes
<1>2. /\ s \in Seq(Items) /\ \A j \in ToSet(s) : j \in Cells
      /\ Len(s) \in Nat /\ \A j, k \in 1 .. Len(s) : s[j] = s[k] => j = k
  <2>1. /\ s \in Seq(Items) /\ \A k \in 1 .. Len(s) : s[k] \in Items
        /\ \A j : j \in ToSet(s) <=> \E k \in 1 .. Len(s) : s[k] = j
        /\ Len(s) \in Nat /\ \A j, k \in 1 .. Len(s) : s[j] = s[k] => j = k
    BY PathFacts
  <2> QED
    BY <2>1 DEF Cells
<1>3. CASE cur(t) = c \/ cur(t) \in ToSet(s)
  <2>1. PICK p \in 0 .. Len(s) : cur(t) = Cell(c, s, p)
    <3>1. \A d : d = c \/ d \in ToSet(s) <=> \E p \in 0 .. Len(s) : d = Cell(c, s, p)
      BY PathCells
    <3> QED
      BY <1>3, <3>1
  <2>2. p < Len(s) /\ inner[cur(t)] = s[p + 1]
    BY <1>1, <2>1, PathCells
  <2>3. p \in 0 .. Len(s) - 1
    BY <1>2, <2>2
  <2>4. Path(inner', c, RemoveAt(s, p + 1))
    BY <1>1, <1>2, <2>1, <2>2, <2>3, PathRemove
  <2>5. ToSet(RemoveAt(s, p + 1)) = ToSet(s) \ {s[p + 1]}
    BY <1>2, <2>3, RemoveSet
  <2> DEFINE r == RemoveAt(s, p + 1)
  <2>6. Path(inner', c, r) /\ ToSet(r) = ToSet(s) \ {inner[cur(t)]}
    BY <2>2, <2>4, <2>5
  <2> HIDE DEF r
  <2> QED
    BY <2>6 DEF Path
<1>4. CASE cur(t) # c /\ cur(t) \notin ToSet(s)
  <2>1. inner'[c] = inner[c] /\ \A j \in ToSet(s) : inner'[j] = inner[j]
    BY <1>1, <1>2, <1>4
  <2>2. Path(inner', c, s)
    BY <2>1, PathElsewhere
  <2> QED
    BY <2>2 DEF Path
<1> QED
  BY <1>3, <1>4

(* A reader stays on a path to what it must not overlook, whatever the     *)
(* writers do meanwhile.                                                   *)
LEMMA OthersSee ==
  ASSUME BInv, AInv, NEW t \in Threads, Proceed(t),
         NEW u \in Threads, Reading(u), NEW s, Sees(u, s)
  PROVE  \E r \in Seq(Items) :
           /\ Path(inner', cur(u), r) /\ kept'[u] \cap call[u].want \subseteq ToSet(r)
           /\ \A i \in ToSet(r) : i \in ToSet(s) \/ (Inserts(t) /\ i = call[t].item)
<1>1. /\ TInv /\ cur(u) \in Cells /\ reg[u].cur = cur(u) /\ kept \in [Threads -> SUBSET Items]
      /\ s \in Seq(Items) /\ Path(inner, cur(u), s)
      /\ kept[u] \cap call[u].want \subseteq ToSet(s)
  BY DEF BInv, TInv, TypeOK, Regs, cur, Sees, Path
<1>2. kept'[u] \subseteq kept[u]
  BY <1>1, KeptNarrows DEF Narrow
<1>3. CASE inner' = inner
  BY <1>1, <1>2, <1>3
<1>4. CASE Inserts(t)
  <2>1. cur(u) # call[t].item
    BY <1>1, <1>4 DEF Inserts, Nowhere
  <2>2. PICK r \in Seq(Items) :
          /\ Path(inner', cur(u), r)
          /\ ToSet(s) \subseteq ToSet(r) /\ ToSet(r) \subseteq ToSet(s) \cup {call[t].item}
    BY <1>1, <1>4, <2>1, AheadInserted
  <2> QED
    BY <1>1, <1>2, <1>4, <2>2
<1>5. CASE Removes(t)
  <2>1. PICK r \in Seq(Items) :
          /\ Path(inner', cur(u), r)
          /\ ToSet(s) \ {inner[cur(t)]} \subseteq ToSet(r) /\ ToSet(r) \subseteq ToSet(s)
    BY <1>1, <1>5, AheadRemoved
  <2>2. inner[cur(t)] \notin ToSet(Listing') /\ inner[cur(t)] \in ToSet(Listing)
    BY <1>1, <1>5, Removed DEF AInv, Found, Removes
  <2>3. inner[cur(t)] \notin kept'[u]
    <3>1. kept' = [v \in Threads |-> kept[v] \cap Listed']
      <4>1. inner' # inner
        BY <2>2 DEF Listing
      <4> QED
        BY <4>1, KeptNarrows DEF Narrow
    <3> QED
      BY <2>2, <3>1 DEF Listed
  <2> QED
    BY <1>1, <1>2, <2>1, <2>3
<1> QED
  BY <1>3, <1>4, <1>5, StoreEffect DEF BInv, AInv

(* A find that goes on stays at its cell, or moves to the next.            *)
LEMMA ReadingStep ==
  ASSUME TInv, OnPath, NEW t \in Threads, Proceed(t),
         call'[t].method = "find",
         pc'[t] \in {"testWait", "test", "getWait", "getTest", "getLoad"}
  PROVE  /\ Reading(t)
         /\ \/ reg'[t] = reg[t] /\ call'[t] = call[t]
            \/ FindNext(t)
<1>. /\ pc \in [Threads -> Places] /\ call \in [Threads -> Calls]
     /\ reg \in [Threads -> Regs]
  BY DEF TInv, TypeOK
<1>. /\ pc[t] \in {"decideWait", "decide"} => call[t].method = "pushOrdered"
     /\ pc[t] \in {"mutLoad", "mutDrop", "mutWait", "mutTest"} => call[t].method = "iter_mut"
     /\ pc[t] = "lock" => call[t].method # "find"
     /\ pc[t] = "removeCount" => call[t].method = "remove_count"
     /\ pc[t] = "move" => call[t].method \in {"pushOrdered", "remove_count"}
  BY MethodAt
<1> USE DEF Goto, Step, At, Doing, Reading
<1>1. CASE WaitImm(t)
  BY <1>1 DEF WaitImm, Tests
<1>2. CASE Decide(t)
  BY <1>2 DEF Decide, Calls
<1>3. CASE Lock(t) \/ SetLock(t) \/ SetImm(t)
  BY <1>3 DEF Lock, SetLock, SetImm
<1>4. CASE PushStore(t) \/ SetStore(t) \/ PopStore(t)
  BY <1>4 DEF PushStore, SetStore, PopStore
<1>5. CASE SetFreeImm(t) \/ SetFreeMut(t) \/ MutLock(t) \/ PopCount(t)
  BY <1>5 DEF SetFreeImm, SetFreeMut, MutLock, PopCount
<1>6. CASE LoadNext(t) \/ RemoveStore(t)
  BY <1>6 DEF LoadNext, RemoveStore
<1>7. CASE RemoveCount(t)
  BY <1>7 DEF RemoveCount, Calls
<1>8. CASE Move(t)
  BY <1>8 DEF Move
<1>9. CASE FindNext(t)
  BY <1>9 DEF FindNext
<1>10. CASE MutDrop(t) \/ MutLoad(t)
  BY <1>10 DEF MutDrop, MutLoad
<1>11. CASE Reload(t)
  BY <1>11 DEF Reload
<1>12. CASE GetTest(t) \/ GetNull(t)
  BY <1>12 DEF GetTest, GetNull, Panic
<1>13. CASE GetPanic(t)
  BY <1>13 DEF GetPanic, NodeGone, Panic
<1>14. CASE PushSkip(t) \/ PushCompare(t)
  BY <1>14 DEF PushSkip, PushCompare, Calls
<1>15. CASE PushFind(t) \/ PopFind(t) \/ RemoveFind(t) \/ MutFind(t)
  BY <1>15 DEF PushFind, PopFind, RemoveFind, MutFind, Got
<1>16. CASE Test(t)
  BY <1>16 DEF Test, Return, AtEnd, AtNode, NoCall
<1>17. CASE PushCount(t) \/ Unlock(t) \/ FindHit(t)
  BY <1>17 DEF PushCount, Unlock, FindHit, Return, NoCall, Pushes
<1> QED
  BY <1>1, <1>2, <1>3, <1>4, <1>5, <1>6, <1>7, <1>8, <1>9, <1>10, <1>11,
     <1>12, <1>13, <1>14, <1>15, <1>16, <1>17 DEF Proceed

(* Every reader stays on a path to what it must not overlook.              *)
LEMMA ReaderSeesStep ==
  ASSUME BInv, AInv, NEW t \in Threads, Proceed(t)
  PROVE  ReaderSees'
<1>. TInv /\ GInv /\ OnPath
  BY DEF BInv, GInv
<1>. \A u \in Threads \ {t} :
       pc'[u] = pc[u] /\ call'[u] = call[u] /\ reg'[u] = reg[u]
  BY Elsewhere DEF TInv
<1>. /\ pc \in [Threads -> Places] /\ call \in [Threads -> Calls]
     /\ reg \in [Threads -> Regs]
  BY DEF TInv, TypeOK
<1>1. ASSUME NEW u \in Threads \ {t}, Reading(u)
      PROVE  \E r \in Seq(Items) :
               Path(inner', reg'[u].cur, r) /\ kept'[u] \cap call'[u].want \subseteq ToSet(r)
  <2>1. PICK s \in Seq(Items) : Sees(u, s)
    BY <1>1 DEF AInv, ReaderSees
  <2> QED
    BY <1>1, <2>1, OthersSee DEF cur
<1>2. ASSUME call'[t].method = "find",
             pc'[t] \in {"testWait", "test", "getWait", "getTest", "getLoad"}
      PROVE  \E r \in Seq(Items) :
               Path(inner', reg'[t].cur, r) /\ kept'[t] \cap call'[t].want \subseteq ToSet(r)
  <2>1. /\ Reading(t)
        /\ \/ reg'[t] = reg[t] /\ call'[t] = call[t]
           \/ FindNext(t)
    BY <1>2, ReadingStep
  <2>2. PICK s \in Seq(Items) : Sees(t, s)
    BY <2>1 DEF AInv, ReaderSees
  <2>3. CASE ~FindNext(t)
    BY <2>1, <2>2, <2>3, OthersSee DEF cur
  <2>4. CASE FindNext(t)
    <3>1. /\ inner[cur(t)] # Null /\ inner[cur(t)] \notin call[t].want
          /\ reg'[t].cur = inner[cur(t)] /\ inner' = inner /\ kept' = kept /\ call' = call
      BY <2>4 DEF FindNext, Node, Matches, cells, Regs
    <3>2. /\ Path(inner, inner[cur(t)], Tail(s)) /\ ToSet(s) = {inner[cur(t)]} \cup ToSet(Tail(s))
          /\ kept[t] \cap call[t].want \subseteq ToSet(s)
      BY <2>2, <3>1, PathRest DEF Sees
    <3>3. Tail(s) \in Seq(Items)
      BY <3>2 DEF Path
    <3>4. kept[t] \cap call[t].want \subseteq ToSet(Tail(s))
      BY <3>1, <3>2
    <3> QED
      BY <3>1, <3>2, <3>3, <3>4
  <2> QED
    BY <2>3, <2>4
<1>3. ASSUME NEW u \in Threads, Reading(u)'
      PROVE  \E r \in Seq(Items) : Sees(u, r)'
  <2>1. call'[u].method = "find" /\ pc'[u] \in {"testWait", "test", "getWait", "getTest", "getLoad"}
    BY <1>3 DEF Reading, Doing
  <2>2. \E r \in Seq(Items) :
          Path(inner', reg'[u].cur, r) /\ kept'[u] \cap call'[u].want \subseteq ToSet(r)
    <3>1. CASE u = t
      BY <1>2, <2>1, <3>1
    <3>2. CASE u # t
      BY <1>1, <2>1, <3>2 DEF Reading, Doing
    <3> QED
      BY <3>1, <3>2
  <2> QED
    BY <2>2 DEF Sees, cur
<1> QED
  BY <1>3 DEF ReaderSees

-----------------------------------------------------------------------------
(* The clients.                                                            *)

(* Clients that call what they may call do not write together.             *)
LEMMA AllowedApart ==
  ASSUME StackClients \/ OneWriter, Allowed
  PROVE  Apart
<1>1. CASE StackClients
  <2>1. \A t \in Threads : call[t].method # "remove_count"
    BY <1>1 DEF StackClients, Allowed, Doing, Pushes
  <2> QED
    BY <1>1, <2>1 DEF StackClients, Apart, Doing
<1>2. CASE OneWriter
  <2>1. PICK w \in Threads : Sole(w)
    BY <1>2 DEF OneWriter
  <2>2. \A t \in Threads \ {w} : call[t].method \in {"none", "find"}
    BY <2>1 DEF Sole, Allowed, Doing
  <2> QED
    BY <2>2 DEF Apart, Writes
<1> QED
  BY <1>1, <1>2

(* An access goes on with the call, or ends it.                            *)
LEMMA AllowedStep ==
  ASSUME TInv, OnPath, Allowed, NEW t \in Threads, Proceed(t)
  PROVE  Allowed'
<1>. \A u \in Threads \ {t} :
       pc'[u] = pc[u] /\ call'[u] = call[u] /\ reg'[u] = reg[u]
  BY Elsewhere DEF TInv
<1>. /\ pc \in [Threads -> Places] /\ call \in [Threads -> Calls]
     /\ reg \in [Threads -> Regs]
  BY DEF TInv, TypeOK
<1>1. \/ call'[t].method = call[t].method
      \/ call'[t].method = "none"
      \/ call[t].method \in Pushes /\ call'[t].method \in Pushes \cup {"pushSkipped"}
  <2>. pc[t] \in {"decideWait", "decide", "noneq"} => call[t].method = "pushOrdered"
    BY MethodAt
  <2> USE DEF Goto, Step, At, Doing, Pushes
  <2>1. CASE WaitImm(t) \/ Lock(t) \/ SetLock(t) \/ SetImm(t) \/ PushStore(t)
             \/ SetStore(t) \/ PopStore(t)
    BY <2>1 DEF WaitImm, Lock, SetLock, SetImm, PushStore, SetStore,
        PopStore
  <2>2. CASE Decide(t)
    BY <2>2 DEF Decide, Calls
  <2>3. CASE SetFreeImm(t) \/ SetFreeMut(t) \/ MutLock(t) \/ PopCount(t) \/
             LoadNext(t) \/ RemoveStore(t)
    BY <2>3 DEF SetFreeImm, SetFreeMut, MutLock, PopCount, LoadNext,
        RemoveStore
  <2>4. CASE RemoveCount(t)
    BY <2>4 DEF RemoveCount, Calls
  <2>5. CASE Move(t) \/ FindNext(t) \/ MutDrop(t) \/ MutLoad(t) \/ Reload(t)
    BY <2>5 DEF Move, FindNext, MutDrop, MutLoad, Reload
  <2>6. CASE GetTest(t) \/ GetNull(t) \/ GetPanic(t)
    BY <2>6 DEF GetTest, GetNull, GetPanic, NodeGone, Panic
  <2>7. CASE PushSkip(t) \/ PushCompare(t)
    BY <2>7 DEF PushSkip, PushCompare, Calls
  <2>8. CASE PushFind(t) \/ PopFind(t) \/ RemoveFind(t) \/ MutFind(t)
    BY <2>8 DEF PushFind, PopFind, RemoveFind, MutFind, Got
  <2>9. CASE Test(t) \/ PushCount(t) \/ Unlock(t) \/ FindHit(t)
    BY <2>9 DEF Test, PushCount, Unlock, FindHit, Return, NoCall
  <2> QED
    BY <2>1, <2>2, <2>3, <2>4, <2>5, <2>6, <2>7, <2>8, <2>9 DEF Proceed
<1>2. \/ call'[t].method = "none"
      \/ call'[t].method \in OpsOf[t]
      \/ ItemsOf[t] # {} /\ call'[t].method \in Pushes \cup {"pushSkipped"}
  <2>1. OpsOf[t] \cap Pushes = {}
    BY ListAssumption DEF Ops, Pushes
  <2> QED
    BY <1>1, <2>1 DEF Allowed, Doing, Pushes
<1>3. \A u \in Threads \ {t} :
        \/ call'[u].method = "none"
        \/ call'[u].method \in OpsOf[u]
        \/ ItemsOf[u] # {} /\ call'[u].method \in Pushes \cup {"pushSkipped"}
  BY DEF Allowed, Doing
<1> QED
  BY <1>2, <1>3 DEF Allowed, Doing

(* What a call is allowed to be, and what a find expects to meet.          *)
LEMMA CallEffect ==
  ASSUME TInv, NEW t \in Threads, Call(t), ~SetEnforceNoneq(t)
  PROVE  /\ \/ call'[t].method \in OpsOf[t]
            \/ ItemsOf[t] # {} /\ call'[t].method \in Pushes
         /\ IF call'[t].method = "find" THEN kept' = [kept EXCEPT ![t] = Listed]
                                        ELSE kept' = kept
<1>. call \in [Threads -> Calls]
  BY DEF TInv, TypeOK
<1> USE DEF Begin, Pushes
<1>1. CASE \E i \in Items : CallPush(t, i)
  <2>1. PICK i \in Items : CallPush(t, i)
    BY <1>1
  <2>2. ItemsOf[t] # {} /\ kept' = kept
    BY <2>1 DEF CallPush, StartPush
  <2>3. call'[t].method \in {"pushHead", "pushOrdered"}
    BY <2>1 DEF CallPush, StartPush
  <2> QED
    BY <2>2, <2>3
<1>2. CASE CallPop(t) \/ CallIterMut(t)
  BY <1>2 DEF CallPop, CallIterMut, Counted
<1>3. CASE \E want \in Predicates : CallFind(t, want)
  BY <1>3 DEF CallFind, StartFind, Counted
<1>4. CASE \E want \in Predicates, n \in Counts : CallRemove(t, want, n)
  BY <1>4 DEF CallRemove, StartRemove, Counted
<1> QED
  BY <1>1, <1>2, <1>3, <1>4 DEF Call

(* A thread that is idle has no locals yet.                                *)
LEMMA StartSees ==
  ASSUME TInv, GInv, AInv, NEW t \in Threads, Starts(t),
         IF call'[t].method = "find" THEN kept' = [kept EXCEPT ![t] = Listed]
                                     ELSE kept' = kept
  PROVE  AInv'
<1>. /\ inner' = inner /\ reg' = reg /\ enforce' = enforce
     /\ pc[t] = "idle" /\ Entry(pc'[t], call'[t].method) /\ call'[t] \in Calls
     /\ \A u \in Threads \ {t} : pc'[u] = pc[u] /\ call'[u] = call[u]
  BY StartShape
<1>. Listing' = Listing /\ Listed' = Listed /\ kept \in [Threads -> SUBSET Items]
  BY DEF Listing, Listed, TInv, TypeOK
<1>1. reg[t] = NoReg /\ cur(t) = head /\ NoReg.cur = head /\ NoReg.ptr = Null
  <2>1. reg[t] = NoReg
    BY DEF AInv, Fresh
  <2> QED
    BY <2>1 DEF NoReg, cur
<1>3. ~Busy(t)' /\ ~Copying(t)'
  BY <1>1 DEF Busy, Copying, At, Doing, Entry, cur
<1>4. \A u \in Threads \ {t} :
        /\ Busy(u)' <=> Busy(u)
        /\ Copying(u)' <=> Copying(u)
        /\ Reading(u)' <=> Reading(u)
  BY DEF Busy, Copying, Reading, At, Doing, cur
<1>5. Fresh'
  BY <1>1 DEF AInv, Fresh, Doing, At, cur, Entry
<1>6. Copies' /\ Shape' /\ LinksAscend'
  BY <1>3, <1>4, StartShape DEF AInv, Copies, Shape, LinksAscend, cur
<1>10. Ranked'
  BY StartShape DEF AInv, Ranked, Carrying, At, Doing, Entry
<1>7. Found'
  BY <1>3, <1>4 DEF AInv, Found, Linked, TakesNode, At, cur
<1>8. OrderKnown'
  <2>1. Ordered => call'[t].method # "pushHead"
    BY DEF Entry
  <2> QED
    BY <1>3, <1>4, <2>1, StartShape DEF AInv, OrderKnown, Below, Doing, At, cur
<1>9. ReaderSees'
  <2>1. ASSUME NEW u \in Threads \ {t}, Reading(u)'
        PROVE  \E s \in Seq(Items) : Sees(u, s)'
    <3>1. kept'[u] = kept[u]
      OBVIOUS
    <3>2. PICK s \in Seq(Items) : Sees(u, s)
      BY <1>4, <2>1 DEF AInv, ReaderSees
    <3>3. Sees(u, s)'
      BY <3>1, <3>2 DEF Sees, cur
    <3> QED
      BY <3>3
  <2>2. ASSUME Reading(t)'
        PROVE  \E s \in Seq(Items) : Sees(t, s)'
    <3>1. kept'[t] = Listed
      BY <2>2 DEF Reading, Doing
    <3>2. Listing \in Seq(Items) /\ Path(inner, head, Listing)
      BY DEF AInv, Shape, Path
    <3>3. Sees(t, Listing)'
      BY <1>1, <3>1, <3>2 DEF Sees, Listed, cur
    <3> QED
      BY <3>2, <3>3
  <2> QED
    BY <2>1, <2>2 DEF ReaderSees
<1> QED
  BY <1>5, <1>6, <1>7, <1>8, <1>9, <1>10 DEF AInv

(* A call of a list that is allowed.                                       *)
LEMMA CallSees ==
  ASSUME TInv, GInv, AInv, Allowed, NEW t \in Threads, Call(t), Starts(t)
  PROVE  AInv' /\ Allowed'
<1>1. ~SetEnforceNoneq(t)
  BY StartShape DEF SetEnforceNoneq, At, Entry
<1>2. AInv'
  BY <1>1, CallEffect, StartSees
<1>3. Allowed'
  BY <1>1, CallEffect, StartShape DEF Allowed, Doing
<1> QED
  BY <1>2, <1>3

(* set_enforce_noneq changes what a push of an ordered list looks for: the *)
(* one writer of such a list is not pushing then.                          *)
LEMMA NoneqSees ==
  ASSUME TInv, GInv, AInv, Allowed, StackClients \/ OneWriter,
         NEW t \in Threads, SetEnforceNoneq(t)
  PROVE  AInv' /\ Allowed'
<1>. /\ inner' = inner /\ reg' = reg /\ pc' = pc /\ call' = call /\ kept' = kept
     /\ rank' = rank /\ edited' = edited
     /\ Listing' = Listing /\ pc[t] = "idle" /\ "set_enforce_noneq" \in OpsOf[t]
  BY DEF SetEnforceNoneq, Listing, cells, At
<1>1. Ordered => \A u \in Threads : ~Writes(u)
  <2> SUFFICES ASSUME Ordered, NEW u \in Threads PROVE ~Writes(u)
    OBVIOUS
  <2>1. PICK w \in Threads : Sole(w)
    BY DEF StackClients, OneWriter
  <2>2. w = t
    BY <2>1 DEF Sole
  <2>3. call[t].method = "none"
    BY MethodAt DEF GInv
  <2> QED
    BY <2>1, <2>2, <2>3 DEF Sole, Allowed, Doing, Writes
<1>2. OrderKnown'
  BY <1>1 DEF OrderKnown, Busy, Writes, Doing
<1>3. /\ \A u \in Threads : (Busy(u)' <=> Busy(u)) /\ (Copying(u)' <=> Copying(u))
      /\ \A u \in Threads : Reading(u)' <=> Reading(u)
      /\ Allowed'
  BY DEF Busy, Copying, Reading, Allowed, At, Doing, cur
<1>4. Fresh' /\ Copies' /\ Shape' /\ LinksAscend'
  BY <1>3 DEF AInv, Fresh, Copies, Shape, LinksAscend, Doing, At, cur
<1>5. Found' /\ Ranked'
  BY <1>3 DEF AInv, Found, Ranked, Carrying, Linked, TakesNode, At, Doing, cur
<1>6. ReaderSees'
  BY <1>3 DEF AInv, ReaderSees, Sees, cur
<1> QED
  BY <1>2, <1>3, <1>4, <1>5, <1>6 DEF AInv

(* CInv is an inductive invariant for these clients.                       *)
CInv == TInv /\ GInv /\ (~Ordered => LInv) /\ Allowed /\ AInv /\ WritersNeverPanic

(* It holds at the start ...                                               *)
LEMMA ClientsInit == Init => CInv
<1> SUFFICES ASSUME Init PROVE CInv
  OBVIOUS
<1>1. TInv /\ GInv /\ LInv
  BY TypesInit, PathsInit, ListInit
<1>2. /\ \A t \in Threads : pc[t] = "idle" /\ call[t].method = "none" /\ reg[t] = NoReg
      /\ inner = [c \in Cells |-> Null]
  BY DEF Init, NoCall, CellsInit
<1>3. \A t \in Threads : ~Busy(t) /\ ~Copying(t) /\ ~Reading(t)
  BY <1>2 DEF Busy, Copying, Reading, Doing
<1>4. Fresh /\ Copies /\ Found /\ OrderKnown /\ ReaderSees /\ Allowed
  BY <1>2, <1>3 DEF Fresh, Copies, Found, OrderKnown, ReaderSees, Allowed,
     Doing, At, cur, NoReg
<1>5. LinksAscend /\ Ranked
  BY <1>2 DEF LinksAscend, Ranked, Carrying, At, NoReg, Cells
<1>6. Shape
  <2>1. Path(inner, head, <<>>)
    BY <1>2 DEF Path, Cell, Succ, Cells, ToSet
  <2>2. Listing = <<>>
    BY <2>1, PathListed DEF Listing
  <2> QED
    BY <2>1, <2>2 DEF Shape
<1> QED
  BY <1>1, <1>4, <1>5, <1>6 DEF CInv, AInv, LInv

(* The steps of the calls keep AInv ...                                    *)
LEMMA ProceedSees ==
  ASSUME BInv, AInv, NEW t \in Threads, Proceed(t)
  PROVE  AInv'
<1>1. TInv /\ GInv /\ OnPath
  BY DEF BInv, GInv
<1>2. Fresh' /\ Copies' /\ Shape' /\ Found'
  BY <1>1, FreshStep, CopiesStep, ShapeStep, FoundStep DEF AInv
<1>3. Ranked' /\ OrderKnown' /\ LinksAscend' /\ ReaderSees'
  BY <1>1, RankedStep, OrderKnownStep, LinksAscendStep, ReaderSeesStep DEF AInv
<1> QED
  BY <1>2, <1>3 DEF AInv

(* ... and the rest of CInv ...                                            *)
LEMMA ClientsProceed ==
  ASSUME CInv, StackClients \/ OneWriter, NEW t \in Threads, Proceed(t)
  PROVE  AInv' /\ Allowed' /\ WritersNeverPanic'
<1>1. BInv /\ AInv /\ TInv /\ GInv /\ OnPath
  BY AllowedApart DEF CInv, BInv, GInv
<1>2. Allowed'
  BY <1>1, AllowedStep DEF CInv
<1>3. WritersNeverPanic'
  <2>1. /\ call[t].method \in {"pop", "remove_count", "pushOrdered"}
        /\ pc[t] \in {"getTest", "getLoad"}
        => inner[cur(t)] # Null
    BY <1>1 DEF AInv, Found, Busy
  <2> QED
    BY <1>1, <2>1, NoPanicStep DEF CInv
<1> QED
  BY <1>1, <1>2, <1>3, ProceedSees

(* ... and by every step ...                                               *)
LEMMA ClientsStep ==
  ASSUME CInv, StackClients \/ OneWriter, [Next]_vars
  PROVE  CInv'
<1>1. TInv' /\ GInv' /\ (~Ordered => LInv')
  BY TypesStep, PathsStep, LocksStep DEF CInv
<1>2. ASSUME NEW t \in Threads, Call(t) PROVE AInv' /\ Allowed' /\ WritersNeverPanic'
  <2>1. CASE Starts(t)
    <3>1. /\ Entry(pc'[t], call'[t].method)
          /\ \A u \in Threads \ {t} : pc'[u] = pc[u] /\ call'[u] = call[u]
      BY <2>1, StartShape DEF CInv
    <3>2. WritersNeverPanic'
      BY <3>1 DEF CInv, WritersNeverPanic, At, Entry
    <3> QED
      BY <1>2, <2>1, <3>2, CallSees DEF CInv
  <2>2. CASE SetEnforceNoneq(t)
    BY <2>2, NoneqSees DEF CInv, SetEnforceNoneq, WritersNeverPanic, At
  <2> QED
    BY <1>2, <2>1, <2>2, CallStarts DEF CInv
<1>3. ASSUME NEW t \in Threads, Proceed(t) PROVE AInv' /\ Allowed' /\ WritersNeverPanic'
  BY <1>3, ClientsProceed
<1>4. ASSUME UNCHANGED vars PROVE AInv' /\ Allowed' /\ WritersNeverPanic'
  <2>. /\ inner' = inner /\ reg' = reg /\ pc' = pc /\ call' = call /\ kept' = kept
       /\ enforce' = enforce /\ Listing' = Listing /\ rank' = rank /\ edited' = edited
    BY <1>4 DEF vars, cells, Listing
  <2>1. Allowed' /\ WritersNeverPanic' /\ LinksAscend' /\ Shape'
    BY DEF CInv, AInv, Allowed, WritersNeverPanic, LinksAscend, Shape, Doing, At
  <2>2. Fresh' /\ Copies'
    BY DEF CInv, AInv, Fresh, Copies, Copying, Doing, At, cur
  <2>3. Found' /\ OrderKnown'
    BY DEF CInv, AInv, Found, OrderKnown, Busy, Linked, TakesNode, Below, Doing,
       At, cur
  <2>5. Ranked'
    BY DEF CInv, AInv, Ranked, Carrying, Doing, At
  <2>4. ReaderSees'
    BY DEF CInv, AInv, ReaderSees, Reading, Sees, Doing, cur
  <2> QED
    BY <2>1, <2>2, <2>3, <2>4, <2>5 DEF AInv
<1> QED
  BY <1>1, <1>2, <1>3, <1>4 DEF CInv, Next

(* ... so that it holds throughout.                                        *)
LEMMA ClientsSafe ==
  ASSUME StackClients \/ OneWriter
  PROVE  Spec => []CInv
BY ClientsInit, ClientsStep, PTL DEF Spec, SafetySpec

(* What the cells of a list point to from head on is one path without a    *)
(* cycle: no store of a push, pop or remove_count loses the rest of the    *)
(* list or links a node twice, and the copy that a MutCowData stores when  *)
(* it is dropped undoes nobody's store.                                    *)
THEOREM ListIsPath ==
  ASSUME StackClients \/ OneWriter
  PROVE  Spec => []Shape
<1>1. CInv => Shape
  BY DEF CInv, AInv
<1> QED
  BY <1>1, ClientsSafe, PTL

(* A find, contains or iteration that comes to the end has not overlooked  *)
(* an item that was in the list all the time, whatever the pushes, pops    *)
(* and removals did to the nodes that it stood on.                         *)
THEOREM FindsMissNothing ==
  ASSUME StackClients \/ OneWriter
  PROVE  Spec => []FindComplete
<1>1. CInv => FindComplete
  <2> SUFFICES ASSUME CInv, NEW t \in Threads, Doing(t, "find"), At(t, "test"), IsNull(cur(t))
               PROVE  kept[t] \cap call[t].want = {}
    BY DEF FindComplete
  <2>1. Reading(t)
    BY DEF Reading, At
  <2>2. PICK s \in Seq(Items) : Sees(t, s)
    BY <2>1 DEF CInv, AInv, ReaderSees
  <2>3. Path(inner, cur(t), s) /\ inner[cur(t)] = Null
    BY <2>2 DEF Sees, IsNull
  <2>4. Len(s) = 0
    BY <2>3, PathFacts, ListAssumption
  <2>5. ToSet(s) = {}
    BY <2>3, <2>4, PathFacts
  <2> QED
    BY <2>2, <2>5 DEF Sees
<1> QED
  BY <1>1, ClientsSafe, PTL

(* The links of a list with an order function ascend as long as one thread *)
(* writes to it and changes nothing the order function compares through a  *)
(* guard of iter_mut: those of the nodes that it has unlinked, too.        *)
THEOREM LinksStayAscending ==
  ASSUME OneWriter
  PROVE  Spec => []LinksAscend
<1>1. CInv => LinksAscend
  BY DEF CInv, AInv
<1> QED
  BY <1>1, ClientsSafe, PTL

(* ... and so do the listed items: it takes a second writer, or a change   *)
(* of what is compared, to put an item out of order.                       *)
THEOREM OneWriterSorts ==
  ASSUME OneWriter
  PROVE  Spec => []Sorted
<1>1. CInv => Sorted
  <2> SUFFICES ASSUME CInv, Ordered, ~edited, NEW k \in 2 .. Len(Listing)
               PROVE  Key[Listing[k - 1]] <= Key[Listing[k]]
    BY DEF Sorted
  <2> DEFINE s == Listing
  <2>1. Path(inner, head, s)
    BY DEF CInv, AInv, Shape
  <2> HIDE DEF s
  <2>2. /\ Len(s) \in Nat /\ \A j \in 1 .. Len(s) : s[j] \in Items
        /\ \A j \in 1 .. Len(s) : inner[s[j]] = IF j < Len(s) THEN s[j + 1] ELSE Null
    BY <2>1, PathFacts
  <2>3. k - 1 \in 1 .. Len(s) /\ k - 1 < Len(s) /\ (k - 1) + 1 = k /\ k \in 1 .. Len(s)
    BY <2>2 DEF s
  <2>4. inner[s[k - 1]] = s[k] /\ s[k - 1] \in Items /\ s[k] # Null
    BY <2>2, <2>3, ListAssumption
  <2>5. Key[s[k - 1]] <= Key[s[k]]
    BY <2>4 DEF CInv, AInv, LinksAscend
  <2> QED
    BY <2>5 DEF s
<1> QED
  BY <1>1, ClientsSafe, PTL

(* No push, pop or remove_count of a thread that writes alone panics, with *)
(* an order function or without one: what it has tested is there when it   *)
(* loads it.                                                               *)
THEOREM OneWriterSafe ==
  ASSUME OneWriter
  PROVE  Spec => []WritersNeverPanic
<1>1. CInv => WritersNeverPanic
  BY DEF CInv
<1> QED
  BY <1>1, ClientsSafe, PTL
=============================================================================
