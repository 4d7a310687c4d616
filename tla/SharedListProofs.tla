-------------------------- MODULE SharedListProofs --------------------------
(***************************************************************************)
(* Proofs about SharedList: the types of its variables, the paths of its   *)
(* methods, and that no push, pop or remove_count of an unordered list     *)
(* panics, for any number of threads, items and calls.                     *)
(***************************************************************************)
EXTENDS SharedList, TLAPS

(* The strengthening of TypeOK.  A push brings an item, a method that      *)
(* follows or stores what it has found has found a node, and remove_count  *)
(* only counts down from above zero.                                       *)
ItemKnown ==
  \A t \in Threads : call[t].method \in Pushes => call[t].item \in Items

NodeKnown ==
  \A t \in Threads :
    /\ pc[t] \in {"next", "noneq", "move", "mutDrop"} => reg[t].node \in Items
    /\ Doing(t, "remove_count") /\ At(t, "store") => reg[t].node \in Items

CountPositive ==
  \A t \in Threads :
    pc[t] \in {"getWait", "getTest", "getLoad", "next", "store", "removeCount"} =>
      (Doing(t, "remove_count") => call[t].count > 0)

(* The places that only one method comes to.                               *)
MethodKnown ==
  \A t \in Threads :
    /\ At(t, "removeCount") => Doing(t, "remove_count")
    /\ At(t, "popCount") => Doing(t, "pop")
    /\ At(t, "reload") => call[t].method \in Pushes
    /\ pc[t] \in {"decideWait", "decide", "noneq", "setLock", "setImm", "setStore"} =>
         Doing(t, "pushOrdered")
    /\ pc[t] \in {"mutWait", "mutTest", "mutLock", "mutLoad"} => Doing(t, "iter_mut")

TInv == TypeOK /\ ItemKnown /\ NodeKnown /\ CountPositive /\ MethodKnown

(* The places each method comes to.                                        *)
OnPath ==
  \A t \in Threads :
    \/ Doing(t, "none") /\ pc[t] \in {"idle", "panicked"}
    \/ /\ Doing(t, "pushHead")
       /\ pc[t] \in {"lock", "testWait", "test", "reload", "store", "unlock", "pushCount"}
    \/ /\ Ordered /\ Doing(t, "pushOrdered")
       /\ pc[t] \in {"decideWait", "decide", "lock", "testWait", "test",
                     "getWait", "getTest", "getLoad", "noneq", "reload", "store", "move",
                     "setLock", "setImm", "setStore", "setFreeImm", "setFreeMut",
                     "unlock", "pushCount", "panicked"}
    \/ Ordered /\ Doing(t, "pushSkipped") /\ At(t, "unlock")
    \/ /\ Doing(t, "pop")
       /\ pc[t] \in {"lock", "testWait", "test", "getWait", "getTest", "getLoad", "next",
                     "popCount", "store", "unlock", "panicked"}
    \/ /\ Doing(t, "remove_count")
       /\ pc[t] \in {"lock", "testWait", "test", "getWait", "getTest", "getLoad", "next",
                     "store", "removeCount", "move", "unlock", "panicked"}
    \/ /\ Doing(t, "find")
       /\ pc[t] \in {"testWait", "test", "getWait", "getTest", "getLoad", "panicked"}
    \/ /\ Doing(t, "iter_mut")
       /\ pc[t] \in {"testWait", "test", "mutWait", "mutTest", "mutLock", "mutLoad",
                     "getWait", "getTest", "getLoad", "mutDrop", "panicked"}

(* The item of a push that has not stored yet is nowhere in the list, so   *)
(* that its cell is nobody's.                                              *)
Pending(t) ==
  /\ call[t].method \in Pushes
  /\ pc[t] \in {"decideWait", "decide", "lock", "testWait", "test", "getWait", "getTest",
                "getLoad", "noneq", "reload", "store", "move", "setLock", "setImm", "setStore"}
Nowhere(i) ==
  /\ \A c \in Cells : inner[c] # i
  /\ \A u \in Threads : reg[u].cur # i /\ reg[u].node # i /\ reg[u].ptr # i

PendingNowhere ==
  /\ \A i \in unused : Nowhere(i)
  /\ \A t \in Threads : Pending(t) =>
       /\ call[t].item \in Items \ unused
       /\ Nowhere(call[t].item)
       /\ \A u \in Threads \ {t} : Pending(u) => call[u].item # call[t].item

(* The invariant of every list, on top of TInv.                            *)
GInv == OnPath /\ PendingNowhere

(* A thread holds the lock of cur: a writer from create_lock to            *)
(* remove_lock, an iter_mut while its guard is alive.                      *)
Holding(t) ==
  \/ /\ call[t].method \in {"pushHead", "pop", "remove_count"}
     /\ pc[t] \in {"testWait", "test", "getWait", "getTest", "getLoad", "reload", "next",
                   "popCount", "store", "removeCount", "move", "unlock"}
  \/ /\ Doing(t, "iter_mut")
     /\ pc[t] \in {"mutLoad", "getWait", "getTest", "getLoad", "mutDrop"}

OneHolder ==
  \A t \in Threads : Holding(t) =>
    /\ mutLock[cur(t)]
    /\ \A u \in Threads \ {t} : Holding(u) => cur(u) # cur(t)

(* Between its test and its load of a cell, the cell of a writer stays.    *)
Loading(t) ==
  /\ call[t].method \in {"pop", "remove_count"}
  /\ pc[t] \in {"getWait", "getTest", "getLoad"}
NodeStays == \A t \in Threads : Loading(t) => inner[cur(t)] # Null

(* The invariant of an unordered list, on top of GInv.                     *)
LInv == OneHolder /\ NodeStays /\ WritersNeverPanic

(* How a call starts.                                                      *)
Entry(place, method) ==
  \/ Ordered /\ place = "decideWait" /\ method = "pushOrdered"
  \/ ~Ordered /\ place = "lock" /\ method = "pushHead"
  \/ place = "lock" /\ method \in {"pop", "remove_count"}
  \/ place = "testWait" /\ method \in {"find", "iter_mut"}

Starts(t) ==
  \E place \in Places, method \in Methods, i \in Nodes, want \in Predicates \cup {{}}, n \in Nat :
    /\ Entry(place, method)
    /\ method \in Pushes => i \in Items
    /\ Begin(t, place, method, i, want, n)

(* A push that starts brings an item that is new to the list.              *)
Brings(t) ==
  call'[t].method \in Pushes =>
    /\ call'[t].item \in Items \ unused'
    /\ Nowhere(call'[t].item)
    /\ \A u \in Threads \ {t} : Pending(u) => call[u].item # call'[t].item
-----------------------------------------------------------------------------
(* Types.                                                                  *)

(* The list holds items.                                                   *)
LEMMA ListedItems == Listed \subseteq Items
BY DEF Listed

(* What len is reduced to fits its usize.                                  *)
LEMMA ModRange ==
  ASSUME NEW a \in Nat, NEW m \in Nat \ {0}
  PROVE  a % m \in 0 .. m - 1
OBVIOUS

(* Each access of a method leads to a place.                               *)
LEMMA PcType ==
  ASSUME TypeOK, NEW t \in Threads, Proceed(t)
  PROVE  pc' \in [Threads -> Places]
<1> USE DEF TypeOK, Places, At, Goto, Step
<1>1. CASE WaitImm(t)
  BY <1>1 DEF WaitImm, Tests
<1>2. CASE Decide(t) \/ Lock(t) \/ Reload(t) \/ PushStore(t) \/ SetLock(t) \/
           SetImm(t) \/ SetStore(t) \/ SetFreeImm(t) \/ SetFreeMut(t)
  BY <1>2 DEF Decide, Lock, Reload, PushStore, SetLock, SetImm, SetStore,
      SetFreeImm, SetFreeMut
<1>3. CASE LoadNext(t) \/ PopCount(t) \/ PopStore(t) \/ RemoveStore(t) \/
           RemoveCount(t) \/ Move(t)
  BY <1>3 DEF LoadNext, PopCount, PopStore, RemoveStore, RemoveCount, Move
<1>4. CASE FindNext(t) \/ MutLock(t) \/ MutLoad(t) \/ MutDrop(t)
  BY <1>4 DEF FindNext, MutLock, MutLoad, MutDrop
<1>5. CASE Test(t)
  BY <1>5 DEF Test, Return, AtEnd, AtNode
<1>6. CASE PushCount(t) \/ Unlock(t) \/ FindHit(t)
  BY <1>6 DEF PushCount, Unlock, FindHit, Return
<1>7. CASE GetTest(t) \/ GetNull(t) \/ GetPanic(t)
  BY <1>7 DEF GetTest, GetNull, GetPanic, NodeGone, Panic
<1>8. CASE PushSkip(t) \/ PushCompare(t) \/ PushFind(t) \/ PopFind(t) \/ RemoveFind(t) \/
           MutFind(t)
  BY <1>8 DEF PushSkip, PushCompare, PushFind, PopFind, RemoveFind, MutFind, Got
<1> QED
  BY <1>1, <1>2, <1>3, <1>4, <1>5, <1>6, <1>7, <1>8 DEF Proceed

(* The record of a call keeps its type: count does not go below zero.      *)
LEMMA CallType ==
  ASSUME TInv, NEW t \in Threads, Proceed(t)
  PROVE  call' \in [Threads -> Calls]
<1>. call \in [Threads -> Calls]
  BY DEF TInv, TypeOK
<1>. call[t] \in Calls /\ call[t].count \in Nat
  BY DEF Calls
<1> USE DEF Calls
<1>1. CASE WaitImm(t) \/ Lock(t) \/ Reload(t) \/ PushStore(t) \/ SetLock(t)
           \/ SetImm(t) \/ SetStore(t) \/ SetFreeImm(t) \/ SetFreeMut(t)
  BY <1>1 DEF WaitImm, Lock, Reload, PushStore, SetLock, SetImm, SetStore,
      SetFreeImm, SetFreeMut
<1>2. CASE LoadNext(t) \/ PopCount(t) \/ PopStore(t) \/ RemoveStore(t) \/
           Move(t) \/ FindNext(t) \/ MutLock(t) \/ MutLoad(t) \/ MutDrop(t)
  BY <1>2 DEF LoadNext, PopCount, PopStore, RemoveStore, Move, FindNext,
      MutLock, MutLoad, MutDrop
<1>3. CASE PushCompare(t) \/ PushFind(t) \/ PopFind(t) \/ RemoveFind(t) \/ MutFind(t)
  BY <1>3 DEF PushCompare, PushFind, PopFind, RemoveFind, MutFind
<1>4. CASE GetTest(t) \/ GetNull(t) \/ GetPanic(t)
  BY <1>4 DEF GetTest, GetNull, GetPanic, NodeGone, Panic
<1>5. CASE Decide(t)
  BY <1>5 DEF Decide, Methods, Pushes
<1>6. CASE PushSkip(t)
  BY <1>6 DEF PushSkip, Methods
<1>7. CASE Test(t) \/ PushCount(t) \/ Unlock(t) \/ FindHit(t)
  BY <1>7 DEF Test, PushCount, Unlock, FindHit, Return, NoCall, Nodes
<1>8. CASE RemoveCount(t)
  <2>1. call[t].count \in Nat \ {0}
    BY <1>8 DEF RemoveCount, TInv, CountPositive, MethodKnown, Step, At
  <2>2. call' = [call EXCEPT ![t].count = @ - 1]
    BY <1>8 DEF RemoveCount
  <2> QED
    BY <2>1, <2>2
<1> QED
  BY <1>1, <1>2, <1>3, <1>4, <1>5, <1>6, <1>7, <1>8 DEF Proceed

(* The locals keep their types: cur moves on to nodes only.                *)
LEMMA RegType ==
  ASSUME TInv, NEW t \in Threads, Proceed(t)
  PROVE  reg' \in [Threads -> Regs]
<1>. /\ reg \in [Threads -> Regs] /\ reg[t].cur \in Cells
     /\ head \in Cells /\ Null \in Nodes
  BY DEF TInv, TypeOK, Regs, Cells, Nodes
<1>. inner[reg[t].cur] \in Nodes
  BY DEF TInv, TypeOK, CellsType
<1>. \A i \in Items : i \in Cells /\ inner[i] \in Nodes
  BY DEF TInv, TypeOK, CellsType, Cells
<1>. \A c \in Cells : rank[c] \in Nat
  BY DEF TInv, TypeOK
<1>. \A n \in Nodes : n = Null \/ n \in Items
  BY DEF Nodes
<1> USE DEF Regs, cur
<1>1. CASE WaitImm(t) \/ Decide(t) \/ Lock(t) \/ PushStore(t) \/ SetLock(t)
           \/ SetImm(t) \/ SetStore(t) \/ SetFreeImm(t) \/ SetFreeMut(t)
  BY <1>1 DEF WaitImm, Decide, Lock, PushStore, SetLock, SetImm, SetStore,
      SetFreeImm, SetFreeMut
<1>2. CASE PopCount(t) \/ PopStore(t) \/ RemoveCount(t) \/ MutLock(t)
  BY <1>2 DEF PopCount, PopStore, RemoveCount, MutLock
<1>3. CASE GetTest(t) \/ GetNull(t) \/ GetPanic(t)
  BY <1>3 DEF GetTest, GetNull, GetPanic, NodeGone, Panic
<1>4. CASE Reload(t) \/ MutLoad(t)
  BY <1>4 DEF Reload, MutLoad
<1>5. CASE LoadNext(t)
  BY <1>5 DEF LoadNext, TInv, NodeKnown, Step, At
<1>6. CASE PushSkip(t) \/ PushCompare(t) \/ PushFind(t) \/ PopFind(t) \/ RemoveFind(t) \/
           MutFind(t)
  BY <1>6 DEF PushSkip, PushCompare, PushFind, PopFind, RemoveFind, MutFind, Got, Node
<1>7. CASE FindNext(t)
  BY <1>7 DEF FindNext, Node
<1>8. CASE Test(t) \/ PushCount(t) \/ Unlock(t) \/ FindHit(t)
  BY <1>8 DEF Test, PushCount, Unlock, FindHit, Return, NoReg
<1>9. CASE Move(t) \/ MutDrop(t)
  BY <1>9 DEF Move, MutDrop, NoReg, TInv, NodeKnown, Step, At
<1>10. CASE RemoveStore(t)
  BY <1>10 DEF RemoveStore, TInv, NodeKnown, Step, At
<1> QED
  BY <1>1, <1>2, <1>3, <1>4, <1>5, <1>6, <1>7, <1>8, <1>9, <1>10 DEF Proceed

(* The variables that are not kept by thread.                              *)
LEMMA SharedType ==
  ASSUME TInv, NEW t \in Threads, Proceed(t)
  PROVE  /\ CellsType' /\ len' \in 0 .. LenMod - 1 /\ enforce' \in BOOLEAN
         /\ unused' \subseteq Items /\ calls' \in 0 .. MaxCalls
         /\ kept' \in [Threads -> SUBSET Items] /\ leaked' \subseteq Cells
         /\ rank' \in [Cells -> Nat] /\ edited' \in BOOLEAN
<1> USE DEF TInv, TypeOK, CellsType, cells
<1>. reg[t] \in Regs
  BY DEF TInv, TypeOK
<1>. cur(t) \in Cells /\ reg[t].ptr \in Nodes /\ reg[t].rank \in Nat
  BY DEF Regs, cur
<1>. call[t].item \in Nodes
  BY DEF TInv, TypeOK, Calls
<1>. /\ call[t].item \in Items => Key[call[t].item] \in Nat
     /\ \A r \in Edits : r \in Nat
  BY ListAssumption
<1>1. CASE WaitImm(t) \/ Decide(t) \/ Test(t) \/ Reload(t) \/ LoadNext(t) \/
           FindNext(t) \/ MutLoad(t) \/ FindHit(t)
  BY <1>1 DEF WaitImm, Decide, Test, Reload, LoadNext, FindNext, MutLoad,
      FindHit
<1>2. CASE PushSkip(t) \/ PushCompare(t) \/ PushFind(t) \/ PopFind(t) \/ RemoveFind(t) \/
           MutFind(t)
  BY <1>2 DEF PushSkip, PushCompare, PushFind, PopFind, RemoveFind, MutFind, Got
<1>3. CASE Lock(t) \/ SetLock(t) \/ MutLock(t)
  BY <1>3 DEF Lock, SetLock, MutLock, TakeMutLock
<1>4. CASE SetFreeMut(t) \/ Unlock(t) \/ Move(t)
  BY <1>4 DEF SetFreeMut, Unlock, Move, FreeMutLock
<1>5. CASE SetImm(t) \/ SetFreeImm(t)
  BY <1>5 DEF SetImm, SetFreeImm, TurnImmLock, FreeImmLock
<1>6. CASE SetStore(t) \/ PushStore(t)
  <2>1. call[t].item \in Items
    BY <1>6 DEF SetStore, PushStore, ItemKnown, MethodKnown, Step, At, Doing, Pushes
  <2> QED
    BY <1>6, <2>1 DEF SetStore, PushStore, Narrow, Nodes
<1>7. CASE PopStore(t) \/ RemoveStore(t)
  BY <1>7 DEF PopStore, RemoveStore, StoreNode, Store, Narrow
<1>10. CASE MutDrop(t)
  <2>1. PICK r \in Nat : StoreNode(cur(t), reg[t].ptr, r) /\ edited' = (edited \/ r # reg[t].rank)
    BY <1>10 DEF MutDrop
  <2> QED
    BY <1>10, <2>1 DEF MutDrop, StoreNode, Store, Narrow
<1>8. CASE GetTest(t) \/ GetNull(t) \/ GetPanic(t)
  BY <1>8 DEF GetTest, GetNull, GetPanic, NodeGone, Panic, StoreNode, Store, Narrow
<1>9. CASE PushCount(t) \/ PopCount(t) \/ RemoveCount(t)
  BY <1>9, ListAssumption, ModRange DEF PushCount, PopCount, RemoveCount,
      Decrement
<1> QED
  BY <1>1, <1>2, <1>3, <1>4, <1>5, <1>6, <1>7, <1>8, <1>9, <1>10 DEF Proceed

(* A step of one thread leaves where the others are.                       *)
LEMMA Elsewhere ==
  ASSUME TypeOK, NEW t \in Threads, Proceed(t)
  PROVE  \A u \in Threads \ {t} :
           pc'[u] = pc[u] /\ call'[u] = call[u] /\ reg'[u] = reg[u]
<1> USE DEF TypeOK, Goto, Step
<1>1. CASE WaitImm(t) \/ Lock(t) \/ PushStore(t) \/ SetLock(t) \/ SetImm(t)
           \/ SetStore(t) \/ SetFreeImm(t) \/ SetFreeMut(t) \/ PopCount(t) \/
           PopStore(t) \/ MutLock(t)
  BY <1>1 DEF WaitImm, Lock, PushStore, SetLock, SetImm, SetStore,
      SetFreeImm, SetFreeMut, PopCount, PopStore, MutLock
<1>2. CASE Decide(t) \/ RemoveCount(t)
  BY <1>2 DEF Decide, RemoveCount
<1>3. CASE Reload(t) \/ LoadNext(t) \/ RemoveStore(t) \/ Move(t) \/
           FindNext(t) \/ MutLoad(t) \/ MutDrop(t)
  BY <1>3 DEF Reload, LoadNext, RemoveStore, Move, FindNext, MutLoad,
      MutDrop
<1>4. CASE GetTest(t) \/ GetNull(t) \/ GetPanic(t)
  BY <1>4 DEF GetTest, GetNull, GetPanic, NodeGone, Panic
<1>5. CASE PushSkip(t) \/ PushCompare(t) \/ PushFind(t) \/ PopFind(t) \/ RemoveFind(t) \/
           MutFind(t)
  BY <1>5 DEF PushSkip, PushCompare, PushFind, PopFind, RemoveFind, MutFind, Got
<1>6. CASE Test(t) \/ PushCount(t) \/ Unlock(t) \/ FindHit(t)
  BY <1>6 DEF Test, PushCount, Unlock, FindHit, Return
<1> QED
  BY <1>1, <1>2, <1>3, <1>4, <1>5, <1>6 DEF Proceed

(* A push keeps the item it was called with.                               *)
LEMMA ItemKnownStep ==
  ASSUME TInv, NEW t \in Threads, Proceed(t)
  PROVE  ItemKnown'
<1>. \A u \in Threads \ {t} : call'[u] = call[u]
  BY Elsewhere DEF TInv
<1>. call \in [Threads -> Calls] /\ call[t] \in Calls
  BY DEF TInv, TypeOK
<1>1. \/ call'[t] = NoCall
      \/ /\ call'[t].item = call[t].item
         /\ call'[t].method \in Pushes => call[t].method \in Pushes
  <2>1. CASE WaitImm(t) \/ Lock(t) \/ Reload(t) \/ PushStore(t) \/ SetLock(t)
             \/ SetImm(t) \/ SetStore(t) \/ SetFreeImm(t) \/ SetFreeMut(t)
    BY <2>1 DEF WaitImm, Lock, Reload, PushStore, SetLock, SetImm, SetStore,
        SetFreeImm, SetFreeMut
  <2>2. CASE LoadNext(t) \/ PopCount(t) \/ PopStore(t) \/ RemoveStore(t) \/
             Move(t) \/ FindNext(t) \/ MutLock(t) \/ MutLoad(t) \/ MutDrop(t)
    BY <2>2 DEF LoadNext, PopCount, PopStore, RemoveStore, Move, FindNext,
        MutLock, MutLoad, MutDrop
  <2>3. CASE PushCompare(t) \/ PushFind(t) \/ PopFind(t) \/ RemoveFind(t) \/ MutFind(t)
    BY <2>3 DEF PushCompare, PushFind, PopFind, RemoveFind, MutFind
  <2>4. CASE GetTest(t) \/ GetNull(t) \/ GetPanic(t)
    BY <2>4 DEF GetTest, GetNull, GetPanic, Panic
  <2>5. CASE Decide(t)
    BY <2>5 DEF Decide, Calls, Pushes, TInv, MethodKnown, Step, At, Doing
  <2>6. CASE PushSkip(t)
    BY <2>6 DEF PushSkip, Calls, Pushes
  <2>7. CASE RemoveCount(t)
    BY <2>7 DEF RemoveCount, Calls
  <2>8. CASE Test(t) \/ PushCount(t) \/ Unlock(t) \/ FindHit(t)
    BY <2>8 DEF Test, PushCount, Unlock, FindHit, Return
  <2> QED
    BY <2>1, <2>2, <2>3, <2>4, <2>5, <2>6, <2>7, <2>8 DEF Proceed
<1> QED
  BY <1>1 DEF TInv, ItemKnown, NoCall, Pushes

(* The node a method follows is one it has found.                          *)
LEMMA NodeKnownStep ==
  ASSUME TInv, NEW t \in Threads, Proceed(t)
  PROVE  NodeKnown'
<1> USE DEF TInv, NodeKnown, At, Doing
<1>. \A u \in Threads \ {t} :
       pc'[u] = pc[u] /\ call'[u] = call[u] /\ reg'[u] = reg[u]
  BY Elsewhere
<1>. pc \in [Threads -> Places] /\ call \in [Threads -> Calls] /\ reg \in [Threads -> Regs]
  BY DEF TypeOK
<1>. reg[t].cur \in Cells
  BY DEF Regs
<1>. Node(t) = Null \/ Node(t) \in Items
  BY DEF TypeOK, CellsType, Nodes, Node, cur
<1> SUFFICES
      /\ pc'[t] \in {"next", "noneq", "move", "mutDrop"} => reg'[t].node \in Items
      /\ call'[t].method = "remove_count" /\ pc'[t] = "store" => reg'[t].node \in Items
  OBVIOUS
<1> USE DEF Goto, Step
<1>1. CASE WaitImm(t)
  BY <1>1 DEF WaitImm, Tests
<1>2. CASE Decide(t) \/ Lock(t) \/ PushStore(t) \/ SetLock(t) \/ SetImm(t) \/
           SetStore(t) \/ SetFreeImm(t) \/ SetFreeMut(t)
  BY <1>2 DEF Decide, Lock, PushStore, SetLock, SetImm, SetStore,
      SetFreeImm, SetFreeMut
<1>3. CASE PopCount(t) \/ PopStore(t) \/ RemoveCount(t) \/ MutLock(t)
  BY <1>3 DEF PopCount, PopStore, RemoveCount, MutLock, MethodKnown
<1>4. CASE LoadNext(t)
  BY <1>4 DEF LoadNext
<1>5. CASE Reload(t) \/ MutLoad(t)
  BY <1>5 DEF Reload, MutLoad, MethodKnown, Pushes
<1>6. CASE GetTest(t) \/ GetNull(t) \/ GetPanic(t)
  BY <1>6 DEF GetTest, GetNull, GetPanic, NodeGone, Panic
<1>7. CASE PushSkip(t) \/ PushCompare(t) \/ PushFind(t) \/ PopFind(t) \/ RemoveFind(t) \/
           MutFind(t)
  BY <1>7 DEF PushSkip, PushCompare, PushFind, PopFind, RemoveFind, MutFind, Got, Regs
<1>8. CASE RemoveStore(t) \/ Move(t) \/ FindNext(t) \/ MutDrop(t)
  BY <1>8 DEF RemoveStore, Move, FindNext, MutDrop
<1>9. CASE Test(t) \/ PushCount(t) \/ Unlock(t) \/ FindHit(t)
  BY <1>9 DEF Test, PushCount, Unlock, FindHit, Return, AtEnd, AtNode,
      NoCall
<1> QED
  BY <1>1, <1>2, <1>3, <1>4, <1>5, <1>6, <1>7, <1>8, <1>9 DEF Proceed

(* remove_count goes on to a node only while its count is above zero.      *)
LEMMA CountPositiveStep ==
  ASSUME TInv, NEW t \in Threads, Proceed(t)
  PROVE  CountPositive'
<1> USE DEF TInv, CountPositive, At, Doing
<1>. \A u \in Threads \ {t} :
       pc'[u] = pc[u] /\ call'[u] = call[u] /\ reg'[u] = reg[u]
  BY Elsewhere
<1>. pc \in [Threads -> Places] /\ call \in [Threads -> Calls]
  BY DEF TypeOK
<1>. call[t] \in Calls /\ call[t].count \in Nat
  BY DEF Calls
<1> SUFFICES
      pc'[t] \in {"getWait", "getTest", "getLoad", "next", "store", "removeCount"} =>
        (call'[t].method = "remove_count" => call'[t].count > 0)
  OBVIOUS
<1> USE DEF Goto, Step
<1>1. CASE WaitImm(t)
  BY <1>1 DEF WaitImm, Tests
<1>2. CASE Decide(t) \/ Lock(t) \/ PushStore(t) \/ SetLock(t) \/ SetImm(t) \/
           SetStore(t) \/ SetFreeImm(t) \/ SetFreeMut(t)
  BY <1>2 DEF Decide, Lock, PushStore, SetLock, SetImm, SetStore,
      SetFreeImm, SetFreeMut
<1>3. CASE PopCount(t) \/ PopStore(t) \/ RemoveCount(t) \/ MutLock(t)
  BY <1>3 DEF PopCount, PopStore, RemoveCount, MutLock, MethodKnown
<1>4. CASE LoadNext(t) \/ RemoveStore(t)
  BY <1>4 DEF LoadNext, RemoveStore
<1>5. CASE Reload(t) \/ MutLoad(t)
  BY <1>5 DEF Reload, MutLoad, MethodKnown, Pushes
<1>6. CASE GetTest(t) \/ GetNull(t) \/ GetPanic(t)
  BY <1>6 DEF GetTest, GetNull, GetPanic, NodeGone, Panic
<1>7. CASE PushSkip(t) \/ PushCompare(t) \/ PushFind(t) \/ PopFind(t) \/ RemoveFind(t) \/
           MutFind(t)
  BY <1>7 DEF PushSkip, PushCompare, PushFind, PopFind, RemoveFind, MutFind, Got
<1>8. CASE Move(t) \/ FindNext(t) \/ MutDrop(t)
  BY <1>8 DEF Move, FindNext, MutDrop
<1>9. CASE Test(t) \/ PushCount(t) \/ Unlock(t) \/ FindHit(t)
  BY <1>9 DEF Test, PushCount, Unlock, FindHit, Return, AtEnd, AtNode,
      NoCall
<1> QED
  BY <1>1, <1>2, <1>3, <1>4, <1>5, <1>6, <1>7, <1>8, <1>9 DEF Proceed

(* A method comes to its own places only.                                  *)
LEMMA MethodKnownStep ==
  ASSUME TInv, NEW t \in Threads, Proceed(t)
  PROVE  MethodKnown'
<1> USE DEF TInv, MethodKnown, Pushes, At, Doing
<1>. \A u \in Threads \ {t} :
       pc'[u] = pc[u] /\ call'[u] = call[u] /\ reg'[u] = reg[u]
  BY Elsewhere
<1>. pc \in [Threads -> Places] /\ call \in [Threads -> Calls]
  BY DEF TypeOK
<1> SUFFICES
      /\ pc'[t] = "removeCount" => call'[t].method = "remove_count"
      /\ pc'[t] = "popCount" => call'[t].method = "pop"
      /\ pc'[t] = "reload" => call'[t].method \in {"pushHead", "pushOrdered"}
      /\ pc'[t] \in {"decideWait", "decide", "noneq", "setLock", "setImm", "setStore"} =>
           call'[t].method = "pushOrdered"
      /\ pc'[t] \in {"mutWait", "mutTest", "mutLock", "mutLoad"} => call'[t].method = "iter_mut"
  OBVIOUS
<1> USE DEF Goto, Step
<1>1. CASE WaitImm(t)
  BY <1>1 DEF WaitImm, Tests
<1>2. CASE Decide(t) \/ Lock(t) \/ PushStore(t) \/ SetLock(t) \/ SetImm(t) \/
           SetStore(t) \/ SetFreeImm(t) \/ SetFreeMut(t)
  BY <1>2 DEF Decide, Lock, PushStore, SetLock, SetImm, SetStore,
      SetFreeImm, SetFreeMut
<1>3. CASE PopCount(t) \/ PopStore(t) \/ RemoveCount(t) \/ MutLock(t)
  BY <1>3 DEF PopCount, PopStore, RemoveCount, MutLock
<1>4. CASE LoadNext(t) \/ RemoveStore(t)
  BY <1>4 DEF LoadNext, RemoveStore
<1>5. CASE Reload(t) \/ MutLoad(t)
  BY <1>5 DEF Reload, MutLoad
<1>6. CASE GetTest(t) \/ GetNull(t)
  BY <1>6 DEF GetTest, GetNull, Panic
<1>7. CASE GetPanic(t)
  BY <1>7 DEF GetPanic, NodeGone, Panic
<1>8. CASE PushSkip(t) \/ PushCompare(t) \/ PushFind(t) \/ PopFind(t) \/ RemoveFind(t) \/
           MutFind(t)
  BY <1>8 DEF PushSkip, PushCompare, PushFind, PopFind, RemoveFind, MutFind, Got
<1>9. CASE Move(t) \/ FindNext(t) \/ MutDrop(t)
  BY <1>9 DEF Move, FindNext, MutDrop
<1>10. CASE Test(t) \/ PushCount(t) \/ Unlock(t) \/ FindHit(t)
  BY <1>10 DEF Test, PushCount, Unlock, FindHit, Return, AtEnd, AtNode,
      NoCall
<1> QED
  BY <1>1, <1>2, <1>3, <1>4, <1>5, <1>6, <1>7, <1>8, <1>9, <1>10 DEF Proceed

(* The calls of a list start so, but for set_enforce_noneq.                *)
LEMMA CallStarts ==
  ASSUME TInv, NEW t \in Threads, Call(t)
  PROVE  (Starts(t) \/ SetEnforceNoneq(t)) /\ unused' \subseteq unused
<1>. /\ Null \in Nodes /\ Items \subseteq Nodes
     /\ {"decideWait", "lock", "testWait"} \subseteq Places
     /\ Pushes \cup {"pop", "remove_count", "find", "iter_mut"} \subseteq Methods
  BY DEF Nodes, Places, Methods, Ops, Pushes
<1>. {"pop", "remove_count", "find", "iter_mut"} \cap Pushes = {} /\ 0 \in Nat
  BY DEF Pushes
<1>1. CASE SetEnforceNoneq(t)
  BY <1>1 DEF SetEnforceNoneq
<1>2. ASSUME NEW i \in Items, CallPush(t, i)
      PROVE  Starts(t) /\ unused' \subseteq unused
  <2>1. CASE Ordered
    BY <1>2, <2>1 DEF CallPush, StartPush, Starts, Entry, Pushes
  <2>2. CASE ~Ordered
    BY <1>2, <2>2 DEF CallPush, StartPush, Starts, Entry, Pushes
  <2> QED
    BY <2>1, <2>2
<1>3. CASE CallPop(t)
  BY <1>3 DEF CallPop, Counted, Starts, Entry
<1>4. CASE CallIterMut(t)
  BY <1>4 DEF CallIterMut, Counted, Starts, Entry
<1>5. ASSUME NEW want \in Predicates, CallFind(t, want)
      PROVE  Starts(t) /\ unused' \subseteq unused
  BY <1>5 DEF CallFind, StartFind, Counted, Starts, Entry
<1>6. ASSUME NEW want \in Predicates, NEW n \in Counts, CallRemove(t, want, n)
      PROVE  Starts(t) /\ unused' \subseteq unused
  BY <1>6, ListAssumption DEF CallRemove, StartRemove, Counted, Starts, Entry
<1> QED
  BY <1>1, <1>2, <1>3, <1>4, <1>5, <1>6 DEF Call

(* What a start changes: the place and the call of its thread.             *)
LEMMA StartShape ==
  ASSUME TInv, NEW t \in Threads, Starts(t)
  PROVE  /\ inner' = inner /\ mutLock' = mutLock /\ immLock' = immLock /\ reg' = reg
         /\ len' = len /\ enforce' = enforce /\ leaked' = leaked
         /\ rank' = rank /\ edited' = edited
         /\ pc[t] = "idle" /\ Entry(pc'[t], call'[t].method) /\ call'[t] \in Calls
         /\ call'[t].method \in Pushes => call'[t].item \in Items
         /\ \A u \in Threads \ {t} : pc'[u] = pc[u] /\ call'[u] = call[u]
         /\ pc' \in [Threads -> Places] /\ call' \in [Threads -> Calls]
<1>. pc \in [Threads -> Places] /\ call \in [Threads -> Calls]
  BY DEF TInv, TypeOK
<1>1. PICK place \in Places, method \in Methods, i \in Nodes, want \in Predicates \cup {{}}, n \in Nat :
        /\ Entry(place, method)
        /\ method \in Pushes => i \in Items
        /\ Begin(t, place, method, i, want, n)
  BY DEF Starts
<1> DEFINE c == [method |-> method, item |-> i, want |-> want, count |-> n]
<1>2. c \in Calls /\ c.method = method /\ c.item = i
  BY DEF Calls
<1>3. /\ pc[t] = "idle" /\ pc' = [pc EXCEPT ![t] = place]
      /\ call' = [call EXCEPT ![t] = c]
      /\ UNCHANGED <<cells, len, enforce, reg, leaked, edited>>
  BY <1>1 DEF Begin, At, Goto
<1> HIDE DEF c
<1>4. /\ pc'[t] = place /\ call'[t] = c
      /\ \A u \in Threads \ {t} : pc'[u] = pc[u] /\ call'[u] = call[u]
      /\ pc' \in [Threads -> Places] /\ call' \in [Threads -> Calls]
  BY <1>2, <1>3
<1> QED
  BY <1>1, <1>2, <1>3, <1>4 DEF cells

(* The types of what a start sets.                                         *)
LEMMA StartTypes ==
  ASSUME TInv, NEW t \in Threads, Starts(t), unused' \subseteq unused,
         calls' \in 0 .. MaxCalls, kept' \in [Threads -> SUBSET Items]
  PROVE  TInv'
<1>1. TypeOK'
  BY StartShape DEF TInv, TypeOK, CellsType
<1>2. pc'[t] \in {"decideWait", "lock", "testWait"}
  BY StartShape DEF Entry
<1>3. \A u \in Threads \ {t} : pc'[u] = pc[u] /\ call'[u] = call[u] /\ reg'[u] = reg[u]
  BY StartShape
<1>4. reg' = reg
  BY StartShape
<1>5. ItemKnown'
  BY <1>3, StartShape DEF TInv, ItemKnown
<1>6. NodeKnown' /\ CountPositive' /\ MethodKnown'
  BY <1>2, <1>3, <1>4, StartShape DEF TInv, Entry, NodeKnown, CountPositive, MethodKnown, At, Doing
<1> QED
  BY <1>1, <1>5, <1>6 DEF TInv

(* A new call, and a thread that does nothing.                             *)
LEMMA CallTypes ==
  ASSUME TInv, NEW t \in Threads, Call(t)
  PROVE  TInv'
<1>. kept \in [Threads -> SUBSET Items] /\ calls \in 0 .. MaxCalls /\ MaxCalls \in Nat
  BY ListAssumption DEF TInv, TypeOK
<1>1. CASE SetEnforceNoneq(t)
  BY <1>1 DEF SetEnforceNoneq, TInv, TypeOK, ItemKnown, NodeKnown, CountPositive,
     MethodKnown, cells, CellsType, At, Doing
<1>2. calls' \in 0 .. MaxCalls
  BY DEF Call, SetEnforceNoneq, CallPush, StartPush, CallPop, CallFind, StartFind,
      CallRemove, StartRemove, CallIterMut, Counted
<1>3. kept' \in [Threads -> SUBSET Items]
  BY ListedItems DEF Call, SetEnforceNoneq, CallPush, StartPush, CallPop, CallFind,
      StartFind, CallRemove, StartRemove, CallIterMut
<1> QED
  BY <1>1, <1>2, <1>3, CallStarts, StartTypes

(* A step in which nothing happens.                                        *)
LEMMA IdleTypes ==
  ASSUME TInv, UNCHANGED vars
  PROVE  TInv'
BY DEF TInv, TypeOK, ItemKnown, NodeKnown, CountPositive, MethodKnown, vars, cells,
   CellsType, At, Doing

(* TInv is an inductive invariant of every list.                           *)
LEMMA TypesInit == Init => TInv
<1> SUFFICES ASSUME Init PROVE TInv
  OBVIOUS
<1> USE ListAssumption DEF Init
<1>1. CellsType
  BY DEF CellsInit, CellsType, Nodes
<1>2. len \in 0 .. LenMod - 1 /\ calls \in 0 .. MaxCalls
  OBVIOUS
<1>3. pc \in [Threads -> Places] /\ call \in [Threads -> Calls]
  BY DEF Places, Calls, NoCall, Nodes
<1>4. reg \in [Threads -> Regs]
  BY DEF Regs, NoReg, Nodes, Cells
<1>5. unused \subseteq Items /\ leaked \subseteq Cells /\ kept \in [Threads -> SUBSET Items]
  OBVIOUS
<1>6. enforce \in BOOLEAN
  OBVIOUS
<1>7. ItemKnown /\ NodeKnown /\ CountPositive /\ MethodKnown
  BY DEF ItemKnown, Pushes, NodeKnown, CountPositive, MethodKnown, NoCall, At, Doing
<1> QED
  BY <1>1, <1>2, <1>3, <1>4, <1>5, <1>6, <1>7 DEF TInv, TypeOK

(* Every step keeps the types.                                             *)
LEMMA TypesStep ==
  ASSUME TInv, [Next]_vars
  PROVE  TInv'
<1>1. ASSUME NEW t \in Threads, Call(t) PROVE TInv'
  BY <1>1, CallTypes
<1>2. ASSUME NEW t \in Threads, Proceed(t) PROVE TInv'
  <2>1. TypeOK'
    BY <1>2, PcType, CallType, RegType, SharedType DEF TInv, TypeOK
  <2> QED
    BY <1>2, <2>1, ItemKnownStep, NodeKnownStep, CountPositiveStep,
        MethodKnownStep DEF TInv
<1>3. CASE UNCHANGED vars
  BY <1>3, IdleTypes
<1> QED
  BY <1>1, <1>2, <1>3 DEF Next

(* The variables of a SharedList keep their types whatever its threads     *)
(* call: len stays in its usize, and no method follows or stores a node    *)
(* that it has not found.                                                  *)
THEOREM TypeCorrect == Spec => []TypeOK
<1>1. TInv /\ [Next]_vars => TInv'
  BY TypesStep
<1>2. TInv => TypeOK
  BY DEF TInv
<1> QED
  BY <1>1, <1>2, TypesInit, PTL DEF Spec, SafetySpec

-----------------------------------------------------------------------------
(* The paths of the methods, and the items they bring.                     *)

(* A method stays on its path, or panics.                                  *)
LEMMA OnPathStep ==
  ASSUME TInv, OnPath, NEW t \in Threads, Proceed(t)
  PROVE  OnPath'
<1>. \A u \in Threads \ {t} :
       pc'[u] = pc[u] /\ call'[u] = call[u] /\ reg'[u] = reg[u]
  BY Elsewhere DEF TInv
<1>. /\ pc \in [Threads -> Places] /\ call \in [Threads -> Calls]
     /\ reg \in [Threads -> Regs]
  BY DEF TInv, TypeOK
<1> DEFINE Of(m, p) ==
      \/ m = "none" /\ p \in {"idle", "panicked"}
      \/ /\ m = "pushHead"
         /\ p \in {"lock", "testWait", "test", "reload", "store", "unlock", "pushCount"}
      \/ /\ Ordered /\ m = "pushOrdered"
         /\ p \in {"decideWait", "decide", "lock", "testWait", "test",
                  "getWait", "getTest", "getLoad", "noneq", "reload", "store", "move",
                  "setLock", "setImm", "setStore", "setFreeImm", "setFreeMut",
                  "unlock", "pushCount", "panicked"}
      \/ Ordered /\ m = "pushSkipped" /\ p = "unlock"
      \/ /\ m = "pop"
         /\ p \in {"lock", "testWait", "test", "getWait", "getTest", "getLoad", "next",
                  "popCount", "store", "unlock", "panicked"}
      \/ /\ m = "remove_count"
         /\ p \in {"lock", "testWait", "test", "getWait", "getTest", "getLoad", "next",
                  "store", "removeCount", "move", "unlock", "panicked"}
      \/ /\ m = "find"
         /\ p \in {"testWait", "test", "getWait", "getTest", "getLoad", "panicked"}
      \/ /\ m = "iter_mut"
         /\ p \in {"testWait", "test", "mutWait", "mutTest", "mutLock", "mutLoad",
                  "getWait", "getTest", "getLoad", "mutDrop", "panicked"}
<1>. \A u \in Threads : Of(call[u].method, pc[u])
  BY DEF OnPath, Doing, At
<1> SUFFICES Of(call'[t].method, pc'[t])
  BY DEF OnPath, Doing, At
<1> USE DEF Goto, Step, At, Doing
<1>1. CASE WaitImm(t)
  BY <1>1 DEF WaitImm, Tests
<1>2. CASE Lock(t) \/ PushStore(t) \/ SetLock(t)
  BY <1>2 DEF Lock, PushStore, SetLock, Pushes
<1>3. CASE SetImm(t) \/ SetStore(t) \/ SetFreeImm(t) \/ SetFreeMut(t)
  BY <1>3 DEF SetImm, SetStore, SetFreeImm, SetFreeMut
<1>4. CASE LoadNext(t) \/ PopCount(t) \/ PopStore(t)
  BY <1>4 DEF LoadNext, PopCount, PopStore
<1>5. CASE RemoveStore(t) \/ RemoveCount(t) \/ Move(t)
  BY <1>5 DEF RemoveStore, RemoveCount, Move, Calls
<1>6. CASE Reload(t) \/ FindNext(t) \/ MutLock(t) \/ MutLoad(t) \/ MutDrop(t)
  BY <1>6 DEF Reload, FindNext, MutLock, MutLoad, MutDrop
<1>7. CASE GetTest(t) \/ GetNull(t)
  BY <1>7 DEF GetTest, GetNull, Panic, IsNull
<1>8. CASE GetPanic(t)
  BY <1>8 DEF GetPanic, NodeGone, Panic, Node
<1>9. CASE PopFind(t) \/ RemoveFind(t) \/ MutFind(t)
  BY <1>9 DEF PopFind, RemoveFind, MutFind, Got
<1>10. CASE Test(t)
  BY <1>10 DEF Test, Return, NoCall, AtEnd, AtNode
<1>11. CASE PushCount(t) \/ Unlock(t) \/ FindHit(t)
  BY <1>11 DEF PushCount, Unlock, FindHit, Return, NoCall, Pushes
<1>12. CASE Decide(t)
  <2>1. /\ Ordered /\ pc[t] = "decide" /\ call[t].method = "pushOrdered" /\ pc'[t] = "lock"
        /\ call'[t].method \in {"pushHead", "pushOrdered"}
    BY <1>12 DEF Decide, Calls
  <2> QED
    BY <2>1
<1>13. CASE PushSkip(t)
  <2>1. Ordered /\ pc'[t] = "unlock" /\ call'[t].method = "pushSkipped"
    BY <1>13 DEF PushSkip, Got, Calls
  <2> QED
    BY <2>1
<1>14. CASE PushFind(t)
  <2>1. Ordered /\ pc'[t] = "noneq" /\ call'[t].method = "pushOrdered"
    BY <1>14 DEF PushFind
  <2> QED
    BY <2>1
<1>15. CASE PushCompare(t)
  <2>1. /\ Ordered /\ pc'[t] \in {"reload", "move"}
        /\ call'[t].method = "pushOrdered"
    BY <1>15 DEF PushCompare
  <2> QED
    BY <2>1
<1> QED
  BY <1>1, <1>2, <1>3, <1>4, <1>5, <1>6, <1>7, <1>8, <1>9, <1>10, <1>11,
     <1>12, <1>13, <1>14, <1>15 DEF Proceed

(* What is nowhere in the list is still nowhere after any step but the     *)
(* store of the push that brings it.                                       *)
LEMMA NowhereStep ==
  ASSUME TInv, OnPath, NEW t \in Threads, Proceed(t), NEW i \in Items, Nowhere(i),
         PushStore(t) \/ SetStore(t) => call[t].item # i
  PROVE  Nowhere(i)'
<1>. CellsType /\ cur(t) \in Cells /\ reg[t].cur = cur(t) /\ reg[t] \in Regs
  BY DEF TInv, TypeOK, Regs, cur
<1>. \A n \in Nodes : n = Null \/ n \in Cells
  BY DEF Nodes, Cells
<1>. head # i /\ Null # i
  BY ListAssumption
<1>. (\A c \in Cells : inner[c] # i) /\ reg[t].cur # i /\ reg[t].node # i /\ reg[t].ptr # i
  BY DEF Nowhere
<1>. pc[t] = "next" => reg[t].node \in Cells
  BY DEF At, TInv, NodeKnown, Cells
<1>. reg \in [Threads -> Regs]
  BY DEF TInv, TypeOK
<1>1. \A c \in Cells : inner'[c] # i
  <2> USE DEF Step, At, CellsType
  <2>1. CASE WaitImm(t) \/ Decide(t) \/ Lock(t) \/ SetLock(t) \/ SetImm(t) \/
             SetFreeImm(t) \/ SetFreeMut(t) \/ LoadNext(t) \/ PopCount(t) \/
             RemoveCount(t) \/ Move(t) \/ Reload(t) \/ FindNext(t) \/
             MutLock(t) \/ MutLoad(t) \/ Test(t) \/ PushCount(t) \/ Unlock(t)
             \/ FindHit(t)
    BY <2>1 DEF WaitImm, Decide, Lock, SetLock, SetImm, SetFreeImm,
        SetFreeMut, LoadNext, PopCount, RemoveCount, Move, Reload, FindNext,
        MutLock, MutLoad, Test, PushCount, Unlock, FindHit, cells
  <2>2. CASE PushSkip(t) \/ PushCompare(t) \/ PushFind(t) \/ PopFind(t) \/ RemoveFind(t) \/
             MutFind(t)
    BY <2>2 DEF PushSkip, PushCompare, PushFind, PopFind, RemoveFind, MutFind, Got, cells
  <2>3. CASE PushStore(t) \/ SetStore(t)
    BY <2>3 DEF PushStore, SetStore
  <2>4. CASE PopStore(t) \/ RemoveStore(t) \/ MutDrop(t)
    BY <2>4 DEF PopStore, RemoveStore, MutDrop, StoreNode, Store
  <2>5. CASE GetTest(t) \/ GetNull(t) \/ GetPanic(t)
    <3>1. inner' = inner \/ inner' = [inner EXCEPT ![cur(t)] = reg[t].ptr]
      BY <2>5 DEF GetTest, GetNull, GetPanic, Panic, StoreNode, Store, cells
    <3> QED
      BY <3>1
  <2> QED
    BY <2>1, <2>2, <2>3, <2>4, <2>5 DEF Proceed
<1>2. reg'[t].cur # i /\ reg'[t].node # i /\ reg'[t].ptr # i
  <2> USE DEF Step, At, Regs
  <2>1. CASE WaitImm(t) \/ Decide(t) \/ Lock(t) \/ SetLock(t) \/ SetImm(t) \/
             SetStore(t) \/ SetFreeImm(t) \/ SetFreeMut(t) \/ PopCount(t) \/
             PopStore(t) \/ RemoveCount(t) \/ MutLock(t) \/ PushStore(t)
    BY <2>1 DEF WaitImm, Decide, Lock, SetLock, SetImm, SetStore,
        SetFreeImm, SetFreeMut, PopCount, PopStore, RemoveCount, MutLock,
        PushStore
  <2>2. CASE PushSkip(t) \/ PushCompare(t) \/ PushFind(t) \/ PopFind(t) \/ RemoveFind(t) \/
             MutFind(t)
    BY <2>2 DEF PushSkip, PushCompare, PushFind, PopFind, RemoveFind, MutFind, Got, Node
  <2>3. CASE LoadNext(t)
    BY <2>3 DEF LoadNext
  <2>4. CASE Reload(t) \/ MutLoad(t)
    BY <2>4 DEF Reload, MutLoad
  <2>5. CASE Move(t)
    BY <2>5 DEF Move
  <2>6. CASE FindNext(t)
    BY <2>6 DEF FindNext, Node
  <2>7. CASE RemoveStore(t) \/ MutDrop(t)
    BY <2>7 DEF RemoveStore, MutDrop, NoReg
  <2>8. CASE GetTest(t) \/ GetNull(t) \/ GetPanic(t)
    BY <2>8 DEF GetTest, GetNull, GetPanic, NodeGone, Panic
  <2>9. CASE Test(t) \/ PushCount(t) \/ Unlock(t) \/ FindHit(t)
    BY <2>9 DEF Test, PushCount, Unlock, FindHit, Return, NoReg
  <2> QED
    BY <2>1, <2>2, <2>3, <2>4, <2>5, <2>6, <2>7, <2>8, <2>9 DEF Proceed
<1>3. \A u \in Threads \ {t} : reg'[u] = reg[u]
  BY Elsewhere DEF TInv
<1> QED
  BY <1>1, <1>2, <1>3 DEF Nowhere

(* A push brings the item it was called with, and stores it once.          *)
LEMMA PendingKept ==
  ASSUME TInv, OnPath, NEW t \in Threads, Proceed(t)
  PROVE  /\ Pending(t)' => /\ Pending(t) /\ call'[t].item = call[t].item
                           /\ ~PushStore(t) /\ ~SetStore(t)
         /\ PushStore(t) \/ SetStore(t) => Pending(t)
         /\ unused' = unused
<1>. /\ pc \in [Threads -> Places] /\ call \in [Threads -> Calls] /\ call[t] \in Calls
  BY DEF TInv, TypeOK
<1>. /\ pc[t] = "removeCount" => call[t].method = "remove_count"
     /\ pc[t] \in {"mutDrop", "popCount", "next", "mutLoad", "mutLock", "mutTest", "mutWait"} =>
          call[t].method \notin Pushes
     /\ pc[t] \in {"decideWait", "decide", "setLock", "setImm", "setStore"} =>
          call[t].method \in Pushes
     /\ call[t].method \in {"pushHead", "pushOrdered"} <=> call[t].method \in Pushes
  BY DEF OnPath, At, Doing, Pushes
<1>. PushStore(t) \/ SetStore(t) => pc[t] \in {"store", "setStore"} /\ Pending(t)
  BY DEF PushStore, SetStore, Pending, Step, At
<1>. PushStore(t) \/ SetStore(t) => pc'[t] \in {"unlock", "setFreeImm"}
  BY DEF PushStore, SetStore, Step, At, Goto
<1> SUFFICES /\ Pending(t)' => Pending(t) /\ call'[t].item = call[t].item
             /\ unused' = unused
  BY DEF Pending
<1> USE DEF Goto, Step, At, Doing, Pending
<1>1. CASE WaitImm(t)
  BY <1>1 DEF WaitImm, Tests
<1>2. CASE Lock(t)
  BY <1>2 DEF Lock
<1>3. CASE SetLock(t) \/ SetImm(t) \/ SetStore(t) \/ SetFreeImm(t) \/
           SetFreeMut(t)
  BY <1>3 DEF SetLock, SetImm, SetStore, SetFreeImm, SetFreeMut
<1>4. CASE PushStore(t)
  BY <1>4 DEF PushStore
<1>5. CASE PopStore(t) \/ RemoveStore(t)
  BY <1>5 DEF PopStore, RemoveStore
<1>6. CASE LoadNext(t) \/ PopCount(t)
  BY <1>6 DEF LoadNext, PopCount
<1>7. CASE RemoveCount(t)
  BY <1>7 DEF RemoveCount, Calls
<1>8. CASE Move(t) \/ MutDrop(t) \/ FindNext(t)
  BY <1>8 DEF Move, MutDrop, FindNext
<1>9. CASE Reload(t) \/ MutLoad(t) \/ MutLock(t)
  BY <1>9 DEF Reload, MutLoad, MutLock
<1>10. CASE GetTest(t) \/ GetNull(t) \/ GetPanic(t)
  BY <1>10 DEF GetTest, GetNull, GetPanic, NodeGone, Panic
<1>11. CASE PushSkip(t) \/ PushCompare(t) \/ PushFind(t) \/ PopFind(t) \/ RemoveFind(t) \/
           MutFind(t)
  BY <1>11 DEF PushSkip, PushCompare, PushFind, PopFind, RemoveFind, MutFind, Got, Pushes, Calls
<1>12. CASE Test(t)
  BY <1>12 DEF Test, Return, NoCall, AtEnd, AtNode
<1>13. CASE Unlock(t) \/ PushCount(t) \/ FindHit(t)
  BY <1>13 DEF Unlock, PushCount, FindHit, Return, NoCall, Pushes
<1>14. CASE Decide(t)
  BY <1>14 DEF Decide, Calls, Pushes
<1> QED
  BY <1>1, <1>2, <1>3, <1>4, <1>5, <1>6, <1>7, <1>8, <1>9, <1>10, <1>11,
     <1>12, <1>13, <1>14 DEF Proceed

(* The items of pushes under way stay out of the list, and apart.          *)
LEMMA PendingNowhereStep ==
  ASSUME TInv, GInv, NEW t \in Threads, Proceed(t)
  PROVE  PendingNowhere'
<1>. \A u \in Threads \ {t} :
       pc'[u] = pc[u] /\ call'[u] = call[u] /\ reg'[u] = reg[u]
  BY Elsewhere DEF TInv
<1>. /\ pc \in [Threads -> Places] /\ call \in [Threads -> Calls]
     /\ reg \in [Threads -> Regs]
  BY DEF TInv, TypeOK
<1>. \A u \in Threads \ {t} : Pending(u)' <=> Pending(u)
  BY DEF Pending, Doing
<1>. /\ \A i \in unused : Nowhere(i)
     /\ \A u \in Threads : Pending(u) =>
          /\ call[u].item \in Items \ unused
          /\ Nowhere(call[u].item)
          /\ \A v \in Threads \ {u} : Pending(v) => call[v].item # call[u].item
  BY DEF GInv, PendingNowhere
<1>. unused \subseteq Items
  BY DEF TInv, TypeOK
<1>1. unused' = unused /\ \A i \in unused : Nowhere(i)'
  BY PendingKept, NowhereStep DEF GInv
<1>2. \A u \in Threads : Pending(u)' => Pending(u) /\ call'[u].item = call[u].item
  BY PendingKept DEF GInv
<1>3. ASSUME NEW u \in Threads, Pending(u)'
      PROVE  Nowhere(call[u].item)'
  BY <1>2, <1>3, PendingKept, NowhereStep DEF GInv
<1>4. ASSUME NEW u \in Threads, Pending(u)'
      PROVE  /\ call'[u].item \in Items \ unused'
             /\ Nowhere(call[u].item)'
             /\ \A v \in Threads \ {u} : Pending(v)' => call'[v].item # call'[u].item
  BY <1>1, <1>2, <1>3, <1>4
<1> QED
  BY <1>1, <1>4 DEF PendingNowhere

(* What starts a call touches no cell, and a push that starts brings an    *)
(* item that is nowhere.                                                   *)
LEMMA StartHolds ==
  ASSUME TInv, GInv, NEW t \in Threads, Starts(t), Brings(t), unused' \subseteq unused
  PROVE  GInv'
<1>. /\ inner' = inner /\ reg' = reg /\ pc[t] = "idle" /\ Entry(pc'[t], call'[t].method)
     /\ \A u \in Threads \ {t} : pc'[u] = pc[u] /\ call'[u] = call[u]
  BY StartShape
<1>1. OnPath'
  <2>1. ASSUME NEW u \in Threads \ {t} PROVE pc'[u] = pc[u] /\ call'[u] = call[u]
    OBVIOUS
  <2> QED
    BY <2>1 DEF GInv, OnPath, Entry, Doing, At
<1>2. \A i : Nowhere(i)' <=> Nowhere(i)
  BY DEF Nowhere
<1>3. \A u \in Threads \ {t} : (Pending(u)' <=> Pending(u)) /\ call'[u] = call[u]
  BY DEF Pending
<1>4. ~Pending(t)
  BY DEF Pending
<1>5. Pending(t)' => call'[t].method \in Pushes
  BY DEF Pending
<1>6. PendingNowhere'
  <2>. /\ \A i \in unused : Nowhere(i)
       /\ \A u \in Threads : Pending(u) =>
            /\ call[u].item \in Items \ unused
            /\ Nowhere(call[u].item)
            /\ \A v \in Threads \ {u} : Pending(v) => call[v].item # call[u].item
    BY DEF GInv, PendingNowhere
  <2>1. \A i \in unused' : Nowhere(i)'
    BY <1>2
  <2>2. ASSUME NEW u \in Threads, Pending(u)'
        PROVE  /\ call'[u].item \in Items \ unused'
               /\ Nowhere(call'[u].item)
               /\ \A v \in Threads \ {u} : Pending(v)' => call'[v].item # call'[u].item
    BY <1>3, <1>4, <1>5, <2>2 DEF Brings
  <2> QED
    BY <1>2, <2>1, <2>2 DEF PendingNowhere, Nowhere
<1> QED
  BY <1>1, <1>6 DEF GInv

(* The items that the threads of a list push are unused until then.        *)
LEMMA CallBrings ==
  ASSUME TInv, GInv, NEW t \in Threads, Call(t), Starts(t)
  PROVE  Brings(t)
<1>. /\ unused \subseteq Items /\ \A i \in unused : Nowhere(i)
     /\ \A u \in Threads : Pending(u) => call[u].item \notin unused
  BY DEF TInv, TypeOK, GInv, PendingNowhere
<1>. call \in [Threads -> Calls]
  BY DEF TInv, TypeOK
<1>1. ASSUME call'[t].method \in Pushes
      PROVE  call'[t].item \in unused /\ unused' = unused \ {call'[t].item}
  <2> USE <1>1 DEF Pushes, Begin
  <2>0. call'[t].method \in {"pushHead", "pushOrdered"} /\ pc'[t] # "idle"
    BY StartShape DEF Entry
  <2>1. CASE SetEnforceNoneq(t)
    BY <2>1, <2>0, StartShape DEF SetEnforceNoneq
  <2>2. CASE \E i \in Items : CallPush(t, i)
    BY <2>2 DEF CallPush, StartPush
  <2>3. CASE CallPop(t) \/ CallIterMut(t)
    BY <2>3 DEF CallPop, CallIterMut
  <2>4. CASE \E want \in Predicates : CallFind(t, want)
    BY <2>4 DEF CallFind, StartFind
  <2>5. CASE \E want \in Predicates, n \in Counts : CallRemove(t, want, n)
    BY <2>5 DEF CallRemove, StartRemove
  <2> QED
    BY <2>1, <2>2, <2>3, <2>4, <2>5 DEF Call
<1> QED
  BY <1>1 DEF Brings

(* GInv is an inductive invariant of every list.                           *)
LEMMA PathsInit == Init => GInv
<1> SUFFICES ASSUME Init PROVE GInv
  OBVIOUS
<1>. /\ \A t \in Threads : pc[t] = "idle" /\ call[t].method = "none" /\ reg[t] = NoReg
     /\ \A c \in Cells : inner[c] = Null
     /\ unused = Items
  BY DEF Init, NoCall, CellsInit
<1>1. OnPath
  BY DEF OnPath, Doing, At
<1>2. PendingNowhere
  BY ListAssumption DEF PendingNowhere, Pending, Pushes, Nowhere, NoReg
<1> QED
  BY <1>1, <1>2 DEF GInv

(* The steps of a call keep GInv ...                                       *)
LEMMA PathsProceed ==
  ASSUME TInv, GInv, NEW t \in Threads, Proceed(t)
  PROVE  GInv'
BY OnPathStep, PendingNowhereStep DEF GInv

(* ... and so does every step.                                             *)
LEMMA PathsStep ==
  ASSUME TInv, GInv, [Next]_vars
  PROVE  GInv'
<1>1. ASSUME NEW t \in Threads, Call(t) PROVE GInv'
  <2>1. CASE Starts(t)
    BY <1>1, <2>1, CallStarts, CallBrings, StartHolds
  <2>2. CASE SetEnforceNoneq(t)
    BY <2>2 DEF SetEnforceNoneq, GInv, OnPath, PendingNowhere, Pending, Nowhere,
       Doing, At, cells
  <2> QED
    BY <1>1, <2>1, <2>2, CallStarts
<1>2. ASSUME NEW t \in Threads, Proceed(t) PROVE GInv'
  BY <1>2, PathsProceed
<1>3. CASE UNCHANGED vars
  BY <1>3 DEF GInv, OnPath, PendingNowhere, Pending, Nowhere, Doing, At, vars, cells
<1> QED
  BY <1>1, <1>2, <1>3 DEF Next

(* A method panics at its get_ref or its get_mut, when the cell has been   *)
(* emptied since the method tested it.                                     *)
LEMMA PanicsAt ==
  ASSUME TInv, OnPath, NEW t \in Threads, Proceed(t), pc'[t] = "panicked"
  PROVE  /\ call'[t] = call[t] /\ reg'[t] = reg[t]
         /\ pc[t] # "mutDrop" => inner[cur(t)] = Null
         /\ \/ Doing(t, "iter_mut") /\ pc[t] \in {"mutTest", "getTest", "getLoad", "mutDrop"}
            \/ call[t].method \in {"find", "pop", "remove_count", "pushOrdered"}
               /\ pc[t] \in {"getTest", "getLoad"}
<1>. pc \in [Threads -> Places]
  BY DEF TInv, TypeOK
<1> USE DEF Goto, Step, At
<1>1. CASE WaitImm(t)
  BY <1>1 DEF WaitImm, Tests
<1>2. CASE Decide(t) \/ Lock(t) \/ PushStore(t) \/ SetLock(t) \/ SetImm(t) \/
           SetStore(t) \/ SetFreeImm(t) \/ SetFreeMut(t)
  BY <1>2 DEF Decide, Lock, PushStore, SetLock, SetImm, SetStore,
      SetFreeImm, SetFreeMut
<1>3. CASE LoadNext(t) \/ PopCount(t) \/ PopStore(t) \/ RemoveStore(t) \/
           RemoveCount(t) \/ Move(t)
  BY <1>3 DEF LoadNext, PopCount, PopStore, RemoveStore, RemoveCount, Move
<1>4. CASE Reload(t) \/ FindNext(t) \/ MutLock(t) \/ MutLoad(t) \/ MutDrop(t)
  BY <1>4 DEF Reload, FindNext, MutLock, MutLoad, MutDrop
<1>5. CASE GetTest(t) \/ GetNull(t) \/ GetPanic(t)
  <2>1. (pc[t] # "mutDrop" => inner[cur(t)] = Null) /\ call' = call /\ reg' = reg
    BY <1>5 DEF GetTest, GetNull, GetPanic, NodeGone, Panic, IsNull, Node
  <2>2. pc[t] \in {"getTest", "mutTest", "getLoad", "mutDrop"}
    BY <1>5 DEF GetTest, GetNull, GetPanic
  <2> QED
    BY <2>1, <2>2 DEF OnPath, Doing
<1>6. CASE PushSkip(t) \/ PushCompare(t) \/ PushFind(t) \/ PopFind(t) \/ RemoveFind(t) \/
           MutFind(t)
  BY <1>6 DEF PushSkip, PushCompare, PushFind, PopFind, RemoveFind, MutFind, Got
<1>7. CASE Test(t)
  BY <1>7 DEF Test, Return, AtEnd, AtNode
<1>8. CASE PushCount(t) \/ Unlock(t) \/ FindHit(t)
  BY <1>8 DEF PushCount, Unlock, FindHit, Return
<1> QED
  BY <1>1, <1>2, <1>3, <1>4, <1>5, <1>6, <1>7, <1>8 DEF Proceed

(* As long as the cells stay that pop, remove_count and an ordered push    *)
(* have tested, none of them panics.                                       *)
LEMMA NoPanicStep ==
  ASSUME TInv, OnPath, WritersNeverPanic, NEW t \in Threads, Proceed(t),
         /\ call[t].method \in {"pop", "remove_count", "pushOrdered"}
         /\ pc[t] \in {"getTest", "getLoad"}
         => inner[cur(t)] # Null
  PROVE  WritersNeverPanic'
<1>. \A u \in Threads \ {t} : pc'[u] = pc[u] /\ call'[u] = call[u]
  BY Elsewhere DEF TInv
<1>1. pc'[t] = "panicked" => call'[t].method \in {"find", "iter_mut"}
  BY PanicsAt DEF Doing
<1> QED
  BY <1>1 DEF WritersNeverPanic, At

(* The accesses that write what a cell points to, and its rank.            *)
LEMMA InnerKept ==
  ASSUME NEW t \in Threads, Proceed(t)
  PROVE  \/ PushStore(t) \/ PopStore(t) \/ RemoveStore(t) \/ MutDrop(t) \/ SetStore(t)
         \/ GetTest(t) \/ GetNull(t) \/ GetPanic(t) \/ (inner' = inner /\ rank' = rank)
<1> USE DEF cells
<1>1. CASE WaitImm(t) \/ Decide(t) \/ Lock(t) \/ SetLock(t) \/ SetImm(t) \/
           SetFreeImm(t) \/ SetFreeMut(t) \/ LoadNext(t) \/ PopCount(t) \/
           RemoveCount(t) \/ Move(t) \/ Reload(t) \/ FindNext(t) \/
           MutLock(t) \/ MutLoad(t) \/ Test(t) \/ PushCount(t) \/ Unlock(t)
           \/ FindHit(t)
  BY <1>1 DEF WaitImm, Decide, Lock, SetLock, SetImm, SetFreeImm,
      SetFreeMut, LoadNext, PopCount, RemoveCount, Move, Reload, FindNext,
      MutLock, MutLoad, Test, PushCount, Unlock, FindHit
<1>2. CASE PushSkip(t) \/ PushCompare(t) \/ PushFind(t) \/ PopFind(t) \/ RemoveFind(t) \/
           MutFind(t)
  BY <1>2 DEF PushSkip, PushCompare, PushFind, PopFind, RemoveFind, MutFind, Got
<1>3. CASE PushStore(t) \/ PopStore(t) \/ RemoveStore(t) \/ MutDrop(t) \/
           SetStore(t) \/ GetTest(t) \/ GetNull(t) \/ GetPanic(t)
  BY <1>3 DEF PushStore, PopStore, RemoveStore, MutDrop, SetStore,
      GetTest, GetNull, GetPanic
<1> QED
  BY <1>1, <1>2, <1>3 DEF Proceed

-----------------------------------------------------------------------------
(* Unordered lists.                                                        *)

(* Nobody empties a cell that a pop or a remove_count is about to load:    *)
(* only the holder of its lock stores what may be Null into it.            *)
LEMMA NodeStaysStep ==
  ASSUME TInv, GInv, LInv, ~Ordered, NEW t \in Threads, Proceed(t)
  PROVE  NodeStays'
<1>. \A u \in Threads \ {t} :
       pc'[u] = pc[u] /\ call'[u] = call[u] /\ reg'[u] = reg[u]
  BY Elsewhere DEF TInv
<1>. /\ pc \in [Threads -> Places] /\ call \in [Threads -> Calls]
     /\ reg \in [Threads -> Regs]
  BY DEF TInv, TypeOK
<1>. CellsType /\ reg[t].cur \in Cells /\ reg[t].ptr \in Nodes
  BY DEF TInv, TypeOK, Regs
<1>1. Loading(t)' => inner'[reg'[t].cur] # Null
  <2>. /\ call[t].method \in {"pop", "remove_count"}
       /\ pc[t] \in {"getWait", "getTest", "getLoad"}
       => inner[reg[t].cur] # Null
    BY DEF LInv, NodeStays, Loading, cur
  <2>. pc[t] = "mutLoad" => call[t].method = "iter_mut"
    BY DEF TInv, MethodKnown, At, Doing
  <2> SUFFICES ASSUME call'[t].method \in {"pop", "remove_count"},
                      pc'[t] \in {"getWait", "getTest", "getLoad"}
               PROVE  inner'[reg'[t].cur] # Null
    BY DEF Loading
  <2> USE DEF Goto, Step, At, Doing, cur
  <2>1. CASE WaitImm(t)
    BY <2>1 DEF WaitImm, Tests, cells
  <2>2. CASE Decide(t) \/ Lock(t) \/ PushStore(t) \/ SetLock(t)
    BY <2>2 DEF Decide, Lock, PushStore, SetLock
  <2>3. CASE SetImm(t) \/ SetStore(t) \/ SetFreeImm(t) \/ SetFreeMut(t)
    BY <2>3 DEF SetImm, SetStore, SetFreeImm, SetFreeMut
  <2>4. CASE LoadNext(t) \/ PopCount(t) \/ PopStore(t)
    BY <2>4 DEF LoadNext, PopCount, PopStore
  <2>5. CASE RemoveStore(t) \/ RemoveCount(t) \/ Move(t)
    BY <2>5 DEF RemoveStore, RemoveCount, Move
  <2>6. CASE Reload(t) \/ FindNext(t) \/ MutLock(t) \/ MutLoad(t) \/ MutDrop(t)
    BY <2>6 DEF Reload, FindNext, MutLock, MutLoad, MutDrop, cells
  <2>7. CASE GetTest(t) \/ GetNull(t)
    BY <2>7 DEF GetTest, GetNull, Panic, IsNull, cells
  <2>8. CASE GetPanic(t)
    BY <2>8 DEF GetPanic, NodeGone, Panic, Node
  <2>9. CASE PushSkip(t) \/ PushCompare(t) \/ PushFind(t) \/ PopFind(t) \/ RemoveFind(t) \/
             MutFind(t)
    BY <2>9 DEF PushSkip, PushCompare, PushFind, PopFind, RemoveFind, MutFind, Got, cells
  <2>10. CASE Test(t)
    BY <2>10 DEF Test, Return, NoCall, AtEnd, AtNode, IsNull, cells
  <2>11. CASE PushCount(t) \/ Unlock(t) \/ FindHit(t)
    BY <2>11 DEF PushCount, Unlock, FindHit, Return, NoCall
  <2> QED
    BY <2>1, <2>2, <2>3, <2>4, <2>5, <2>6, <2>7, <2>8, <2>9, <2>10, <2>11 DEF
       Proceed
<1>2. ASSUME NEW u \in Threads \ {t}, Loading(u)
      PROVE  inner'[cur(u)] # Null
  <2>. inner[cur(u)] # Null /\ cur(u) \in Cells
    BY <1>2 DEF LInv, NodeStays, cur, Regs
  <2>. Holding(u)
    BY <1>2 DEF Loading, Holding
  <2>. Holding(t) => cur(t) # cur(u)
    BY DEF LInv, OneHolder
  <2>1. CASE PushStore(t)
    <3>1. Pending(t) /\ Nowhere(call[t].item)
      BY <2>1 DEF PushStore, Step, At, Pending, GInv, PendingNowhere
    <3>2. call[t].item # cur(u) /\ call[t].item # Null /\ call[t].item \in Cells
      BY <3>1, ListAssumption DEF Nowhere, GInv, PendingNowhere, cur, Cells
    <3>3. inner' = [inner EXCEPT ![call[t].item] = reg[t].ptr, ![cur(t)] = call[t].item]
      BY <2>1 DEF PushStore
    <3> QED
      BY <3>2, <3>3 DEF CellsType
  <2>2. CASE PopStore(t) \/ RemoveStore(t) \/ MutDrop(t)
    <3>1. Holding(t)
      BY <2>2 DEF PopStore, RemoveStore, MutDrop, Holding, Step, At, Doing, GInv,
          OnPath
    <3> QED
      BY <2>2, <3>1 DEF PopStore, RemoveStore, MutDrop, StoreNode, Store, CellsType
  <2>3. CASE SetStore(t)
    BY <2>3 DEF SetStore, Step, At, GInv, OnPath
  <2>4. CASE GetTest(t) \/ GetNull(t) \/ GetPanic(t)
    <3>1. \/ inner' = inner
          \/ inner' = [inner EXCEPT ![cur(t)] = reg[t].ptr] /\ reg[t].ptr # Null
      BY <2>4 DEF GetTest, GetNull, GetPanic, Panic, StoreNode, Store, cells
    <3> QED
      BY <3>1 DEF CellsType
  <2>5. CASE inner' = inner
    BY <2>5
  <2>6. \/ PushStore(t) \/ PopStore(t) \/ RemoveStore(t) \/ MutDrop(t) \/ SetStore(t)
        \/ GetTest(t) \/ GetNull(t) \/ GetPanic(t) \/ inner' = inner
    BY InnerKept
  <2> QED
    BY <2>1, <2>2, <2>3, <2>4, <2>5, <2>6
<1> QED
  <2> SUFFICES ASSUME NEW u \in Threads, Loading(u)'
               PROVE  inner'[reg'[u].cur] # Null
    BY DEF NodeStays, cur
  <2>1. CASE u = t
    BY <1>1, <2>1
  <2>2. CASE u # t
    <3>1. Loading(u) /\ reg'[u].cur = cur(u)
      BY <2>2 DEF Loading, cur
    <3> QED
      BY <1>2, <2>2, <3>1
  <2> QED
    BY <2>1, <2>2

(* The locks of the cells: a lock is taken when it is free, and given up   *)
(* by its holder only.                                                     *)
LEMMA LockHeld ==
  ASSUME TInv, GInv, LInv, ~Ordered, NEW t \in Threads, Proceed(t)
  PROVE  /\ Holding(t)' => mutLock'[reg'[t].cur]
         /\ Holding(t)' => (Holding(t) /\ reg'[t].cur = cur(t)) \/ ~mutLock[reg'[t].cur]
         /\ \A c \in Cells : mutLock[c] => mutLock'[c] \/ (Holding(t) /\ c = cur(t))
<1>. CellsType /\ cur(t) \in Cells /\ reg[t].cur = cur(t) /\ call[t] \in Calls
  BY DEF TInv, TypeOK, Regs, cur
<1>. Holding(t) => mutLock[cur(t)]
  BY DEF LInv, OneHolder
<1>. reg \in [Threads -> Regs] /\ pc \in [Threads -> Places] /\ call \in [Threads -> Calls]
  BY DEF TInv, TypeOK
<1>. /\ pc[t] = "mutLoad" => call[t].method = "iter_mut"
     /\ pc[t] \in {"mutWait", "mutTest", "mutLock"} => call[t].method = "iter_mut"
     /\ pc[t] \notin {"decide", "decideWait", "noneq", "setLock", "setImm", "setStore", "setFreeImm",
                     "setFreeMut"}
     /\ call[t].method # "pushOrdered"
     /\ pc[t] = "move" => call[t].method = "remove_count"
     /\ pc[t] = "mutDrop" => call[t].method = "iter_mut"
     /\ pc[t] = "unlock" => call[t].method \in {"pushHead", "pop", "remove_count"}
  BY DEF GInv, OnPath, At, Doing
<1> USE DEF Goto, Step, At, Doing, cells, Holding, CellsType
<1>1. CASE WaitImm(t)
  BY <1>1 DEF WaitImm, Tests, cur
<1>2. CASE Lock(t)
  BY <1>2 DEF Lock, TakeMutLock, cur
<1>3. CASE Decide(t) \/ SetLock(t) \/ SetImm(t) \/ SetStore(t) \/
           SetFreeImm(t) \/ SetFreeMut(t)
  BY <1>3 DEF Decide, SetLock, SetImm, SetStore, SetFreeImm, SetFreeMut
<1>4. CASE PushStore(t) \/ PopStore(t)
  BY <1>4 DEF PushStore, PopStore, cur
<1>5. CASE LoadNext(t) \/ PopCount(t)
  BY <1>5 DEF LoadNext, PopCount, Regs, cur
<1>6. CASE RemoveStore(t) \/ RemoveCount(t)
  BY <1>6 DEF RemoveStore, RemoveCount, Regs, Calls, cur
<1>7. CASE Move(t)
  BY <1>7 DEF Move, FreeMutLock, cur
<1>8. CASE Reload(t) \/ MutLoad(t)
  BY <1>8 DEF Reload, MutLoad, Regs, cur
<1>9. CASE MutLock(t)
  BY <1>9 DEF MutLock, TakeMutLock, cur
<1>10. CASE FindNext(t) \/ MutDrop(t)
  BY <1>10 DEF FindNext, MutDrop, cur
<1>11. CASE GetTest(t) \/ GetNull(t) \/ GetPanic(t)
  BY <1>11 DEF GetTest, GetNull, GetPanic, NodeGone, Panic, cur
<1>12. CASE PushSkip(t) \/ PushCompare(t) \/ PushFind(t) \/ PopFind(t) \/ RemoveFind(t) \/
           MutFind(t)
  BY <1>12 DEF PushSkip, PushCompare, PushFind, PopFind, RemoveFind, MutFind, Got,
      Regs, cur
<1>13. CASE Test(t)
  BY <1>13 DEF Test, Return, NoCall, AtEnd, AtNode, cur
<1>14. CASE Unlock(t)
  BY <1>14 DEF Unlock, Return, NoCall, FreeMutLock, Pushes
<1>15. CASE PushCount(t) \/ FindHit(t)
  BY <1>15 DEF PushCount, FindHit, Return, NoCall
<1> QED
  BY <1>1, <1>2, <1>3, <1>4, <1>5, <1>6, <1>7, <1>8, <1>9, <1>10, <1>11,
     <1>12, <1>13, <1>14, <1>15 DEF Proceed

(* A cell's lock has one holder: it is taken when free, and given up by its*)
(* holder only.                                                            *)
LEMMA OneHolderStep ==
  ASSUME TInv, GInv, LInv, ~Ordered, NEW t \in Threads, Proceed(t)
  PROVE  OneHolder'
<1>. \A u \in Threads \ {t} :
       pc'[u] = pc[u] /\ call'[u] = call[u] /\ reg'[u] = reg[u]
  BY Elsewhere DEF TInv
<1>. /\ pc \in [Threads -> Places] /\ call \in [Threads -> Calls]
     /\ reg \in [Threads -> Regs]
  BY DEF TInv, TypeOK
<1>. \A u \in Threads : cur(u) \in Cells
  BY DEF Regs, cur
<1>. \A u \in Threads : Holding(u) =>
       mutLock[cur(u)] /\ \A v \in Threads \ {u} : Holding(v) => cur(v) # cur(u)
  BY DEF LInv, OneHolder
<1>. \A u \in Threads \ {t} : (Holding(u)' <=> Holding(u)) /\ reg'[u].cur = cur(u)
  BY DEF Holding, Doing, cur
<1>1. ASSUME NEW u \in Threads \ {t}, Holding(u)
      PROVE  mutLock'[cur(u)] /\ (Holding(t)' => reg'[t].cur # cur(u))
  BY <1>1, LockHeld
<1>2. ASSUME NEW u \in Threads, Holding(u)'
      PROVE  mutLock'[reg'[u].cur]
             /\ \A v \in Threads \ {u} : Holding(v)' => reg'[v].cur # reg'[u].cur
  BY <1>1, <1>2, LockHeld
<1> QED
  BY <1>2 DEF OneHolder, cur

(* LInv is an inductive invariant of every list without an order function. *)
LEMMA ListInit == Init => LInv
<1> SUFFICES ASSUME Init PROVE LInv
  OBVIOUS
<1>. \A t \in Threads : pc[t] = "idle" /\ call[t].method = "none"
  BY DEF Init, NoCall
<1> QED
  BY DEF LInv, OneHolder, NodeStays, Holding, Loading, WritersNeverPanic, Doing, At

(* The steps of a call keep LInv ...                                       *)
LEMMA ListProceed ==
  ASSUME TInv, GInv, LInv, ~Ordered, NEW t \in Threads, Proceed(t)
  PROVE  LInv'
<1>1. /\ call[t].method \in {"pop", "remove_count", "pushOrdered"}
      /\ pc[t] \in {"getTest", "getLoad"}
      => inner[cur(t)] # Null
  BY DEF GInv, OnPath, LInv, NodeStays, Loading, Doing
<1>2. WritersNeverPanic'
  BY <1>1, NoPanicStep DEF GInv, LInv
<1> QED
  BY <1>2, OneHolderStep, NodeStaysStep DEF LInv

(* A start takes no lock.                                                  *)
LEMMA StartFree ==
  ASSUME TInv, LInv, NEW t \in Threads, Starts(t)
  PROVE  LInv'
<1>. /\ inner' = inner /\ mutLock' = mutLock /\ reg' = reg
     /\ Entry(pc'[t], call'[t].method)
     /\ \A u \in Threads \ {t} : pc'[u] = pc[u] /\ call'[u] = call[u]
  BY StartShape
<1>1. \A u \in Threads : (Holding(u)' => Holding(u)) /\ (Loading(u)' => Loading(u))
  BY DEF Holding, Loading, Doing, Entry
<1>2. OneHolder' /\ NodeStays'
  BY <1>1 DEF LInv, OneHolder, NodeStays, cur
<1>3. WritersNeverPanic'
  BY DEF LInv, WritersNeverPanic, At, Entry
<1> QED
  BY <1>2, <1>3 DEF LInv

(* ... and so does every step.                                             *)
LEMMA LocksStep ==
  ASSUME TInv, GInv, LInv, ~Ordered, [Next]_vars
  PROVE  LInv'
<1>1. ASSUME NEW t \in Threads, Call(t) PROVE LInv'
  <2>1. CASE Starts(t)
    BY <2>1, StartFree
  <2>2. CASE SetEnforceNoneq(t)
    BY <2>2 DEF SetEnforceNoneq, LInv, OneHolder, NodeStays, Holding, Loading,
        WritersNeverPanic, Doing, At, cur, cells
  <2> QED
    BY <1>1, <2>1, <2>2, CallStarts
<1>2. ASSUME NEW t \in Threads, Proceed(t) PROVE LInv'
  BY <1>2, ListProceed
<1>3. CASE UNCHANGED vars
  BY <1>3 DEF LInv, OneHolder, NodeStays, Holding, Loading, WritersNeverPanic,
     Doing, At, cur, vars, cells
<1> QED
  BY <1>1, <1>2, <1>3 DEF Next

(* push, pop and remove_count of a list without an order function never    *)
(* panic: between the is_null and the load of a cell they hold its lock,   *)
(* and only the holder of a cell's lock stores what may be Null into it.   *)
THEOREM WritersSafe == Spec => [](~Ordered => WritersNeverPanic)
<1> DEFINE Inv == TInv /\ GInv /\ (~Ordered => LInv)
<1>1. Init => Inv
  BY TypesInit, PathsInit, ListInit
<1>2. Inv /\ [Next]_vars => Inv'
  BY TypesStep, PathsStep, LocksStep
<1>3. Inv => (~Ordered => WritersNeverPanic)
  BY DEF LInv
<1> QED
  BY <1>1, <1>2, <1>3, PTL DEF Spec, SafetySpec
=============================================================================
