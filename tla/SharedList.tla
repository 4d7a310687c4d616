----------------------------- MODULE SharedList -----------------------------
(***************************************************************************)
(* SharedList<T> of src/src/shared_list2.rs: a singly linked list of       *)
(* CowData cells, shared by threads.  One action per atomic access of its  *)
(* methods to a cell or to len.                                            *)
(*                                                                         *)
(* Every push allocates one node and one cell, the node's "next", so both  *)
(* are named after the item pushed: inner[head] is the first node (an item *)
(* or Null) and inner[i] the node that the next cell of node i points to.  *)
(* A node never changes; a guard of iter_mut stores a changed copy, which  *)
(* shares the next cell of its original and goes by the same name: rank[c] *)
(* is what the order function compares of the node that is now in cell c.  *)
(*                                                                         *)
(* remove_search, remove_all and remove are remove_count with a count and  *)
(* a predicate; find, find_map, contains and an Iter that is run to its    *)
(* end are one traversal, which stops at the first item of a set (the      *)
(* empty one for Iter); Drain is repeated pop and extend repeated push.    *)
(***************************************************************************)
EXTENDS Naturals, FiniteSets, Sequences, SequencesExt

CONSTANTS
  Threads,
  Items,        \* the values pushed, each at most once
  head,         \* SharedList::head, the cell
  Null,
  Key,          \* what the order function compares: [Items -> Nat]
  Ordered,      \* made by new_ordered, not by new
  OpsOf,        \* the methods each thread calls: [Threads -> SUBSET Ops]
  ItemsOf,      \* the items each thread pushes: [Threads -> SUBSET Items]
  Predicates,   \* the closures given to the methods, as sets of items
  Counts,       \* the counts given to remove_count
  Edits,        \* what a write through iter_mut makes of it: a set of numbers
  MaxCalls,     \* bound on the number of calls other than push
  LenMod        \* 2^w for the w bits of the usize len

Ops == {"pop", "remove_count", "find", "iter_mut", "set_enforce_noneq"}

ASSUME ListAssumption ==
  /\ IsFiniteSet(Threads) /\ IsFiniteSet(Items)
  /\ head \notin Items /\ Null \notin Items
  /\ Key \in [Items -> Nat]
  /\ Ordered \in BOOLEAN
  /\ OpsOf \in [Threads -> SUBSET Ops]
  /\ ItemsOf \in [Threads -> SUBSET Items]
  /\ Predicates \subseteq SUBSET Items
  /\ Counts \subseteq Nat
  /\ Edits \subseteq Nat
  /\ MaxCalls \in Nat
  /\ LenMod \in Nat \ {0}

VARIABLES
  inner, mutLock, immLock, \* the cells: see CowCells
  rank,       \* what the order function compares of the node in each cell
  len,        \* SharedList::len, an AtomicUsize
  enforce,    \* SharedList::enforce_noneq, an AtomicBool
  pc,         \* where each thread is in its call
  call,       \* the call: its method and arguments
  reg,        \* the locals of the call
  unused,     \* the items that are still to be pushed
  calls,      \* the number of calls other than push
  kept,       \* history: the items listed ever since a thread's find began
  leaked,     \* history: the cells that a dropped MutCowData left locked
  edited      \* history: one of them has stored a copy of another rank

Cells == {head} \cup Items
Nodes == Items \cup {Null}

INSTANCE CowCells WITH Protected <- Cells, Contents <- Nodes

cells == <<inner, rank, mutLock, immLock>>
vars == <<cells, len, enforce, pc, call, reg, unused, calls, kept, leaked, edited>>

(* A push on a list that has an order function and is not empty is a       *)
(* pushOrdered, any other a pushHead; a pushOrdered that finds an equal    *)
(* item and gives up becomes a pushSkipped.                                *)
Pushes == {"pushHead", "pushOrdered"}
Methods == (Ops \ {"set_enforce_noneq"}) \cup Pushes \cup {"pushSkipped"}

Places ==
  { "idle", "panicked",
    "decideWait", "decide",    \* push: the first head.is_null
    "lock",                    \* create_lock of cur
    "testWait", "test",        \* is_null of cur
    "getWait", "getTest",      \* cur.get_ref: its is_null
    "getLoad",                 \* ... and its load
    "noneq",                   \* enforce_noneq.load
    "reload", "next",          \* loads cur, loads the next cell of node
    "popCount",                \* len.fetch_sub of pop
    "store",                   \* stores to cur
    "removeCount",             \* len.fetch_sub of remove_count
    "move",                    \* remove_lock before cur moves on
    "setLock", "setImm", "setStore", "setFreeImm", "setFreeMut", \* cur.set
    "unlock",                  \* remove_lock of cur
    "pushCount",               \* len.fetch_add of push
    "mutWait", "mutTest", "mutLock", "mutLoad", \* cur.get_mut
    "mutDrop" }                \* the MutCowData guard is alive

Calls == [method : Methods \cup {"none"}, item : Nodes,
          want : Predicates \cup {{}}, count : Nat]
Regs == [cur : Cells, node : Nodes, ptr : Nodes, rank : Nat, got : SUBSET Items]

NoCall == [method |-> "none", item |-> Null, want |-> {}, count |-> 0]
NoReg == [cur |-> head, node |-> Null, ptr |-> Null, rank |-> 0, got |-> {}]

At(t, place) == pc[t] = place
Goto(t, place) == pc' = [pc EXCEPT ![t] = place]
Step(t, from, to) == At(t, from) /\ Goto(t, to)
Doing(t, method) == call[t].method = method
cur(t) == reg[t].cur

Return(t) ==
  /\ Goto(t, "idle")
  /\ call' = [call EXCEPT ![t] = NoCall]
  /\ reg' = [reg EXCEPT ![t] = NoReg]

(* The items of the list: the nodes met from head on.                      *)
Longer(next, s) ==
  LET last == IF s = <<>> THEN head ELSE s[Len(s)]
  IN  IF next[last] = Null THEN s ELSE Append(s, next[last])
ListOf(next) ==
  LET Chain[n \in Nat] == IF n = 0 THEN <<>> ELSE Longer(next, Chain[n - 1])
  IN  Chain[Cardinality(Items)]
Listing == ListOf(inner)
Listed == Items \cap ToSet(Listing)

(* After an access that changes the list: a find that is under way can no  *)
(* longer be expected to meet the items that have left it.                 *)
Narrow ==
  LET listed == Listed' IN kept' = [t \in Threads |-> kept[t] \cap listed]

Init ==
  /\ CellsInit([c \in Cells |-> Null])
  /\ rank = [c \in Cells |-> 0]
  /\ len = 0
  /\ enforce \in IF Ordered THEN BOOLEAN ELSE {FALSE} \* only push of an ordered list looks
  /\ pc = [t \in Threads |-> "idle"]
  /\ call = [t \in Threads |-> NoCall]
  /\ reg = [t \in Threads |-> NoReg]
  /\ unused = Items
  /\ calls = 0
  /\ kept = [t \in Threads |-> {}]
  /\ leaked = {}
  /\ edited = FALSE

-----------------------------------------------------------------------------
(* The calls.                                                              *)

Begin(t, place, method, i, want, n) ==
  /\ At(t, "idle")
  /\ Goto(t, place)
  /\ call' = [call EXCEPT ![t] =
                [method |-> method, item |-> i, want |-> want, count |-> n]]
  /\ UNCHANGED <<cells, len, enforce, reg, leaked, edited>>

StartPush(t, i) ==
  /\ IF Ordered THEN Begin(t, "decideWait", "pushOrdered", i, {}, 0)
                ELSE Begin(t, "lock", "pushHead", i, {}, 0)
  /\ UNCHANGED kept

StartRemove(t, want, n) ==
  /\ Begin(t, "lock", "remove_count", Null, want, n)
  /\ UNCHANGED kept

StartFind(t, want) ==
  /\ Begin(t, "testWait", "find", Null, want, 0)
  /\ kept' = [kept EXCEPT ![t] = Listed]

CallPush(t, i) ==
  /\ i \in ItemsOf[t] \cap unused
  /\ unused' = unused \ {i}
  /\ StartPush(t, i)
  /\ UNCHANGED calls

SetEnforceNoneq(t) ==
  /\ "set_enforce_noneq" \in OpsOf[t]
  /\ At(t, "idle")
  /\ enforce' = ~enforce
  /\ UNCHANGED <<cells, len, pc, call, reg, unused, calls, kept, leaked, edited>>

Counted(t, method) ==
  /\ method \in OpsOf[t]
  /\ calls < MaxCalls
  /\ calls' = calls + 1
  /\ UNCHANGED unused

CallPop(t) ==
  /\ Counted(t, "pop")
  /\ Begin(t, "lock", "pop", Null, {}, 0)
  /\ UNCHANGED kept

CallRemove(t, want, n) == Counted(t, "remove_count") /\ StartRemove(t, want, n)
CallFind(t, want) == Counted(t, "find") /\ StartFind(t, want)

CallIterMut(t) ==
  /\ Counted(t, "iter_mut")
  /\ Begin(t, "testWait", "iter_mut", Null, {}, 0)
  /\ UNCHANGED kept

-----------------------------------------------------------------------------
(* The accesses that the methods have in common.                           *)

(* The loop of an is_null, the access it is followed by being its load.    *)
Tests == [decideWait |-> "decide", testWait |-> "test",
          getWait |-> "getTest", mutWait |-> "mutTest"]

WaitImm(t) ==
  /\ pc[t] \in DOMAIN Tests
  /\ ImmFree(cur(t))
  /\ Goto(t, Tests[pc[t]])
  /\ UNCHANGED <<cells, len, call, reg, enforce, unused, calls, kept, leaked, edited>>

(* A push decides to order the item, or to put it at the head.             *)
Decide(t) ==
  /\ Step(t, "decide", "lock")
  /\ call' = [call EXCEPT ![t].method = IF IsNull(head) THEN "pushHead" ELSE @]
  /\ UNCHANGED <<cells, len, reg, enforce, unused, calls, kept, leaked, edited>>

LockSkipped(t) ==
  /\ Step(t, "lock", "testWait")
  /\ UNCHANGED <<cells, len, call, reg, enforce, unused, calls, kept, leaked, edited>>

Lock(t) ==
  /\ Step(t, "lock", "testWait")
  /\ TakeMutLock(cur(t))
  /\ UNCHANGED <<inner, rank, immLock, len, call, reg, enforce, unused, calls, kept, leaked, edited>>

(* Where a method goes when there is no node at cur, and when there is.    *)
AtEnd(t) ==
  CASE Doing(t, "pushHead")    -> "store"
    [] Doing(t, "pushOrdered") -> "setLock"
    [] OTHER                   -> "unlock"
AtNode(t) ==
  CASE Doing(t, "pushHead")                             -> "reload"
    [] Doing(t, "iter_mut")                             -> "mutWait"
    [] Doing(t, "remove_count") /\ call[t].count = 0    -> "unlock"
    [] OTHER                                            -> "getWait"

Test(t) ==
  /\ At(t, "test")
  /\ IF IsNull(cur(t)) /\ call[t].method \in {"find", "iter_mut"}
     THEN Return(t)
     ELSE /\ Goto(t, IF IsNull(cur(t)) THEN AtEnd(t) ELSE AtNode(t))
          /\ UNCHANGED <<call, reg>>
  /\ UNCHANGED <<cells, len, enforce, unused, calls, kept, leaked, edited>>

(* get_arc_swap().store of a node whose order function value is r.         *)
StoreNode(c, i, r) == Store(c, i) /\ rank' = [rank EXCEPT ![c] = r]

(* A panic leaves the locks as they are.  If a MutCowData is alive, it is  *)
(* dropped while the stack unwinds: it stores its copy, if it has one.     *)
Panic(t) ==
  /\ Goto(t, "panicked")
  /\ IF Doing(t, "iter_mut") /\ reg[t].ptr # Null
     THEN StoreNode(cur(t), reg[t].ptr, reg[t].rank) /\ Narrow
     ELSE UNCHANGED <<inner, rank, kept>>
  /\ leaked' = IF Doing(t, "iter_mut") /\ ~At(t, "mutTest")
               THEN leaked \cup {cur(t)} ELSE leaked
  /\ UNCHANGED <<mutLock, immLock, len, call, reg, enforce, unused, calls, edited>>

(* The is_null of get_ref and get_mut.                                     *)
GetNull(t) ==
  /\ pc[t] \in {"getTest", "mutTest"}
  /\ IsNull(cur(t))
  /\ Panic(t)

GetTest(t) ==
  /\ pc[t] \in {"getTest", "mutTest"}
  /\ ~IsNull(cur(t))
  /\ Goto(t, IF At(t, "getTest") THEN "getLoad" ELSE "mutLock")
  /\ UNCHANGED <<cells, len, call, reg, enforce, unused, calls, kept, leaked, edited>>

(* The load of get_ref, and what the method does with the node, which it   *)
(* dereferences at once: a panic if the node has gone since the test.      *)
Node(t) == inner[cur(t)]
Matches(t) == Node(t) \in call[t].want

Got(t, method, place) ==
  /\ At(t, "getLoad")
  /\ Doing(t, method)
  /\ Node(t) # Null
  /\ Goto(t, place)
  /\ reg' = [reg EXCEPT ![t].node = Node(t)]
  /\ UNCHANGED <<cells, len, enforce, unused, calls, kept, leaked, edited>>

NodeGone(t) == IF At(t, "mutDrop") THEN reg[t].ptr = Null ELSE Node(t) = Null
GetPanic(t) ==
  /\ pc[t] \in {"getLoad", "mutDrop"}
  /\ NodeGone(t)
  /\ Panic(t)

-----------------------------------------------------------------------------
(* push.  With an order function, the walk locks the head only: it gives   *)
(* up the lock of the cell it leaves, and takes none of the cell it enters.*)

PushFind(t) ==
  /\ Step(t, "getLoad", "noneq")
  /\ Doing(t, "pushOrdered")
  /\ Node(t) # Null
  /\ reg' = [reg EXCEPT ![t].node = Node(t), ![t].rank = rank[cur(t)]]
  /\ UNCHANGED <<cells, len, call, enforce, unused, calls, kept, leaked, edited>>

(* The load of enforce_noneq, and the call of the order function.          *)
Equal(t) == reg[t].rank = Key[call[t].item]
InsertsBeforeEqual(t) == Key[call[t].item] <= reg[t].rank
InsertsAfter(t) == reg[t].rank < Key[call[t].item]
InsertsBefore(t) == Key[call[t].item] < reg[t].rank

PushSkipCounted(t) ==
  /\ Step(t, "noneq", "unlock")
  /\ enforce /\ Equal(t)
  /\ UNCHANGED <<cells, len, call, reg, enforce, unused, calls, kept, leaked, edited>>

PushSkip(t) ==
  /\ Step(t, "noneq", "unlock")
  /\ enforce /\ Equal(t)
  /\ call' = [call EXCEPT ![t].method = "pushSkipped"]
  /\ UNCHANGED <<cells, len, reg, enforce, unused, calls, kept, leaked, edited>>

PushCompare(t) ==
  /\ Step(t, "noneq", IF InsertsBefore(t) THEN "reload" ELSE "move")
  /\ ~(enforce /\ Equal(t))
  /\ UNCHANGED <<cells, len, call, reg, enforce, unused, calls, kept, leaked, edited>>

(* What cur points to, which the new node's next cell is made from.        *)
Reload(t) ==
  /\ Step(t, "reload", "store")
  /\ reg' = [reg EXCEPT ![t].ptr = inner[cur(t)], ![t].rank = rank[cur(t)]]
  /\ UNCHANGED <<cells, len, call, enforce, unused, calls, kept, leaked, edited>>

PushStoreUnlinked(t) ==
  /\ Step(t, "store", "unlock")
  /\ call[t].method \in Pushes
  /\ StoreNode(cur(t), call[t].item, Key[call[t].item])
  /\ Narrow
  /\ UNCHANGED <<mutLock, immLock, len, call, reg, enforce, unused, calls, leaked, edited>>

(* get_arc_swap().store of a node whose next cell has just been made.      *)
PushStore(t) ==
  /\ Step(t, "store", "unlock")
  /\ call[t].method \in Pushes
  /\ inner' = [inner EXCEPT ![call[t].item] = reg[t].ptr, ![cur(t)] = call[t].item]
  /\ rank' = [rank EXCEPT ![call[t].item] = reg[t].rank, ![cur(t)] = Key[call[t].item]]
  /\ Narrow
  /\ UNCHANGED <<mutLock, immLock, len, call, reg, enforce, unused, calls, leaked, edited>>

(* current.set at the end of the list: takes the lock of cur, which a push *)
(* that is still at the head holds already, and gives it up.               *)
SetLock(t) ==
  /\ Step(t, "setLock", "setImm")
  /\ TakeMutLock(cur(t))
  /\ UNCHANGED <<inner, rank, immLock, len, call, reg, enforce, unused, calls, kept, leaked, edited>>

SetImm(t) ==
  /\ Step(t, "setImm", IF ImmLoopLeft(cur(t)) THEN "setStore" ELSE "setImm")
  /\ TurnImmLock(cur(t))
  /\ UNCHANGED <<inner, rank, mutLock, len, call, reg, enforce, unused, calls, kept, leaked, edited>>

SetStore(t) ==
  /\ Step(t, "setStore", "setFreeImm")
  /\ inner' = [inner EXCEPT ![call[t].item] = Null, ![cur(t)] = call[t].item]
  /\ rank' = [rank EXCEPT ![call[t].item] = 0, ![cur(t)] = Key[call[t].item]]
  /\ Narrow
  /\ UNCHANGED <<mutLock, immLock, len, call, reg, enforce, unused, calls, leaked, edited>>

SetFreeImm(t) ==
  /\ Step(t, "setFreeImm", "setFreeMut")
  /\ FreeImmLock(cur(t))
  /\ UNCHANGED <<inner, rank, mutLock, len, call, reg, enforce, unused, calls, kept, leaked, edited>>

SetFreeMut(t) ==
  /\ Step(t, "setFreeMut", "unlock")
  /\ FreeMutLock(cur(t))
  /\ UNCHANGED <<inner, rank, immLock, len, call, reg, enforce, unused, calls, kept, leaked, edited>>

PushCount(t) ==
  /\ At(t, "pushCount")
  /\ len' = (len + 1) % LenMod
  /\ Return(t)
  /\ UNCHANGED <<cells, enforce, unused, calls, kept, leaked, edited>>

-----------------------------------------------------------------------------
(* pop and remove_count.  Both store the node after the one they take into *)
(* the cell they took it from.                                             *)

PopFind(t) == Got(t, "pop", "next") /\ UNCHANGED call

RemoveFind(t) ==
  /\ Got(t, "remove_count", IF Matches(t) THEN "next" ELSE "move")
  /\ UNCHANGED call

(* node.next.get_arc_swap().load(): the lock of that cell is not taken.    *)
LoadNext(t) ==
  /\ Step(t, "next", IF Doing(t, "pop") THEN "popCount" ELSE "store")
  /\ reg' = [reg EXCEPT ![t].ptr = inner[reg[t].node], ![t].rank = rank[reg[t].node]]
  /\ UNCHANGED <<cells, len, call, enforce, unused, calls, kept, leaked, edited>>

Decrement == len' = (len + LenMod - 1) % LenMod

PopCount(t) ==
  /\ Step(t, "popCount", "store")
  /\ Decrement
  /\ UNCHANGED <<cells, call, reg, enforce, unused, calls, kept, leaked, edited>>

PopStoreUnlinking(t) ==
  /\ Step(t, "store", "unlock")
  /\ Doing(t, "pop")
  /\ inner' = [inner EXCEPT ![cur(t)] = reg[t].ptr, ![reg[t].node] = Null]
  /\ rank' = [rank EXCEPT ![cur(t)] = reg[t].rank, ![reg[t].node] = 0]
  /\ Narrow
  /\ UNCHANGED <<mutLock, immLock, len, call, reg, enforce, unused, calls, leaked, edited>>

PopStore(t) ==
  /\ Step(t, "store", "unlock")
  /\ Doing(t, "pop")
  /\ StoreNode(cur(t), reg[t].ptr, reg[t].rank)
  /\ Narrow
  /\ UNCHANGED <<mutLock, immLock, len, call, reg, enforce, unused, calls, leaked, edited>>

RemoveStoreUnlinking(t) ==
  /\ Step(t, "store", "removeCount")
  /\ Doing(t, "remove_count")
  /\ inner' = [inner EXCEPT ![cur(t)] = reg[t].ptr, ![reg[t].node] = Null]
  /\ rank' = [rank EXCEPT ![cur(t)] = reg[t].rank, ![reg[t].node] = 0]
  /\ reg' = [reg EXCEPT ![t] = [cur |-> @.cur, node |-> Null, ptr |-> Null, rank |-> 0,
                              got |-> @.got \cup {@.node}]]
  /\ Narrow
  /\ UNCHANGED <<mutLock, immLock, len, call, enforce, unused, calls, leaked, edited>>

RemoveStore(t) ==
  /\ Step(t, "store", "removeCount")
  /\ Doing(t, "remove_count")
  /\ StoreNode(cur(t), reg[t].ptr, reg[t].rank)
  /\ reg' = [reg EXCEPT ![t] = [cur |-> @.cur, node |-> Null, ptr |-> Null, rank |-> 0,
                              got |-> @.got \cup {@.node}]]
  /\ Narrow
  /\ UNCHANGED <<mutLock, immLock, len, call, enforce, unused, calls, leaked, edited>>

RemoveCount(t) ==
  /\ Step(t, "removeCount", "testWait")
  /\ Decrement
  /\ call' = [call EXCEPT ![t].count = @ - 1]
  /\ UNCHANGED <<cells, reg, enforce, unused, calls, kept, leaked, edited>>

MoveKeepingLock(t) ==
  /\ Step(t, "move", IF Doing(t, "remove_count") THEN "lock" ELSE "testWait")
  /\ reg' = [reg EXCEPT ![t].cur = reg[t].node, ![t].node = Null, ![t].rank = 0]
  /\ UNCHANGED <<cells, len, call, enforce, unused, calls, kept, leaked, edited>>

(* On to the next cell: remove_count locks it, push does not.              *)
Move(t) ==
  /\ Step(t, "move", IF Doing(t, "remove_count") THEN "lock" ELSE "testWait")
  /\ FreeMutLock(cur(t))
  /\ reg' = [reg EXCEPT ![t].cur = reg[t].node, ![t].node = Null, ![t].rank = 0]
  /\ UNCHANGED <<inner, rank, immLock, len, call, enforce, unused, calls, kept, leaked, edited>>

UnlockForgottenWhenEmpty(t) ==
  /\ At(t, "unlock")
  /\ IF reg[t].node = Null /\ Doing(t, "pop") THEN UNCHANGED mutLock ELSE FreeMutLock(cur(t))
  /\ IF call[t].method \in Pushes
     THEN Goto(t, "pushCount") /\ UNCHANGED <<call, reg>>
     ELSE Return(t)
  /\ UNCHANGED <<inner, rank, immLock, len, enforce, unused, calls, kept, leaked, edited>>

(* The last remove_lock of push, pop and remove_count.                     *)
Unlock(t) ==
  /\ At(t, "unlock")
  /\ FreeMutLock(cur(t))
  /\ IF call[t].method \in Pushes
     THEN Goto(t, "pushCount") /\ UNCHANGED <<call, reg>>
     ELSE Return(t)
  /\ UNCHANGED <<inner, rank, immLock, len, enforce, unused, calls, kept, leaked, edited>>

-----------------------------------------------------------------------------
(* find and iteration.                                                     *)

FindHit(t) ==
  /\ At(t, "getLoad")
  /\ Doing(t, "find")
  /\ Matches(t)
  /\ Return(t)
  /\ UNCHANGED <<cells, len, enforce, unused, calls, kept, leaked, edited>>

FindNext(t) ==
  /\ Step(t, "getLoad", "testWait")
  /\ Doing(t, "find")
  /\ Node(t) # Null /\ ~Matches(t)
  /\ reg' = [reg EXCEPT ![t].cur = Node(t)]
  /\ UNCHANGED <<cells, len, call, enforce, unused, calls, kept, leaked, edited>>

(* IterMut::next: get_mut of the cell, then get_ref to find the next one.  *)
(* The guard is dropped before the next turn.                              *)
MutLock(t) ==
  /\ Step(t, "mutLock", "mutLoad")
  /\ TakeMutLock(cur(t))
  /\ UNCHANGED <<inner, rank, immLock, len, call, reg, enforce, unused, calls, kept, leaked, edited>>

MutLoad(t) ==
  /\ Step(t, "mutLoad", "getWait")
  /\ reg' = [reg EXCEPT ![t].ptr = inner[cur(t)], ![t].rank = rank[cur(t)]]
  /\ UNCHANGED <<cells, len, call, enforce, unused, calls, kept, leaked, edited>>

MutFind(t) == Got(t, "iter_mut", "mutDrop") /\ UNCHANGED call

(* MutCowData::drop stores the copy, of which the client may have changed  *)
(* what the order function compares, and leaves mut_lock set.  The copy    *)
(* shares the next cell of its original.  Without one, the drop panics.    *)
MutDrop(t) ==
  /\ At(t, "mutDrop")
  /\ reg[t].ptr # Null
  /\ Goto(t, "testWait")
  /\ \E r \in Edits \cup {reg[t].rank} :
       /\ StoreNode(cur(t), reg[t].ptr, r)
       /\ edited' = (edited \/ r # reg[t].rank)
  /\ reg' = [reg EXCEPT ![t] = [cur |-> @.node, node |-> Null, ptr |-> Null, rank |-> 0,
                              got |-> @.got]]
  /\ leaked' = leaked \cup {cur(t)}
  /\ Narrow
  /\ UNCHANGED <<mutLock, immLock, len, call, enforce, unused, calls>>

-----------------------------------------------------------------------------
Call(t) ==
  \/ SetEnforceNoneq(t)
  \/ \E i \in Items : CallPush(t, i)
  \/ CallPop(t)
  \/ \E want \in Predicates :
       CallFind(t, want) \/ \E n \in Counts : CallRemove(t, want, n)
  \/ CallIterMut(t)

Proceed(t) ==
  \/ WaitImm(t) \/ Decide(t) \/ Lock(t) \/ Test(t) \/ GetTest(t) \/ GetNull(t) \/ GetPanic(t)
  \/ PushFind(t) \/ PushSkip(t) \/ PushCompare(t) \/ Reload(t) \/ PushStore(t)
  \/ SetLock(t) \/ SetImm(t) \/ SetStore(t) \/ SetFreeImm(t) \/ SetFreeMut(t)
  \/ PushCount(t) \/ Unlock(t)
  \/ PopFind(t) \/ LoadNext(t) \/ PopCount(t) \/ PopStore(t)
  \/ RemoveFind(t) \/ RemoveStore(t) \/ RemoveCount(t) \/ Move(t)
  \/ FindHit(t) \/ FindNext(t)
  \/ MutLock(t) \/ MutLoad(t) \/ MutFind(t) \/ MutDrop(t)

Next == \E t \in Threads : Call(t) \/ Proceed(t)

(* Every thread keeps running; nobody is obliged to make a call.           *)
Fairness == \A t \in Threads : WF_vars(Proceed(t))

SafetySpec == Init /\ [][Next]_vars
Spec == SafetySpec /\ Fairness

-----------------------------------------------------------------------------
(* Properties.                                                             *)

(* The types of the variables.                                             *)
TypeOK ==
  /\ CellsType
  /\ rank \in [Cells -> Nat]
  /\ len \in 0 .. LenMod - 1
  /\ enforce \in BOOLEAN
  /\ pc \in [Threads -> Places]
  /\ call \in [Threads -> Calls]
  /\ reg \in [Threads -> Regs]
  /\ unused \subseteq Items
  /\ calls \in 0 .. MaxCalls
  /\ kept \in [Threads -> SUBSET Items]
  /\ leaked \subseteq Cells
  /\ edited \in BOOLEAN

(* The list as its clients see it.  A call takes effect with its store: a  *)
(* pop that has made it holds the item that it will return.                *)
PopHolds(t) == IF Doing(t, "pop") /\ At(t, "unlock") THEN reg[t].node ELSE Null
Abstract == INSTANCE AbstractList WITH
              None <- Null, noneq <- enforce, edited <- edited, list <- Listing,
              popped <- [t \in Threads |-> PopHolds(t)],
              removed <- [t \in Threads |-> reg[t].got]

(* Each push, pop and remove_count takes effect at one moment, as a stack  *)
(* does without an order function and as a sorted list with one.           *)
ImplementsAbstractList == Abstract!Spec

(* len counts the listed items, but for the calls that have stored and not *)
(* counted yet, or counted (pop) and not stored: it is exact when no call  *)
(* is under way, and no path through a call counts twice or not at all.    *)
PushesUncounted ==
  {t \in Threads :
     /\ call[t].method \in Pushes
     /\ pc[t] \in {"setFreeImm", "setFreeMut", "unlock", "pushCount"}}
PopsAhead == {t \in Threads : Doing(t, "pop") /\ At(t, "store")}
RemovesUncounted == {t \in Threads : At(t, "removeCount")}

LenExact ==
  (len + Cardinality(PushesUncounted)) % LenMod =
    (Len(Listing) + LenMod - Cardinality(PopsAhead) + Cardinality(RemovesUncounted))
      % LenMod

(* A find, contains or iteration that comes to the end has not overlooked  *)
(* an item that was in the list all the time, though nodes were unlinked   *)
(* and their cells reused under it.                                        *)
FindComplete ==
  \A t \in Threads :
    Doing(t, "find") /\ At(t, "test") /\ IsNull(cur(t))
      => kept[t] \cap call[t].want = {}

(* The links of an ordered list ascend, those of unlinked nodes that a     *)
(* reader may still stand on included: no reader goes back.                *)
LinksAscend ==
  Ordered /\ ~edited =>
    \A i \in Items : inner[i] # Null => Key[i] <= Key[inner[i]]

(* Only a find or an iteration can panic: push, pop and remove_count test  *)
(* a cell that nobody can empty before they load it.                       *)
WritersNeverPanic ==
  \A t \in Threads : At(t, "panicked") => call[t].method \in {"find", "iter_mut"}

(* Every call returns or panics, unless an iter_mut has been at the list,  *)
(* which leaves the cells it has visited locked: nothing else forgets an   *)
(* unlock on any of its paths, or waits for a lock that it holds itself.   *)
CallsEnd ==
  \A t \in Threads :
    ~At(t, "idle") ~>
      pc[t] \in {"idle", "panicked"} \/ \E c \in leaked : mutLock[c]

(* README.md:61-62: a list "that any thread can read, write, iterate over, *)
(* or drain from at the same time".  The code breaks it: a pop between the *)
(* is_null of a find and the load of its get_ref makes the find panic.     *)
NobodyPanics == \A t \in Threads : ~At(t, "panicked")

(* shared_list2.rs:71-73: the node "will be placed in-between the first    *)
(* neighbour pair of nodes where the first is less than the added data and *)
(* the second is greater".  The code breaks it when two pushes find the    *)
(* list empty: both put their item at the head, whatever the order.        *)
Sorted ==
  Ordered /\ ~edited =>
    \A k \in 2 .. Len(Listing) : Key[Listing[k - 1]] <= Key[Listing[k]]
=============================================================================
