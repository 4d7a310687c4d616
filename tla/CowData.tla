------------------------------- MODULE CowData -------------------------------
(***************************************************************************)
(* CowData<T> of src/src/cow_data.rs: threads that share some cells call   *)
(* its methods.  One action per atomic access of a method.                 *)
(*                                                                         *)
(* A call is a record: the method, the cell it is called on, the other     *)
(* cell (of bump_into_null and swap) and the value (of set, bump_into_null *)
(* and the writes through a guard or under create_lock).  set_null is set  *)
(* with the value Null.  is_null and the loads it makes are shared by      *)
(* get_ref, get_mut and bump_into_null.  Nothing bounds the number of      *)
(* calls: a thread between two calls keeps nothing.                        *)
(***************************************************************************)
EXTENDS CowCells

CONSTANTS
  Threads,
  MethodsOf,  \* the methods that each thread of this instance calls
  CellsOf     \* and the cells it calls them on

VARIABLES
  pc,         \* where each thread is in its call
  call,       \* the call it is in
  reg,        \* the value it has loaded, or holds in its guard
  leaked      \* history: the protected cells a guard was dropped on

vars == <<CellVars, pc, call, reg, leaked>>

AllMethods == {"set", "bump_into_null", "swap", "get_ref", "get_mut", "create_lock"}

ASSUME RolesKnown ==
  MethodsOf \in [Threads -> SUBSET AllMethods] /\ CellsOf \in [Threads -> SUBSET Cells]

Places ==
  { "idle",
    "nullWait", "nullLoad",            \* is_null
    "takeMut", "imm", "store",         \* set, bump_into_null
    "fill", "freeImm", "freeMut",
    "immSelf", "immFrom", "load",      \* swap
    "exchange", "freeFrom", "freeSelf", "giveBack",
    "refLoad", "refGuard",             \* get_ref and the guard it returns
    "takeGuard", "mutLoad", "mutGuard",\* get_mut and the guard it returns
    "takeLock", "locked",              \* create_lock ... remove_lock
    "panicked" }

NoCall == [method |-> "none"]
Calls == [method : AllMethods, cell : Cells, other : Cells, value : Contents]

At(t, place) == pc[t] = place
Goto(t, place) == pc' = [pc EXCEPT ![t] = place]
Step(t, from, to) == At(t, from) /\ Goto(t, to)
Doing(t, method) == call[t].method = method
Cell(t) == call[t].cell
Other(t) == call[t].other

(* The call ends, by returning or by dropping the guard it returned, or    *)
(* its thread panics and stops.                                            *)
End(t, place) ==
  /\ Goto(t, place)
  /\ call' = [call EXCEPT ![t] = NoCall]
  /\ reg' = [reg EXCEPT ![t] = Null]

Return(t) == End(t, "idle")
Panic(t) == End(t, "panicked")

Init ==
  /\ \E contents \in [Cells -> Contents] : CellsInit(contents)
  /\ pc = [t \in Threads |-> "idle"]
  /\ call = [t \in Threads |-> NoCall]
  /\ reg = [t \in Threads |-> Null]
  /\ leaked = {}

FirstPlace(method) ==
  IF method = "set" THEN "takeMut"
  ELSE IF method = "swap" THEN "immSelf"
  ELSE IF method = "create_lock" THEN "takeLock" ELSE "nullWait"

(* A client calls a method.  None can be stored by set_null and through    *)
(* get_arc_swap; fields that a method does not look at get a fixed value.  *)
Invoke(t, m, c, d, v) ==
  /\ At(t, "idle")
  /\ m \notin {"swap", "bump_into_null"} => d = c
  /\ m \in {"swap", "get_ref"} => v = Null
  /\ m \in {"bump_into_null", "get_mut"} => v # Null
  /\ Goto(t, FirstPlace(m))
  /\ call' = [call EXCEPT ![t] = [method |-> m, cell |-> c, other |-> d, value |-> v]]
  /\ UNCHANGED <<CellVars, reg, leaked>>

-----------------------------------------------------------------------------
(* is_null, of the other cell in bump_into_null and of the own one in      *)
(* get_ref and get_mut: the caller panics on the wrong answer.             *)

Tested(t) == IF Doing(t, "bump_into_null") THEN Other(t) ELSE Cell(t)

NullWait(t) ==
  /\ Step(t, "nullWait", "nullLoad")
  /\ ImmFree(Tested(t))
  /\ UNCHANGED <<CellVars, call, reg, leaked>>

AfterTest(t) ==
  IF Doing(t, "bump_into_null") THEN "takeMut"
  ELSE IF Doing(t, "get_ref") THEN "refLoad" ELSE "takeGuard"

NullLoad(t) ==
  /\ At(t, "nullLoad")
  /\ IF Doing(t, "bump_into_null") <=> IsNull(Tested(t))
     THEN Goto(t, AfterTest(t)) /\ UNCHANGED <<call, reg>>
     ELSE Panic(t)
  /\ UNCHANGED <<CellVars, leaked>>

-----------------------------------------------------------------------------
(* set, set_null and bump_into_null                                        *)

TakeMutSkipped(t) ==
  /\ Step(t, "takeMut", "imm")
  /\ UNCHANGED <<CellVars, call, reg, leaked>>

TakeMut(t) ==
  /\ Step(t, "takeMut", "imm")
  /\ TakeMutLock(Cell(t))
  /\ UNCHANGED <<inner, immLock, call, reg, leaked>>

Imm(t) ==
  /\ Step(t, "imm", IF ImmLoopLeft(Cell(t)) THEN "store" ELSE "imm")
  /\ TurnImmLock(Cell(t))
  /\ UNCHANGED <<inner, mutLock, call, reg, leaked>>

(* inner.store of set; inner.swap of bump_into_null, which keeps the old   *)
(* value for the null cell.                                                *)
StoreValue(t) ==
  /\ At(t, "store")
  /\ Store(Cell(t), call[t].value)
  /\ IF Doing(t, "bump_into_null")
     THEN reg' = [reg EXCEPT ![t] = inner[Cell(t)]] /\ Goto(t, "fill")
     ELSE UNCHANGED reg /\ Goto(t, "freeImm")
  /\ UNCHANGED <<mutLock, immLock, call, leaked>>

(* null_cow.inner.store: no lock of the null cell is taken.                *)
Fill(t) ==
  /\ Step(t, "fill", "freeImm")
  /\ Store(Other(t), reg[t])
  /\ UNCHANGED <<mutLock, immLock, call, reg, leaked>>

FreeImmForgotten(t) ==
  /\ Step(t, "freeImm", "freeMut")
  /\ UNCHANGED <<CellVars, call, reg, leaked>>

FreeImm(t) ==
  /\ Step(t, "freeImm", "freeMut")
  /\ FreeImmLock(Cell(t))
  /\ UNCHANGED <<inner, mutLock, call, reg, leaked>>

FreeMutForgotten(t) ==
  /\ At(t, "freeMut")
  /\ Return(t)
  /\ UNCHANGED <<CellVars, leaked>>

FreeMut(t) ==
  /\ At(t, "freeMut")
  /\ FreeMutLock(Cell(t))
  /\ Return(t)
  /\ UNCHANGED <<inner, immLock, leaked>>

-----------------------------------------------------------------------------
(* swap: the two imm loops, then the exchange through from_old, self_old   *)
(* and the final from.inner.swap, which comes after both are freed.  The   *)
(* mut_locks are not taken.                                                *)

ImmSelf(t) ==
  /\ Step(t, "immSelf", IF ImmLoopLeft(Cell(t)) THEN "immFrom" ELSE "immSelf")
  /\ TurnImmLock(Cell(t))
  /\ UNCHANGED <<inner, mutLock, call, reg, leaked>>

(* The loop as its name suggests it was meant: leave it once the flag was  *)
(* free and is now ours.                                                   *)
ImmFromAsMutex(t) ==
  /\ Step(t, "immFrom", "load")
  /\ ImmFree(Other(t))
  /\ TurnImmLock(Other(t))
  /\ UNCHANGED <<inner, mutLock, call, reg, leaked>>

ImmFrom(t) ==
  /\ Step(t, "immFrom", IF ImmLoopLeft(Other(t)) THEN "load" ELSE "immFrom")
  /\ TurnImmLock(Other(t))
  /\ UNCHANGED <<inner, mutLock, call, reg, leaked>>

LoadFrom(t) ==
  /\ Step(t, "load", "exchange")
  /\ reg' = [reg EXCEPT ![t] = inner[Other(t)]]
  /\ UNCHANGED <<CellVars, call, leaked>>

Exchange(t) ==
  /\ Step(t, "exchange", "freeFrom")
  /\ Store(Cell(t), reg[t])
  /\ reg' = [reg EXCEPT ![t] = inner[Cell(t)]]
  /\ UNCHANGED <<mutLock, immLock, call, leaked>>

FreeFrom(t) ==
  /\ Step(t, "freeFrom", "freeSelf")
  /\ FreeImmLock(Other(t))
  /\ UNCHANGED <<inner, mutLock, call, reg, leaked>>

FreeSelf(t) ==
  /\ Step(t, "freeSelf", "giveBack")
  /\ FreeImmLock(Cell(t))
  /\ UNCHANGED <<inner, mutLock, call, reg, leaked>>

GiveBack(t) ==
  /\ At(t, "giveBack")
  /\ Store(Other(t), reg[t])
  /\ Return(t)
  /\ UNCHANGED <<mutLock, immLock, leaked>>

-----------------------------------------------------------------------------
(* get_ref and RefCowData.  The value was tested before it is loaded: the  *)
(* guard may hold None, and then its deref panics.                         *)

RefLoad(t) ==
  /\ Step(t, "refLoad", "refGuard")
  /\ reg' = [reg EXCEPT ![t] = inner[Cell(t)]]
  /\ UNCHANGED <<CellVars, call, leaked>>

RefDeref(t) ==
  /\ At(t, "refGuard")
  /\ IF reg[t] = Null THEN Panic(t) ELSE Return(t)
  /\ UNCHANGED <<CellVars, leaked>>

-----------------------------------------------------------------------------
(* get_mut and MutCowData.                                                 *)

TakeGuardSkipped(t) ==
  /\ Step(t, "takeGuard", "mutLoad")
  /\ UNCHANGED <<CellVars, call, reg, leaked>>

TakeGuard(t) ==
  /\ Step(t, "takeGuard", "mutLoad")
  /\ TakeMutLock(Cell(t))
  /\ UNCHANGED <<inner, immLock, call, reg, leaked>>

MutLoad(t) ==
  /\ Step(t, "mutLoad", "mutGuard")
  /\ reg' = [reg EXCEPT ![t] = inner[Cell(t)]]
  /\ UNCHANGED <<CellVars, call, leaked>>

(* DerefMut or MutCowData::set (which also works on None): the guard's own *)
(* copy changes.                                                           *)
MutWrite(t) ==
  /\ At(t, "mutGuard")
  /\ reg[t] # call[t].value
  /\ reg' = [reg EXCEPT ![t] = call[t].value]
  /\ UNCHANGED <<CellVars, pc, call, leaked>>

(* MutCowData::drop stores the copy, and panics when it is None (as Deref  *)
(* and DerefMut do before it); the cell's mut_lock stays as it is.         *)
MutDrop(t) ==
  /\ At(t, "mutGuard")
  /\ IF reg[t] = Null
     THEN Panic(t) /\ UNCHANGED inner
     ELSE Store(Cell(t), reg[t]) /\ Return(t)
  /\ leaked' = leaked \cup ({Cell(t)} \cap Protected)
  /\ UNCHANGED <<mutLock, immLock>>

-----------------------------------------------------------------------------
(* create_lock ... remove_lock, with a store through get_arc_swap between. *)

TakeLock(t) ==
  /\ Step(t, "takeLock", "locked")
  /\ TakeMutLock(Cell(t))
  /\ UNCHANGED <<inner, immLock, call, reg, leaked>>

StoreLocked(t) ==
  /\ Step(t, "locked", "freeMut")
  /\ Store(Cell(t), call[t].value)
  /\ UNCHANGED <<mutLock, immLock, call, reg, leaked>>

-----------------------------------------------------------------------------
Proceed(t) ==
  \/ NullWait(t) \/ NullLoad(t)
  \/ TakeMut(t) \/ Imm(t) \/ StoreValue(t) \/ Fill(t) \/ FreeImm(t) \/ FreeMut(t)
  \/ ImmSelf(t) \/ ImmFrom(t) \/ LoadFrom(t) \/ Exchange(t)
  \/ FreeFrom(t) \/ FreeSelf(t) \/ GiveBack(t)
  \/ RefLoad(t) \/ RefDeref(t)
  \/ TakeGuard(t) \/ MutLoad(t) \/ MutDrop(t)
  \/ TakeLock(t) \/ StoreLocked(t)

Next ==
  \E t \in Threads :
    \/ \E m \in MethodsOf[t], c \in CellsOf[t], d \in Cells, v \in Contents : Invoke(t, m, c, d, v)
    \/ Proceed(t)
    \/ MutWrite(t)

(* Every thread keeps running, and drops the guards it holds.              *)
Fairness == \A t \in Threads : WF_vars(Proceed(t))

SafetySpec == Init /\ [][Next]_vars
Spec == SafetySpec /\ Fairness

-----------------------------------------------------------------------------
(* Properties.                                                             *)

(* The threads between acquiring the mut_lock of c and giving it up, or    *)
(* dropping the guard that should give it up.                              *)
MutOwners(c) ==
  {t \in Threads :
     /\ pc[t] \in {"imm", "store", "fill", "freeImm", "freeMut",
                  "mutLoad", "mutGuard", "locked"}
     /\ Cell(t) = c}

(* The threads that have set the imm_lock of c, or are about to, and have  *)
(* yet to clear it.                                                        *)
ImmUsers(c) ==
  {t \in Threads :
     \/ pc[t] \in {"imm", "store", "fill", "freeImm"} /\ Cell(t) = c
     \/ /\ pc[t] \in {"immSelf", "immFrom", "load", "exchange",
                     "freeFrom", "freeSelf"}
        /\ Cell(t) = c
     \/ pc[t] \in {"immFrom", "load", "exchange", "freeFrom"} /\ Other(t) = c}

(* The writes that take no mut_lock: both of swap, and the one             *)
(* bump_into_null makes to the null cell.                                  *)
UnlockedWrite(t, c) ==
  \/ At(t, "exchange") /\ Cell(t) = c
  \/ At(t, "giveBack") /\ Other(t) = c
  \/ At(t, "fill") /\ Other(t) = c

(* The types of the variables; a thread inside a call has a call.          *)
TypeOK ==
  /\ CellsType
  /\ pc \in [Threads -> Places]
  /\ call \in [Threads -> Calls \cup {NoCall}]
  /\ reg \in [Threads -> Contents]
  /\ leaked \in SUBSET Cells
  /\ \A t \in Threads :
       IF pc[t] \in {"idle", "panicked"} THEN call[t] = NoCall ELSE call[t] \in Calls

(* The mut_lock of a lock protected cell is a mutex of set, set_null,      *)
(* bump_into_null, get_mut with the life of its guard, and create_lock:    *)
(* one of them at a time, whatever swap does beside them.                  *)
MutLockMutex ==
  \A c \in Protected :
    /\ \A t, u \in MutOwners(c) : t = u
    /\ MutOwners(c) # {} => mutLock[c]

(* imm_lock, which several threads may hold at once because its loop is    *)
(* left when the flag was already set, is never left set by the last of    *)
(* them: nobody holds it once nobody uses it.                              *)
ImmLockAccounted ==
  \A c \in Cells : immLock[c] => ImmUsers(c) # {}

(* While a thread owns the mut_lock of a lock protected cell, nobody else  *)
(* changes the cell, except by the writes that never take the lock.        *)
OwnerUndisturbed ==
  [][\A c \in Protected : \A t \in MutOwners(c) :
       inner'[c] # inner[c] =>
         \/ pc'[t] # pc[t]
         \/ \E u \in Threads : UnlockedWrite(u, c) /\ pc'[u] # pc[u]]_vars

(* A mut_lock without an owner is set only on a cell that a guard of       *)
(* get_mut was dropped on: MutCowData has no way to the flag, whether its  *)
(* drop stores or panics on None.  Every other call, through its loops and *)
(* its panics, leaves the flag as it found it.  (The comment at            *)
(* cow_data.rs:10-11 has guards release it as well.)                       *)
OnlyGuardsLeak ==
  \A c \in Cells : mutLock[c] /\ MutOwners(c) = {} => c \in leaked

(* A call of set, bump_into_null or swap comes to a loop on an imm_lock.   *)
ImmUserEnters == \E c \in Cells : ~(ImmUsers(c)' \subseteq ImmUsers(c))

(* is_null, and so get_ref, get_mut and bump_into_null, waits for ever     *)
(* only beside calls that never stop to come to the imm_locks: nothing in  *)
(* the code makes them let a reader pass, and those on another cell can    *)
(* hold up a swap, in the middle of its two loops, that the reader waits   *)
(* for.  When they do stop, whoever has set imm_lock clears it, whatever   *)
(* the inverted loop let in: swaps that cross, a cell swapped with itself, *)
(* a set beside them.                                                      *)
ReadersReturn ==
  \A t \in Threads : []<>~At(t, "nullWait") \/ []<><<ImmUserEnters>>_vars
=============================================================================
