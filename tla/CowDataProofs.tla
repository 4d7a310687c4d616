---------------------------- MODULE CowDataProofs ----------------------------
(***************************************************************************)
(* Proofs about CowData: its type invariant, mut_lock as a mutex that only *)
(* the guards of get_mut leak, the bookkeeping of imm_lock, and that the   *)
(* owner of a mut_lock is not disturbed, for any number of threads, cells  *)
(* and values.                                                             *)
(*                                                                         *)
(* The invariants are inductive next to the types: MutLockMutex and        *)
(* ImmLockAccounted each alone; OnlyGuardsLeak with UnprotectedFree, that  *)
(* the calls on a cell without lock protection leave its flag alone.       *)
(***************************************************************************)
EXTENDS CowData, TLAPS

LEMMA FirstPlaceType ==
  ASSUME NEW m \in AllMethods
  PROVE  FirstPlace(m) \in Places \ {"idle", "panicked"}
BY DEF FirstPlace, AllMethods, Places

LEMMA AfterTestType ==
  ASSUME NEW t
  PROVE  AfterTest(t) \in {"takeMut", "refLoad", "takeGuard"}
BY DEF AfterTest

(* A thread that is inside a call has one; both cells of it are cells.     *)
LEMMA InCall ==
  ASSUME TypeOK, NEW t \in Threads, pc[t] \notin {"idle", "panicked"}
  PROVE  /\ call[t] \in Calls
         /\ Cell(t) \in Cells /\ Other(t) \in Cells /\ call[t].value \in Contents
BY DEF TypeOK, At, Calls, Cell, Other

(* Next as the actions of one thread.                                      *)
LEMMA NextCases ==
  ASSUME Next
  PROVE  \E t \in Threads :
           \/ \E m \in MethodsOf[t], c \in CellsOf[t], d \in Cells, v \in Contents : Invoke(t, m, c, d, v)
           \/ Proceed(t)
           \/ MutWrite(t)
BY DEF Next

-----------------------------------------------------------------------------
(* Types.                                                                  *)

LEMMA TypeInit == Init => TypeOK
BY CellAssumption DEF Init, CellsInit, TypeOK, CellsType, Places, At

LEMMA TypeProceed ==
  ASSUME TypeOK, NEW t \in Threads, Proceed(t) \/ MutWrite(t)
  PROVE  TypeOK'
<1> USE CellAssumption
<1> USE DEF TypeOK, CellsType, CellVars, Places, At, Goto, Step, End, Return, Panic
<1>1. CASE NullWait(t)
  BY <1>1, InCall DEF NullWait
<1>2. CASE NullLoad(t)
  BY <1>2, InCall, AfterTestType DEF NullLoad
<1>3. CASE TakeMut(t)
  BY <1>3, InCall DEF TakeMut, TakeMutLock
<1>4. CASE Imm(t)
  BY <1>4, InCall DEF Imm, TurnImmLock
<1>5. CASE StoreValue(t)
  BY <1>5, InCall DEF StoreValue, Store
<1>6. CASE Fill(t)
  BY <1>6, InCall DEF Fill, Store
<1>7. CASE FreeImm(t)
  BY <1>7, InCall DEF FreeImm, FreeImmLock
<1>8. CASE FreeMut(t)
  BY <1>8, InCall DEF FreeMut, FreeMutLock
<1>9. CASE ImmSelf(t)
  BY <1>9, InCall DEF ImmSelf, TurnImmLock
<1>10. CASE ImmFrom(t)
  BY <1>10, InCall DEF ImmFrom, TurnImmLock
<1>11. CASE LoadFrom(t)
  BY <1>11, InCall DEF LoadFrom
<1>12. CASE Exchange(t)
  BY <1>12, InCall DEF Exchange, Store
<1>13. CASE FreeFrom(t)
  BY <1>13, InCall DEF FreeFrom, FreeImmLock
<1>14. CASE FreeSelf(t)
  BY <1>14, InCall DEF FreeSelf, FreeImmLock
<1>15. CASE GiveBack(t)
  BY <1>15, InCall DEF GiveBack, Store
<1>16. CASE RefLoad(t)
  BY <1>16, InCall DEF RefLoad
<1>17. CASE RefDeref(t)
  BY <1>17, InCall DEF RefDeref
<1>18. CASE TakeGuard(t)
  BY <1>18, InCall DEF TakeGuard, TakeMutLock
<1>19. CASE MutLoad(t)
  BY <1>19, InCall DEF MutLoad
<1>20. CASE MutDrop(t)
  BY <1>20, InCall DEF MutDrop, Store
<1>21. CASE TakeLock(t)
  BY <1>21, InCall DEF TakeLock, TakeMutLock
<1>22. CASE StoreLocked(t)
  BY <1>22, InCall DEF StoreLocked, Store
<1>23. CASE MutWrite(t)
  BY <1>23, InCall DEF MutWrite
<1> QED
  BY <1>1, <1>2, <1>3, <1>4, <1>5, <1>6, <1>7, <1>8, <1>9, <1>10, <1>11, <1>12, <1>13, <1>14, <1>15, <1>16, <1>17, <1>18, <1>19, <1>20, <1>21, <1>22, <1>23 DEF Proceed

LEMMA TypeInvoke ==
  ASSUME TypeOK, NEW t \in Threads, NEW m \in MethodsOf[t], NEW c \in CellsOf[t],
         NEW d \in Cells, NEW v \in Contents, Invoke(t, m, c, d, v)
  PROVE  TypeOK'
<1>1. FirstPlace(m) \in Places \ {"idle", "panicked"}
  BY FirstPlaceType, RolesKnown
<1>2. [method |-> m, cell |-> c, other |-> d, value |-> v] \in Calls
  BY RolesKnown DEF Calls
<1> QED
  BY <1>1, <1>2 DEF TypeOK, Invoke, CellsType, CellVars, At, Goto, Step

LEMMA TypeStep == TypeOK /\ [Next]_vars => TypeOK'
<1> SUFFICES ASSUME TypeOK, [Next]_vars PROVE TypeOK'
  OBVIOUS
<1>1. CASE UNCHANGED vars
  BY <1>1 DEF vars, TypeOK, CellsType, CellVars, At
<1>2. CASE Next
  BY <1>2, NextCases, TypeProceed, TypeInvoke
<1> QED
  BY <1>1, <1>2

-----------------------------------------------------------------------------
(* mut_lock.                                                               *)

LEMMA MutexProceed ==
  ASSUME TypeOK, MutLockMutex, NEW t \in Threads, Proceed(t) \/ MutWrite(t)
  PROVE  MutLockMutex'
<1> USE CellAssumption
<1> USE DEF TypeOK, CellsType, CellVars, MutLockMutex, MutOwners, At, Goto, Step, End, Return, Panic, Cell
<1>1. CASE NullWait(t)
  BY <1>1, InCall DEF NullWait
<1>2. CASE NullLoad(t)
  BY <1>2, InCall, AfterTestType DEF NullLoad
<1>3. CASE TakeMut(t)
  BY <1>3, InCall DEF TakeMut, TakeMutLock
<1>4. CASE Imm(t)
  BY <1>4, InCall DEF Imm, TurnImmLock
<1>5. CASE StoreValue(t)
  BY <1>5, InCall DEF StoreValue, Store
<1>6. CASE Fill(t)
  BY <1>6, InCall DEF Fill, Store
<1>7. CASE FreeImm(t)
  BY <1>7, InCall DEF FreeImm, FreeImmLock
<1>8. CASE FreeMut(t)
  BY <1>8, InCall DEF FreeMut, FreeMutLock
<1>9. CASE ImmSelf(t)
  BY <1>9, InCall DEF ImmSelf, TurnImmLock
<1>10. CASE ImmFrom(t)
  BY <1>10, InCall DEF ImmFrom, TurnImmLock
<1>11. CASE LoadFrom(t)
  BY <1>11, InCall DEF LoadFrom
<1>12. CASE Exchange(t)
  BY <1>12, InCall DEF Exchange, Store
<1>13. CASE FreeFrom(t)
  BY <1>13, InCall DEF FreeFrom, FreeImmLock
<1>14. CASE FreeSelf(t)
  BY <1>14, InCall DEF FreeSelf, FreeImmLock
<1>15. CASE GiveBack(t)
  BY <1>15, InCall DEF GiveBack, Store
<1>16. CASE RefLoad(t)
  BY <1>16, InCall DEF RefLoad
<1>17. CASE RefDeref(t)
  BY <1>17, InCall DEF RefDeref
<1>18. CASE TakeGuard(t)
  BY <1>18, InCall DEF TakeGuard, TakeMutLock
<1>19. CASE MutLoad(t)
  BY <1>19, InCall DEF MutLoad
<1>20. CASE MutDrop(t)
  BY <1>20, InCall DEF MutDrop, Store
<1>21. CASE TakeLock(t)
  BY <1>21, InCall DEF TakeLock, TakeMutLock
<1>22. CASE StoreLocked(t)
  BY <1>22, InCall DEF StoreLocked, Store
<1>23. CASE MutWrite(t)
  BY <1>23, InCall DEF MutWrite
<1> QED
  BY <1>1, <1>2, <1>3, <1>4, <1>5, <1>6, <1>7, <1>8, <1>9, <1>10, <1>11, <1>12, <1>13, <1>14, <1>15, <1>16, <1>17, <1>18, <1>19, <1>20, <1>21, <1>22, <1>23 DEF Proceed

LEMMA MutexStep == TypeOK /\ MutLockMutex /\ [Next]_vars => MutLockMutex'
<1> SUFFICES ASSUME TypeOK, MutLockMutex, [Next]_vars PROVE MutLockMutex'
  OBVIOUS
<1>1. CASE UNCHANGED vars
  BY <1>1 DEF vars, CellVars, MutLockMutex, MutOwners, Cell
<1>2. ASSUME NEW t \in Threads, NEW m \in MethodsOf[t], NEW c \in CellsOf[t], NEW d \in Cells,
             NEW v \in Contents, Invoke(t, m, c, d, v)
      PROVE  MutLockMutex'
  <2>1. FirstPlace(m) \in {"takeMut", "immSelf", "takeLock", "nullWait"}
    BY DEF FirstPlace
  <2>2. \A e \in Protected : MutOwners(e)' = MutOwners(e)
    BY <1>2, <2>1 DEF Invoke, TypeOK, MutOwners, At, Goto, Step, Cell
  <2> QED
    BY <1>2, <2>2 DEF Invoke, MutLockMutex, CellVars
<1>3. CASE Next
  BY <1>3, <1>2, NextCases, MutexProceed
<1> QED
  BY <1>1, <1>3

-----------------------------------------------------------------------------
(* What is left of a mut_lock.                                             *)

(* The flag of a cell without lock protection is never set.                *)
UnprotectedFree == \A c \in Cells \ Protected : ~mutLock[c]

LEMMA LeakProceed ==
  ASSUME TypeOK, OnlyGuardsLeak, UnprotectedFree, NEW t \in Threads, Proceed(t) \/ MutWrite(t)
  PROVE  (OnlyGuardsLeak /\ UnprotectedFree)'
<1> USE CellAssumption
<1> USE DEF TypeOK, CellsType, CellVars, OnlyGuardsLeak, UnprotectedFree, MutOwners,
            At, Goto, Step, End, Return, Panic, Cell
<1>1. CASE NullWait(t)
  BY <1>1, InCall DEF NullWait
<1>2. CASE NullLoad(t)
  BY <1>2, InCall, AfterTestType DEF NullLoad
<1>3. CASE TakeMut(t)
  BY <1>3, InCall DEF TakeMut, TakeMutLock
<1>4. CASE Imm(t)
  BY <1>4, InCall DEF Imm, TurnImmLock
<1>5. CASE StoreValue(t)
  BY <1>5, InCall DEF StoreValue, Store
<1>6. CASE Fill(t)
  BY <1>6, InCall DEF Fill, Store
<1>7. CASE FreeImm(t)
  BY <1>7, InCall DEF FreeImm, FreeImmLock
<1>8. CASE FreeMut(t)
  BY <1>8, InCall DEF FreeMut, FreeMutLock
<1>9. CASE ImmSelf(t)
  BY <1>9, InCall DEF ImmSelf, TurnImmLock
<1>10. CASE ImmFrom(t)
  BY <1>10, InCall DEF ImmFrom, TurnImmLock
<1>11. CASE LoadFrom(t)
  BY <1>11, InCall DEF LoadFrom
<1>12. CASE Exchange(t)
  BY <1>12, InCall DEF Exchange, Store
<1>13. CASE FreeFrom(t)
  BY <1>13, InCall DEF FreeFrom, FreeImmLock
<1>14. CASE FreeSelf(t)
  BY <1>14, InCall DEF FreeSelf, FreeImmLock
<1>15. CASE GiveBack(t)
  BY <1>15, InCall DEF GiveBack, Store
<1>16. CASE RefLoad(t)
  BY <1>16, InCall DEF RefLoad
<1>17. CASE RefDeref(t)
  BY <1>17, InCall DEF RefDeref
<1>18. CASE TakeGuard(t)
  BY <1>18, InCall DEF TakeGuard, TakeMutLock
<1>19. CASE MutLoad(t)
  BY <1>19, InCall DEF MutLoad
<1>20. CASE MutDrop(t)
  BY <1>20, InCall DEF MutDrop, Store
<1>21. CASE TakeLock(t)
  BY <1>21, InCall DEF TakeLock, TakeMutLock
<1>22. CASE StoreLocked(t)
  BY <1>22, InCall DEF StoreLocked, Store
<1>23. CASE MutWrite(t)
  BY <1>23, InCall DEF MutWrite
<1> QED
  BY <1>1, <1>2, <1>3, <1>4, <1>5, <1>6, <1>7, <1>8, <1>9, <1>10, <1>11, <1>12, <1>13, <1>14, <1>15, <1>16, <1>17, <1>18, <1>19, <1>20, <1>21, <1>22, <1>23 DEF Proceed

LEMMA LeakStep ==
  TypeOK /\ OnlyGuardsLeak /\ UnprotectedFree /\ [Next]_vars => (OnlyGuardsLeak /\ UnprotectedFree)'
<1> SUFFICES ASSUME TypeOK, OnlyGuardsLeak, UnprotectedFree, [Next]_vars
             PROVE  (OnlyGuardsLeak /\ UnprotectedFree)'
  OBVIOUS
<1>1. CASE UNCHANGED vars
  BY <1>1 DEF vars, CellVars, OnlyGuardsLeak, UnprotectedFree, MutOwners, Cell
<1>2. ASSUME NEW t \in Threads, NEW m \in MethodsOf[t], NEW c \in CellsOf[t], NEW d \in Cells,
             NEW v \in Contents, Invoke(t, m, c, d, v)
      PROVE  (OnlyGuardsLeak /\ UnprotectedFree)'
  <2>1. \A e \in Cells, u \in Threads : u \in MutOwners(e) => u \in MutOwners(e)'
    BY <1>2 DEF Invoke, TypeOK, MutOwners, At, Goto, Cell
  <2> QED
    BY <1>2, <2>1 DEF Invoke, OnlyGuardsLeak, UnprotectedFree, CellVars, MutOwners
<1>3. CASE Next
  BY <1>3, <1>2, NextCases, LeakProceed
<1> QED
  BY <1>1, <1>3

-----------------------------------------------------------------------------
(* imm_lock.                                                               *)

LEMMA ImmProceed ==
  ASSUME TypeOK, ImmLockAccounted, NEW t \in Threads, Proceed(t) \/ MutWrite(t)
  PROVE  ImmLockAccounted'
<1> USE CellAssumption
<1> USE DEF TypeOK, CellsType, CellVars, ImmLockAccounted, ImmUsers, At, Goto, Step, End, Return, Panic, Cell, Other
<1>1. CASE NullWait(t)
  BY <1>1, InCall DEF NullWait
<1>2. CASE NullLoad(t)
  BY <1>2, InCall, AfterTestType DEF NullLoad
<1>3. CASE TakeMut(t)
  BY <1>3, InCall DEF TakeMut, TakeMutLock
<1>4. CASE Imm(t)
  BY <1>4, InCall DEF Imm, TurnImmLock
<1>5. CASE StoreValue(t)
  BY <1>5, InCall DEF StoreValue, Store
<1>6. CASE Fill(t)
  BY <1>6, InCall DEF Fill, Store
<1>7. CASE FreeImm(t)
  BY <1>7, InCall DEF FreeImm, FreeImmLock
<1>8. CASE FreeMut(t)
  BY <1>8, InCall DEF FreeMut, FreeMutLock
<1>9. CASE ImmSelf(t)
  BY <1>9, InCall DEF ImmSelf, TurnImmLock
<1>10. CASE ImmFrom(t)
  BY <1>10, InCall DEF ImmFrom, TurnImmLock
<1>11. CASE LoadFrom(t)
  BY <1>11, InCall DEF LoadFrom
<1>12. CASE Exchange(t)
  BY <1>12, InCall DEF Exchange, Store
<1>13. CASE FreeFrom(t)
  BY <1>13, InCall DEF FreeFrom, FreeImmLock
<1>14. CASE FreeSelf(t)
  BY <1>14, InCall DEF FreeSelf, FreeImmLock
<1>15. CASE GiveBack(t)
  BY <1>15, InCall DEF GiveBack, Store
<1>16. CASE RefLoad(t)
  BY <1>16, InCall DEF RefLoad
<1>17. CASE RefDeref(t)
  BY <1>17, InCall DEF RefDeref
<1>18. CASE TakeGuard(t)
  BY <1>18, InCall DEF TakeGuard, TakeMutLock
<1>19. CASE MutLoad(t)
  BY <1>19, InCall DEF MutLoad
<1>20. CASE MutDrop(t)
  BY <1>20, InCall DEF MutDrop, Store
<1>21. CASE TakeLock(t)
  BY <1>21, InCall DEF TakeLock, TakeMutLock
<1>22. CASE StoreLocked(t)
  BY <1>22, InCall DEF StoreLocked, Store
<1>23. CASE MutWrite(t)
  BY <1>23, InCall DEF MutWrite
<1> QED
  BY <1>1, <1>2, <1>3, <1>4, <1>5, <1>6, <1>7, <1>8, <1>9, <1>10, <1>11, <1>12, <1>13, <1>14, <1>15, <1>16, <1>17, <1>18, <1>19, <1>20, <1>21, <1>22, <1>23 DEF Proceed

LEMMA ImmStep == TypeOK /\ ImmLockAccounted /\ [Next]_vars => ImmLockAccounted'
<1> SUFFICES ASSUME TypeOK, ImmLockAccounted, [Next]_vars PROVE ImmLockAccounted'
  OBVIOUS
<1>1. CASE UNCHANGED vars
  BY <1>1 DEF vars, CellVars, ImmLockAccounted, ImmUsers, Cell, Other
<1>2. ASSUME NEW t \in Threads, NEW m \in MethodsOf[t], NEW c \in CellsOf[t], NEW d \in Cells,
             NEW v \in Contents, Invoke(t, m, c, d, v)
      PROVE  ImmLockAccounted'
  <2>1. \A e \in Cells, u \in Threads : u \in ImmUsers(e) => u \in ImmUsers(e)'
    BY <1>2 DEF Invoke, TypeOK, ImmUsers, At, Goto, Step, Cell, Other
  <2> QED
    BY <1>2, <2>1 DEF Invoke, ImmLockAccounted, ImmUsers, CellVars
<1>3. CASE Next
  BY <1>3, <1>2, NextCases, ImmProceed
<1> QED
  BY <1>1, <1>3

-----------------------------------------------------------------------------
(* The owner of a mut_lock.                                                *)

(* The actions that store into a cell: with the mut_lock of the cell, so   *)
(* as the one thread that owns it, or as one of the writes without it.     *)
LEMMA OwnerStep ==
  ASSUME TypeOK, MutLockMutex, NEW t \in Threads, Proceed(t) \/ MutWrite(t),
         NEW c \in Protected, NEW o \in MutOwners(c), inner'[c] # inner[c]
  PROVE  \/ pc'[o] # pc[o]
         \/ \E u \in Threads : UnlockedWrite(u, c) /\ pc'[u] # pc[u]
<1> USE CellAssumption
<1> USE DEF TypeOK, CellsType, CellVars, Store, At, Goto, Step, End, Return, Panic
<1>1. StoreValue(t) \/ MutDrop(t) \/ StoreLocked(t) => t \in MutOwners(c)
  BY InCall DEF StoreValue, MutDrop, StoreLocked, MutOwners
<1>2. CASE StoreValue(t) \/ MutDrop(t) \/ StoreLocked(t)
  <2>1. t = o
    BY <1>1, <1>2 DEF MutLockMutex
  <2> QED
    BY <1>2, <2>1 DEF StoreValue, MutDrop, StoreLocked
<1>3. CASE Fill(t)
  BY <1>3, InCall DEF Fill, UnlockedWrite
<1>4. CASE Exchange(t)
  BY <1>4, InCall DEF Exchange, UnlockedWrite
<1>5. CASE GiveBack(t)
  BY <1>5, InCall DEF GiveBack, UnlockedWrite
<1>6. CASE inner' = inner
  BY <1>6
<1>7. inner' = inner \/ StoreValue(t) \/ MutDrop(t) \/ StoreLocked(t)
        \/ Fill(t) \/ Exchange(t) \/ GiveBack(t)
  BY DEF Proceed, NullWait, NullLoad, TakeMut, Imm, FreeImm, FreeMut, ImmSelf, ImmFrom,
         LoadFrom, FreeFrom, FreeSelf, RefLoad, RefDeref, TakeGuard, MutLoad, TakeLock,
         MutWrite
<1> QED
  BY <1>2, <1>3, <1>4, <1>5, <1>6, <1>7

(* What OwnerUndisturbed says of one step.                                 *)
UndisturbedStep ==
  \A c \in Protected : \A t \in MutOwners(c) :
    inner'[c] # inner[c] =>
      \/ pc'[t] # pc[t]
      \/ \E u \in Threads : UnlockedWrite(u, c) /\ pc'[u] # pc[u]

LEMMA Undisturbed == TypeOK /\ MutLockMutex /\ [Next]_vars => [UndisturbedStep]_vars
<1> SUFFICES ASSUME TypeOK, MutLockMutex, Next PROVE UndisturbedStep
  OBVIOUS
<1>1. PICK t \in Threads :
        \/ \E m \in MethodsOf[t], c \in CellsOf[t], d \in Cells, v \in Contents : Invoke(t, m, c, d, v)
        \/ Proceed(t)
        \/ MutWrite(t)
  BY NextCases
<1>2. CASE Proceed(t) \/ MutWrite(t)
  BY <1>2, OwnerStep DEF UndisturbedStep
<1>3. CASE \E m \in MethodsOf[t], c \in CellsOf[t], d \in Cells, v \in Contents : Invoke(t, m, c, d, v)
  BY <1>3 DEF Invoke, CellVars, UndisturbedStep
<1> QED
  BY <1>1, <1>2, <1>3

-----------------------------------------------------------------------------
(* The theorems.                                                           *)

IInv ==
  TypeOK /\ MutLockMutex /\ ImmLockAccounted /\ OnlyGuardsLeak /\ UnprotectedFree

LEMMA IInvInit == Init => IInv
<1> SUFFICES ASSUME Init
             PROVE  MutLockMutex /\ ImmLockAccounted /\ OnlyGuardsLeak /\ UnprotectedFree
  BY TypeInit DEF IInv
<1>1. \A c : MutOwners(c) = {}
  BY DEF Init, MutOwners
<1>2. \A c \in Cells : ~immLock[c] /\ ~mutLock[c]
  BY DEF Init, CellsInit
<1> QED
  BY <1>1, <1>2 DEF MutLockMutex, ImmLockAccounted, OnlyGuardsLeak, UnprotectedFree

LEMMA IInvStep == IInv /\ [Next]_vars => IInv'
BY TypeStep, MutexStep, ImmStep, LeakStep DEF IInv

THEOREM Invariance == SafetySpec => []IInv
BY IInvInit, IInvStep, PTL DEF SafetySpec

(* Whatever the threads call, and in whatever order their atomic accesses  *)
(* come, the cells and the threads keep their types; a thread in a call    *)
(* has the cells of the call.                                              *)
THEOREM TypeCorrect == SafetySpec => []TypeOK
<1>1. IInv => TypeOK
  BY DEF IInv
<1> QED
  BY <1>1, Invariance, PTL

(* The mut_lock of a lock protected cell is a mutex of set, set_null,      *)
(* bump_into_null, get_mut and create_lock, for any number of threads.     *)
THEOREM MutLockIsMutex == SafetySpec => []MutLockMutex
<1>1. IInv => MutLockMutex
  BY DEF IInv
<1> QED
  BY <1>1, Invariance, PTL

(* The imm_lock of a cell is set only while some thread has it to clear,   *)
(* although its loop lets any number of them in at once.                   *)
THEOREM ImmLockCleared == SafetySpec => []ImmLockAccounted
<1>1. IInv => ImmLockAccounted
  BY DEF IInv
<1> QED
  BY <1>1, Invariance, PTL

(* A mut_lock that nobody owns is set only where a guard of get_mut was    *)
(* dropped: the loops and panics of all other calls leave it free, for any *)
(* number of threads that contend for it.                                  *)
THEOREM GuardsAloneLeak == SafetySpec => []OnlyGuardsLeak
<1>1. IInv => OnlyGuardsLeak
  BY DEF IInv
<1> QED
  BY <1>1, Invariance, PTL

(* Nobody changes a lock protected cell under the owner of its mut_lock,   *)
(* except the writes of swap and bump_into_null that take no lock.         *)
THEOREM OwnerNotDisturbed == SafetySpec => OwnerUndisturbed
<1>1. IInv /\ [Next]_vars => [UndisturbedStep]_vars
  BY Undisturbed DEF IInv
<1>2. SafetySpec => [][UndisturbedStep]_vars
  BY <1>1, Invariance, PTL DEF SafetySpec
<1> QED
  BY <1>2 DEF OwnerUndisturbed, UndisturbedStep
=============================================================================
