------------------------- MODULE RelaxedMutexProofs -------------------------
(***************************************************************************)
(* Proofs, for any finite set of threads, of the safety properties that    *)
(* MCRelaxedMutex checks on three threads.                                 *)
(*                                                                         *)
(* None of the properties is inductive alone: a guard is granted alone     *)
(* because refs counts guards, writers exclude each other because the flag *)
(* has one owner, and an update is not lost because of that exclusion.     *)
(* IInv is their conjunction with FreshCopy.                               *)
(***************************************************************************)
EXTENDS RelaxedMutex, FiniteSetTheorems, TLAPS

(* A thread that enters Counted adds one to its cardinality, a thread that *)
(* leaves it takes one away, and the cardinality is a natural number.      *)
LEMMA CountedFinite ==
  IsFiniteSet(Counted) /\ Cardinality(Counted) \in Nat
<1>1. Counted \in SUBSET Threads
  BY DEF Counted
<1>2. IsFiniteSet(Counted)
  BY <1>1, ThreadsFinite, FS_Subset
<1>. QED  BY <1>2, FS_CardinalityType

LEMMA CountedGrows ==
  ASSUME NEW t \in Threads, t \notin Counted, Counted' = Counted \cup {t}
  PROVE  Cardinality(Counted') = Cardinality(Counted) + 1
BY CountedFinite, FS_AddElement

LEMMA CountedShrinks ==
  ASSUME NEW t \in Threads, t \in Counted, Counted' = Counted \ {t}
  PROVE  /\ Cardinality(Counted') = Cardinality(Counted) - 1
         /\ Cardinality(Counted) - 1 \in Nat
<1>1. IsFiniteSet(Counted \ {t})
      /\ Cardinality(Counted \ {t}) = Cardinality(Counted) - 1
  BY CountedFinite, FS_RemoveElement
<1>2. Cardinality(Counted \ {t}) \in Nat
  BY <1>1, FS_CardinalityType
<1>. QED  BY <1>1, <1>2

(* A count of at most one leaves room for no guard but the caller's own:   *)
(* what the loop on refs.load in create_mut_lock relies on.                *)
LEMMA CountedAlone ==
  ASSUME NEW t \in Counted, Cardinality(Counted) <= 1
  PROVE  Counted = {t}
<1>1. Cardinality({t}) = 1 /\ {t} \in SUBSET Counted
  BY FS_Singleton
<1>2. Cardinality({t}) <= Cardinality(Counted)
  BY <1>1, CountedFinite, FS_Subset
<1>3. Cardinality(Counted) = Cardinality({t})
  BY <1>1, <1>2, CountedFinite
<1>. QED  BY <1>1, <1>3, CountedFinite, FS_Subset

-----------------------------------------------------------------------------
LEMMA InitIInv == Init => IInv
<1>. SUFFICES ASSUME Init PROVE IInv
  OBVIOUS
<1>1. TypeOK
  BY DEF Init, TypeOK, Places
<1>2. Counted = {} /\ Owners = {}
  BY DEF Init, Counted, Owners
<1>3. RefsCountGuards
  BY <1>2, FS_EmptySet DEF RefsCountGuards, Init
<1>4. WriterExclusion
  BY <1>2 DEF WriterExclusion, Init
<1>5. FreshCopy
  BY DEF FreshCopy, Init
<1>. QED  BY <1>1, <1>3, <1>4, <1>5 DEF IInv

(* Every step keeps refs equal to the number of counted guards.            *)
LEMMA StepCount ==
  ASSUME IInv, NEW t \in Threads, Call(t) \/ Proceed(t) \/ MutLoad(t)
  PROVE  RefsCountGuards' /\ refs' \in Nat
<1>. USE DEF At, Goto, Step
<1>. DEFINE Same == Counted' = Counted /\ refs' = refs
            Grow == t \notin Counted /\ Counted' = Counted \cup {t} /\ refs' = refs + 1
            Shrink == t \in Counted /\ Counted' = Counted \ {t} /\ refs' = refs - 1
<1>1. pc \in [Threads -> Places] /\ refs \in Nat
      /\ refs = Cardinality(Counted)
  BY DEF IInv, TypeOK, RefsCountGuards
<1>2. ASSUME Same PROVE RefsCountGuards' /\ refs' \in Nat
  BY <1>1, <1>2 DEF RefsCountGuards
<1>3. ASSUME Grow PROVE RefsCountGuards' /\ refs' \in Nat
  BY <1>1, <1>3, CountedGrows DEF RefsCountGuards
<1>4. ASSUME Shrink PROVE RefsCountGuards' /\ refs' \in Nat
  BY <1>1, <1>4, CountedShrinks DEF RefsCountGuards
<1>5. CASE CallLockRef(t) \/ CallLockMut(t) \/ RefCheck(t) \/ MutSwap(t)
  <2>1. Same
    BY <1>1, <1>5 DEF CallLockRef, CallLockMut, RefCheck, MutSwap, Counted
  <2>. QED  BY <2>1, <1>2
<1>6. CASE MutGrant(t) \/ MutLoad(t) \/ MutStore(t) \/ MutUnlock(t)
  <2>1. Same
    BY <1>1, <1>6 DEF MutGrant, MutLoad, MutStore, MutUnlock, Counted
  <2>. QED  BY <2>1, <1>2
<1>7. CASE RefInc(t) \/ MutInc(t)
  <2>1. Grow
    BY <1>1, <1>7 DEF RefInc, MutInc, Counted
  <2>. QED  BY <2>1, <1>3
<1>8. CASE RefDrop(t) \/ MutDrop(t)
  <2>1. Shrink
    BY <1>1, <1>8 DEF RefDrop, MutDrop, Counted
  <2>. QED  BY <2>1, <1>4
<1>. QED  BY <1>5, <1>6, <1>7, <1>8 DEF Call, Proceed

(* Every step keeps the flag with its one owner.                           *)
LEMMA StepExclusion ==
  ASSUME IInv, NEW t \in Threads, Call(t) \/ Proceed(t) \/ MutLoad(t)
  PROVE  WriterExclusion'
<1>. USE DEF At, Goto, Step
<1>1. /\ pc \in [Threads -> Places] /\ locked \in BOOLEAN
      /\ \A x, y \in Owners : x = y
      /\ locked <=> Owners # {}
  BY DEF IInv, TypeOK, WriterExclusion
<1>2. ASSUME Owners' = Owners, locked' = locked PROVE WriterExclusion'
  BY <1>1, <1>2 DEF WriterExclusion
<1>3. CASE CallLockRef(t) \/ CallLockMut(t) \/ RefCheck(t) \/ RefInc(t) \/ RefDrop(t)
  <2>1. Owners' = Owners /\ locked' = locked
    BY <1>1, <1>3 DEF CallLockRef, CallLockMut, RefCheck, RefInc, RefDrop, Owners
  <2>. QED  BY <2>1, <1>2
<1>4. CASE MutInc(t) \/ MutGrant(t) \/ MutLoad(t) \/ MutStore(t) \/ MutDrop(t)
  <2>1. Owners' = Owners /\ locked' = locked
    BY <1>1, <1>4 DEF MutInc, MutGrant, MutLoad, MutStore, MutDrop, Owners
  <2>. QED  BY <2>1, <1>2
<1>5. CASE MutSwap(t)
  <2>1. Owners = {} /\ Owners' = {t} /\ locked'
    BY <1>1, <1>5 DEF MutSwap, Owners
  <2>. QED  BY <2>1 DEF WriterExclusion
<1>6. CASE MutUnlock(t)
  <2>1. t \in Owners /\ Owners' = Owners \ {t} /\ ~locked'
    BY <1>1, <1>6 DEF MutUnlock, Owners
  <2>2. Owners' = {}
    BY <1>1, <2>1
  <2>. QED  BY <2>1, <2>2 DEF WriterExclusion
<1>. QED  BY <1>3, <1>4, <1>5, <1>6 DEF Call, Proceed

(* Every step keeps the value a writer is about to write back fresh.       *)
LEMMA StepFresh ==
  ASSUME IInv, NEW t \in Threads, Call(t) \/ Proceed(t) \/ MutLoad(t)
  PROVE  FreshCopy'
<1>. USE DEF At, Goto, Step
<1>1. /\ pc \in [Threads -> Places] /\ copy \in [Threads -> Nat]
      /\ \A x, y \in Owners : x = y
      /\ \A x \in Threads : pc[x] = "mutLoaded" => copy[x] = data
  BY DEF IInv, TypeOK, WriterExclusion, FreshCopy
<1>2. CASE CallLockRef(t) \/ CallLockMut(t) \/ RefCheck(t) \/ RefInc(t) \/ RefDrop(t)
  BY <1>1, <1>2 DEF CallLockRef, CallLockMut, RefCheck, RefInc, RefDrop, FreshCopy
<1>3. CASE MutSwap(t) \/ MutInc(t) \/ MutGrant(t) \/ MutUnlock(t) \/ MutDrop(t)
  BY <1>1, <1>3 DEF MutSwap, MutInc, MutGrant, MutUnlock, MutDrop, FreshCopy
<1>4. CASE MutLoad(t)
  BY <1>1, <1>4 DEF MutLoad, FreshCopy
<1>5. CASE MutStore(t)
  <2>1. \A x \in Threads : pc'[x] # "mutLoaded"
    BY <1>1, <1>5 DEF MutStore, Owners
  <2>. QED  BY <2>1 DEF FreshCopy
<1>. QED  BY <1>2, <1>3, <1>4, <1>5 DEF Call, Proceed

LEMMA StepType ==
  ASSUME IInv, NEW t \in Threads, Call(t) \/ Proceed(t) \/ MutLoad(t)
  PROVE  TypeOK'
<1>. USE DEF At, Goto, Step, Places, TypeOK
<1>1. TypeOK
  BY DEF IInv
<1>2. refs' \in Nat
  BY StepCount
<1>3. CASE CallLockRef(t) \/ CallLockMut(t) \/ RefCheck(t) \/ RefInc(t) \/ RefDrop(t)
  BY <1>1, <1>2, <1>3 DEF CallLockRef, CallLockMut, RefCheck, RefInc, RefDrop
<1>4. CASE MutSwap(t) \/ MutInc(t) \/ MutGrant(t) \/ MutUnlock(t) \/ MutDrop(t)
  BY <1>1, <1>2, <1>4 DEF MutSwap, MutInc, MutGrant, MutUnlock, MutDrop
<1>5. CASE MutLoad(t) \/ MutStore(t)
  BY <1>1, <1>2, <1>5 DEF MutLoad, MutStore
<1>. QED  BY <1>3, <1>4, <1>5 DEF Call, Proceed

(* IInv is an invariant of every behaviour of the mutex.                   *)
THEOREM Invariance == SafetySpec => []IInv
<1>1. IInv /\ [Next]_vars => IInv'
  <2>. SUFFICES ASSUME IInv, [Next]_vars PROVE IInv'
    OBVIOUS
  <2>1. ASSUME NEW t \in Threads, Call(t) \/ Proceed(t) \/ MutLoad(t)
        PROVE  IInv'
    BY <2>1, StepType, StepCount, StepExclusion, StepFresh DEF IInv
  <2>2. CASE UNCHANGED vars
    BY <2>2 DEF vars, IInv, TypeOK, RefsCountGuards, WriterExclusion, FreshCopy,
                Counted, Owners
  <2>. QED  BY <2>1, <2>2 DEF Next
<1>. QED  BY <1>1, InitIInv, PTL DEF SafetySpec

(* The variables keep their types; in particular refs, an unsigned counter *)
(* in the code, is never decremented below zero.                           *)
THEOREM TypeCorrect == SafetySpec => []TypeOK
<1>1. IInv => TypeOK
  BY DEF IInv
<1>. QED  BY <1>1, Invariance, PTL

(* The counter of create_ref_lock, create_mut_lock and the drops is the    *)
(* number of guards at every moment.                                       *)
THEOREM Accounting == SafetySpec => []RefsCountGuards
<1>1. IInv => RefsCountGuards
  BY DEF IInv
<1>. QED  BY <1>1, Invariance, PTL

(* No two threads are ever between locked.swap(true) and the store that    *)
(* undoes it, and the flag is never left set or cleared by anyone else.    *)
THEOREM MutualExclusion == SafetySpec => []WriterExclusion
<1>1. IInv => WriterExclusion
  BY DEF IInv
<1>. QED  BY <1>1, Invariance, PTL

-----------------------------------------------------------------------------
(* Every step of the mutex is a step of the access lock or invisible to    *)
(* its clients.                                                            *)
LEMMA StepRefines ==
  ASSUME IInv, NEW t \in Threads, Call(t) \/ Proceed(t) \/ MutLoad(t)
  PROVE  [Access!Next]_(Access!vars)
<1>. USE DEF At, Goto, Step
<1>. DEFINE Silent == RefGuards' = RefGuards /\ MutGuards' = MutGuards /\ data' = data
<1>1. /\ pc \in [Threads -> Places]
      /\ refs = Cardinality(Counted)
      /\ \A x \in Threads : pc[x] = "mutLoaded" => copy[x] = data
  BY DEF IInv, TypeOK, RefsCountGuards, FreshCopy
<1>2. ASSUME Silent PROVE [Access!Next]_(Access!vars)
  BY <1>2 DEF Access!vars
<1>3. CASE CallLockRef(t) \/ CallLockMut(t) \/ RefCheck(t) \/ MutSwap(t)
  <2>1. Silent
    BY <1>1, <1>3 DEF CallLockRef, CallLockMut, RefCheck, MutSwap, RefGuards, MutGuards
  <2>. QED  BY <2>1, <1>2
<1>4. CASE MutInc(t) \/ MutLoad(t) \/ MutDrop(t)
  <2>1. Silent
    BY <1>1, <1>4 DEF MutInc, MutLoad, MutDrop, RefGuards, MutGuards
  <2>. QED  BY <2>1, <1>2
<1>5. CASE RefInc(t)
  <2>1. Access!GrantRef(t)
    BY <1>1, <1>5 DEF RefInc, RefGuards, MutGuards, Access!GrantRef
  <2>. QED  BY <2>1 DEF Access!Next
<1>6. CASE RefDrop(t)
  <2>1. Access!ReleaseRef(t)
    BY <1>1, <1>6 DEF RefDrop, RefGuards, MutGuards, Access!ReleaseRef
  <2>. QED  BY <2>1 DEF Access!Next
<1>7. CASE MutGrant(t)
  <2>1. t \in Counted /\ Cardinality(Counted) <= 1
    BY <1>1, <1>7 DEF MutGrant, Counted
  <2>2. Counted = {t}
    BY <2>1, CountedAlone
  <2>3. RefGuards = {} /\ MutGuards = {}
    BY <1>7, <2>2 DEF MutGrant, Counted, RefGuards, MutGuards
  <2>4. RefGuards' = {} /\ MutGuards' = {t} /\ data' = data
    BY <1>1, <1>7, <2>3 DEF MutGrant, RefGuards, MutGuards
  <2>5. Access!GrantMut(t)
    BY <2>3, <2>4 DEF Access!GrantMut
  <2>. QED  BY <2>5 DEF Access!Next
<1>8. CASE MutStore(t)
  <2>1. Access!Update(t)
    BY <1>1, <1>8 DEF MutStore, RefGuards, MutGuards, Access!Update
  <2>. QED  BY <2>1 DEF Access!Next
<1>9. CASE MutUnlock(t)
  <2>1. Access!ReleaseMut(t)
    BY <1>1, <1>9 DEF MutUnlock, RefGuards, MutGuards, Access!ReleaseMut
  <2>. QED  BY <2>1 DEF Access!Next
<1>. QED  BY <1>3, <1>4, <1>5, <1>6, <1>7, <1>8, <1>9 DEF Call, Proceed

(* RelaxedMutex implements the access lock: a mutable guard is granted     *)
(* only when no other guard exists, and no update is lost.                 *)
THEOREM Refinement == SafetySpec => ImplementsAccessLock
<1>1. Init => Access!Init
  BY DEF Init, Access!Init, RefGuards, MutGuards
<1>2. IInv /\ [Next]_vars => [Access!Next]_(Access!vars)
  <2>. SUFFICES ASSUME IInv, [Next]_vars PROVE [Access!Next]_(Access!vars)
    OBVIOUS
  <2>1. CASE UNCHANGED vars
    BY <2>1 DEF vars, Access!vars, RefGuards, MutGuards
  <2>. QED  BY <2>1, StepRefines DEF Next
<1>. QED  BY <1>1, <1>2, Invariance, PTL DEF SafetySpec, ImplementsAccessLock, Access!Spec
=============================================================================
