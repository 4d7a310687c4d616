---------------------------- MODULE RelaxedMutex ----------------------------
(***************************************************************************)
(* RelaxedMutex<T> of src/src/relaxed_mutex.rs: a reader/writer spin lock  *)
(* made of an atomic counter of guards and an atomic "a writer is here"    *)
(* flag.  One action per atomic operation of create_ref_lock,              *)
(* create_mut_lock and the Drop implementations of the guards.             *)
(*                                                                         *)
(* A spin loop is an action that is enabled when the loop's test succeeds: *)
(* a failing test changes nothing (swapping TRUE into a flag that is TRUE  *)
(* included).  The plain and the cast guards (RefGuard and RefCastGuard,   *)
(* MutGuard and MutCastGuard) differ in how they dereference, not in how   *)
(* they lock, and share their actions.  A thread has at most one guard at  *)
(* a time, as README.md:53-56 requires of a caller.                        *)
(***************************************************************************)
EXTENDS Integers, FiniteSets

CONSTANTS
  Threads,   \* the threads that share the mutex
  MaxData    \* bound on the number of updates of the protected data

ASSUME ThreadsFinite == IsFiniteSet(Threads)
ASSUME MaxDataNat == MaxData \in Nat

VARIABLES
  refs,      \* RelaxedMutexInner::refs, an AtomicUsize
  locked,    \* RelaxedMutexInner::locked, an AtomicBool
  data,      \* RelaxedMutexInner::data, as the number of updates it holds
  pc,        \* where each thread is in its call
  copy       \* the value a writer has read through its guard and will rewrite

vars == <<refs, locked, data, pc, copy>>

Places ==
  { "idle",
    "refCheck",   \* create_ref_lock, spinning on locked.load
    "refInc",     \* create_ref_lock, before refs.fetch_add
    "refHeld",    \* a RefGuard is alive
    "mutSwap",    \* create_mut_lock, spinning on locked.swap(true)
    "mutInc",     \* create_mut_lock, before refs.fetch_add
    "mutWait",    \* create_mut_lock, spinning on refs.load
    "mutHeld",    \* a MutGuard is alive
    "mutLoaded",  \* ... and the data has been read through it to be updated
    "mutDrop" }   \* MutGuard::drop, before refs.fetch_sub

At(t, place) == pc[t] = place
Goto(t, place) == pc' = [pc EXCEPT ![t] = place]
Step(t, from, to) == At(t, from) /\ Goto(t, to)

Init ==
  /\ refs = 0
  /\ locked = FALSE
  /\ data = 0
  /\ pc = [t \in Threads |-> "idle"]
  /\ copy = [t \in Threads |-> 0]

-----------------------------------------------------------------------------
(* lock_ref, lock_cast_ref                                                 *)

CallLockRef(t) ==
  /\ Step(t, "idle", "refCheck")
  /\ UNCHANGED <<refs, locked, data, copy>>

RefCheck(t) ==
  /\ Step(t, "refCheck", "refInc")
  /\ ~locked
  /\ UNCHANGED <<refs, locked, data, copy>>

RefInc(t) ==
  /\ Step(t, "refInc", "refHeld")
  /\ refs' = refs + 1
  /\ UNCHANGED <<locked, data, copy>>

(* RefGuard::drop, RefCastGuard::drop *)
RefDrop(t) ==
  /\ Step(t, "refHeld", "idle")
  /\ refs' = refs - 1
  /\ UNCHANGED <<locked, data, copy>>

-----------------------------------------------------------------------------
(* lock_mut, lock_cast_mut                                                 *)

CallLockMut(t) ==
  /\ Step(t, "idle", "mutSwap")
  /\ UNCHANGED <<refs, locked, data, copy>>

MutSwapIgnoringLock(t) ==
  /\ Step(t, "mutSwap", "mutInc")
  /\ locked' = TRUE
  /\ UNCHANGED <<refs, data, copy>>

MutSwap(t) ==
  /\ Step(t, "mutSwap", "mutInc")
  /\ ~locked
  /\ locked' = TRUE
  /\ UNCHANGED <<refs, data, copy>>

MutIncUncounted(t) ==
  /\ Step(t, "mutInc", "mutWait")
  /\ UNCHANGED <<refs, locked, data, copy>>

MutInc(t) ==
  /\ Step(t, "mutInc", "mutWait")
  /\ refs' = refs + 1
  /\ UNCHANGED <<locked, data, copy>>

MutGrantWithOneOther(t) ==
  /\ Step(t, "mutWait", "mutHeld")
  /\ refs <= 2
  /\ UNCHANGED <<refs, locked, data, copy>>

MutGrant(t) ==
  /\ Step(t, "mutWait", "mutHeld")
  /\ refs <= 1
  /\ UNCHANGED <<refs, locked, data, copy>>

(* An update through the guard, "*guard += 1": a read through Deref ...    *)
MutLoad(t) ==
  /\ Step(t, "mutHeld", "mutLoaded")
  /\ data < MaxData
  /\ copy' = [copy EXCEPT ![t] = data]
  /\ UNCHANGED <<refs, locked, data>>

(* ... and a write through DerefMut.                                       *)
MutStore(t) ==
  /\ Step(t, "mutLoaded", "mutHeld")
  /\ data' = copy[t] + 1
  /\ UNCHANGED <<refs, locked, copy>>

MutUnlockKeepingFlag(t) ==
  /\ Step(t, "mutHeld", "mutDrop")
  /\ UNCHANGED <<refs, locked, data, copy>>

(* MutGuard::drop, MutCastGuard::drop: the flag is cleared first ...       *)
MutUnlock(t) ==
  /\ Step(t, "mutHeld", "mutDrop")
  /\ locked' = FALSE
  /\ UNCHANGED <<refs, data, copy>>

MutDropUncounted(t) ==
  /\ Step(t, "mutDrop", "idle")
  /\ UNCHANGED <<refs, locked, data, copy>>

(* ... and the guard is uncounted afterwards.                              *)
MutDrop(t) ==
  /\ Step(t, "mutDrop", "idle")
  /\ refs' = refs - 1
  /\ UNCHANGED <<locked, data, copy>>

-----------------------------------------------------------------------------
Call(t) == CallLockRef(t) \/ CallLockMut(t)

(* What a thread that is inside a call, or holds a guard, goes on to do.   *)
Proceed(t) ==
  \/ RefCheck(t) \/ RefInc(t) \/ RefDrop(t)
  \/ MutSwap(t) \/ MutInc(t) \/ MutGrant(t)
  \/ MutStore(t) \/ MutUnlock(t) \/ MutDrop(t)

Next == \E t \in Threads : Call(t) \/ Proceed(t) \/ MutLoad(t)

(* The scheduler runs every thread, so a spinning thread tests again, and  *)
(* every guard is dropped some day.  Nobody is obliged to make a call.     *)
Fairness == \A t \in Threads : WF_vars(Proceed(t))

SafetySpec == Init /\ [][Next]_vars
Spec == SafetySpec /\ Fairness

-----------------------------------------------------------------------------
(* Properties.                                                             *)

(* The threads whose increment of refs is not yet taken back.              *)
Counted ==
  {t \in Threads :
     pc[t] \in {"refHeld", "mutWait", "mutHeld", "mutLoaded", "mutDrop"}}

(* The threads between a successful locked.swap(true) and the store that   *)
(* undoes it.                                                              *)
Owners ==
  {t \in Threads : pc[t] \in {"mutInc", "mutWait", "mutHeld", "mutLoaded"}}

RefGuards == {t \in Threads : pc[t] = "refHeld"}
MutGuards == {t \in Threads : pc[t] \in {"mutHeld", "mutLoaded"}}

(* The types of the variables.  That refs is a natural number says that    *)
(* the unsigned counter is never decremented below zero.                   *)
TypeOK ==
  /\ refs \in Nat
  /\ locked \in BOOLEAN
  /\ data \in Nat
  /\ pc \in [Threads -> Places]
  /\ copy \in [Threads -> Nat]

(* refs counts exactly the guards that exist, are being granted or are     *)
(* half dropped: fetch_sub never wraps, and nothing is counted for good.   *)
RefsCountGuards == refs = Cardinality(Counted)

(* At most one thread is between acquiring and clearing the flag, and the  *)
(* flag is set exactly while there is one: "only one mutable access at a   *)
(* time" (relaxed_mutex.rs:6), across the late uncounting in drop.         *)
WriterExclusion ==
  /\ \A t, u \in Owners : t = u
  /\ locked <=> Owners # {}

(* The mutex as its clients see it: mutable guards are granted alone and   *)
(* no update through one is lost, whatever interleaves.                    *)
Access == INSTANCE AccessLock WITH
            readers <- RefGuards, writers <- MutGuards, value <- data
ImplementsAccessLock == Access!Spec

(* A writer that owns the flag gets its guard: the readers ahead of it     *)
(* drain, and no stream of new readers can overtake it.                    *)
WriterAdmitted ==
  \A t \in Threads : At(t, "mutInc") ~> At(t, "mutHeld")

(* A writer that is about to write back still has the latest value: no     *)
(* other writer came between its read and its write.                       *)
FreshCopy == \A t \in Threads : pc[t] = "mutLoaded" => copy[t] = data

(* The inductive invariant of the proofs.                                  *)
IInv == TypeOK /\ RefsCountGuards /\ WriterExclusion /\ FreshCopy

(* The lock is never left closed: as long as somebody spins for it,        *)
(* somebody comes to hold a guard.                                         *)
NeverAbandoned ==
  (\E t \in Threads : pc[t] \in {"refCheck", "mutSwap"})
    ~> (RefGuards \cup MutGuards # {})

(* What the comments promise: "block any further immutable access' until   *)
(* the mutable guard is dropped" (relaxed_mutex.rs:8-9).  The code breaks  *)
(* it: a reader that has seen locked = FALSE increments refs after the     *)
(* writer has counted the guards.                                          *)
ReadersExcluded == MutGuards # {} => RefGuards = {}
=============================================================================
