------------------------------ MODULE CowCells ------------------------------
(***************************************************************************)
(* The storage of CowData<T> (src/src/cow_data.rs): what the clones of one *)
(* CowData share, and the atomic operations its methods are made of.  Each *)
(* operator below is one atomic access; the methods string them together   *)
(* (CowData), and so do the methods of SharedList (SharedList).            *)
(***************************************************************************)

CONSTANTS
  Cells,      \* the CowData objects; clones of one are the same cell
  Protected,  \* the cells whose is_mut_lock_protected is true
  Contents,   \* the values an Arc<Option<T>> can hold, Null included
  Null        \* None

ASSUME CellAssumption == Protected \subseteq Cells /\ Null \in Contents

VARIABLES
  inner,      \* CowData::inner, an ArcSwap: what each cell points to
  mutLock,    \* CowData::mut_lock, an AtomicBool
  immLock     \* CowData::imm_lock, an AtomicBool

CellVars == <<inner, mutLock, immLock>>

CellsType ==
  /\ inner \in [Cells -> Contents]
  /\ mutLock \in [Cells -> BOOLEAN]
  /\ immLock \in [Cells -> BOOLEAN]

(* The constructors: no lock is taken, whether the cell starts with a      *)
(* value (new, from_arc and their lock_protected variants) or with none    *)
(* (null, null_lock_protected, default).                                   *)
CellsInit(contents) ==
  /\ inner = contents
  /\ mutLock = [c \in Cells |-> FALSE]
  /\ immLock = [c \in Cells |-> FALSE]

(* The two accesses of is_null: its loop waits for imm_lock to be free,    *)
(* then inner is loaded, by which time imm_lock may be set again.          *)
ImmFree(c) == ~immLock[c]
IsNull(c) == inner[c] = Null

(* get_arc_swap().store(v), and the stores inside set and MutCowData::drop *)
Store(c, v) == inner' = [inner EXCEPT ![c] = v]

(* One successful turn of the loop "if !mut_lock.swap(true) break"; cells  *)
(* that are not lock protected skip it.                                    *)
TakeMutLock(c) ==
  IF c \in Protected
  THEN ~mutLock[c] /\ mutLock' = [mutLock EXCEPT ![c] = TRUE]
  ELSE UNCHANGED mutLock

FreeMutLock(c) ==
  mutLock' = [mutLock EXCEPT ![c] = IF c \in Protected THEN FALSE ELSE @]

(* One turn of "while !imm_lock.swap(true) yield": the loop goes on while  *)
(* the flag was FALSE, and is left when somebody (the same thread in its   *)
(* turn before, or another one) had set it.                                *)
TurnImmLock(c) == immLock' = [immLock EXCEPT ![c] = TRUE]
ImmLoopLeft(c) == immLock[c]
FreeImmLock(c) == immLock' = [immLock EXCEPT ![c] = FALSE]
=============================================================================
