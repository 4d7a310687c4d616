----------------------------- MODULE AccessLock -----------------------------
(***************************************************************************)
(* What RelaxedMutex (src/src/relaxed_mutex.rs) delivers to the holders of *)
(* its guards, without the counters and spin loops that deliver it.        *)
(*                                                                         *)
(* A mutable guard is granted only at a moment when no other guard of      *)
(* either kind exists, and each update made through it takes effect on the *)
(* latest value.  An immutable guard can appear at any moment, even beside *)
(* a mutable one: the stricter promise of the source's comments is not     *)
(* kept by the code (see ReadersExcluded in RelaxedMutex).                 *)
(***************************************************************************)
EXTENDS Naturals

CONSTANT Threads

VARIABLES
  readers,   \* the threads that hold a RefGuard
  writers,   \* the threads that hold a MutGuard, never more than one
  value      \* the number of updates applied to the protected data

vars == <<readers, writers, value>>

Init == readers = {} /\ writers = {} /\ value = 0

GrantRef(t) ==
  /\ t \notin readers \cup writers
  /\ readers' = readers \cup {t}
  /\ UNCHANGED <<writers, value>>

ReleaseRef(t) ==
  /\ t \in readers
  /\ readers' = readers \ {t}
  /\ UNCHANGED <<writers, value>>

GrantMut(t) ==
  /\ readers = {} /\ writers = {}
  /\ writers' = {t}
  /\ UNCHANGED <<readers, value>>

Update(t) ==
  /\ t \in writers
  /\ value' = value + 1
  /\ UNCHANGED <<readers, writers>>

ReleaseMut(t) ==
  /\ t \in writers
  /\ writers' = writers \ {t}
  /\ UNCHANGED <<readers, value>>

Next ==
  \E t \in Threads :
    GrantRef(t) \/ ReleaseRef(t) \/ GrantMut(t) \/ Update(t) \/ ReleaseMut(t)

Spec == Init /\ [][Next]_vars
=============================================================================
