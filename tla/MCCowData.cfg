\* Three threads on one lock protected and one unprotected cell, any number of
\* calls.  A leaked mut_lock or a panic really stops a thread, hence no
\* deadlock check.
CONSTANTS
  t1 = t1
  t2 = t2
  t3 = t3
  p = p
  u = u
  Threads = {t1, t2, t3}
  Cells = {p, u}
  Protected = {p}
  Null = Null
  Contents = {Null, a}
  MethodsOf <- Roles
  CellsOf <- Shared
SPECIFICATION Spec
INVARIANTS
  MutLockMutex
  ImmLockAccounted
  OnlyGuardsLeak
PROPERTIES
  OwnerUndisturbed
  ReadersReturn
CHECK_DEADLOCK FALSE
