\* A reader beside a thread that pushes and pops.
CONSTANTS
  t1 = t1
  t2 = t2
  t3 = t3
  i1 = i1
  i2 = i2
  i3 = i3
  Threads = {t1, t2}
  Items = {i1, i2, i3}
  head = head
  Null = Null
  Key <- EqualPair
  Ordered = FALSE
  OpsOf <- StackOps
  ItemsOf <- StackItems
  Predicates <- OneItemPredicates
  Counts = {1}
  Edits = {}
  MaxCalls = 2
  LenMod = 4
SPECIFICATION Spec
INVARIANT
  NobodyPanics
CHECK_DEADLOCK FALSE
