\* An unordered list: two threads push and pop beside a reader. Three items
\* and three other calls: two pops, of one thread or two, inside every step of
\* a find, or a pop inside another beside it.
\* A find that panics stops its thread, hence no deadlock check.
CONSTANTS
  t1 = t1
  t2 = t2
  t3 = t3
  i1 = i1
  i2 = i2
  i3 = i3
  Threads = {t1, t2, t3}
  Items = {i1, i2, i3}
  head = head
  Null = Null
  Key <- EqualPair
  Ordered = FALSE
  OpsOf <- StackOps
  ItemsOf <- StackItems
  Predicates <- OneItemPredicates
  Counts = {}
  Edits = {}
  MaxCalls = 3
  LenMod = 4
SPECIFICATION Spec
INVARIANTS
  LenExact
  FindComplete
  WritersNeverPanic
PROPERTIES
  ImplementsAbstractList
  CallsEnd
CHECK_DEADLOCK FALSE
