\* An ordered list, the enforce_noneq flag set or not: one writer that calls
\* every method beside a reader. Three items, two of them equal.
\* A leaked lock stops the writer, hence no deadlock check.
CONSTANTS
  t1 = t1
  t2 = t2
  t3 = t3
  i1 = i1
  i2 = i2
  i3 = i3
  Threads = {t1, t2}
  Items = {i1, i2, i3}
  head = head
  Null = Null
  Key <- EqualPair
  Ordered = TRUE
  OpsOf <- OneWriterOps
  ItemsOf <- OneWriterItems
  Predicates <- KeyPredicates
  Counts = {1, 5}
  Edits = {0, 3}
  MaxCalls = 2
  LenMod = 4
SPECIFICATION Spec
INVARIANTS
  LenExact
  FindComplete
  LinksAscend
PROPERTIES
  ImplementsAbstractList
  CallsEnd
CHECK_DEADLOCK FALSE
