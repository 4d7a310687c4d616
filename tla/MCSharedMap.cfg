\* One writer beside a reader, that call every method. Four entries of three
\* keys, two of which have the same hash; one call that inserts nothing.
\* A find or a func that panics stops its thread, hence no deadlock check.
CONSTANTS
  t1 = t1
  t2 = t2
  i1 = i1
  i2 = i2
  i3 = i3
  i4 = i4
  k1 = k1
  k2 = k2
  k3 = k3
  Threads = {t1, t2}
  Items = {i1, i2, i3, i4}
  Keys = {k1, k2, k3}
  head = head
  Null = Null
  Key <- EntryHashes
  KeyOf <- EntryKeys
  HashOf <- Hashes
  Ordered = TRUE
  OpsOf <- NoOps
  MapOpsOf <- OneWriter
  KeysOf <- OneWriterKeys
  ItemsOf <- OneWriterItems
  Predicates <- Closures
  Counts = {}
  Edits = {}
  MaxCalls = 1
  LenMod = 5
SPECIFICATION MapSpec
INVARIANTS
  WriterAnswers
  ReaderAnswers
  ComputeNeverPanics
PROPERTIES
  ImplementsAbstractMap
  MapCallsEnd
CHECK_DEADLOCK FALSE
