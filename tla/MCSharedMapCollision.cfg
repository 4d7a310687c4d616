\* One entry is inserted, and another key of the same hash removed: the entry
\* goes, though its key was given to no removing call.
CONSTANTS
  t1 = t1
  t2 = t2
  i1 = i1
  i2 = i2
  i3 = i3
  i4 = i4
  k1 = k1
  k2 = k2
  k3 = k3
  Threads = {t1, t2}
  Items = {i1, i2, i3, i4}
  Keys = {k1, k2, k3}
  head = head
  Null = Null
  Key <- EntryHashes
  KeyOf <- EntryKeys
  HashOf <- Hashes
  Ordered = TRUE
  OpsOf <- NoOps
  MapOpsOf <- TwoWriters
  KeysOf <- TwoWriterKeys
  ItemsOf <- TwoWriterItems
  Predicates <- Closures
  Counts = {}
  Edits = {}
  MaxCalls = 1
  LenMod = 5
SPECIFICATION MapSpec
PROPERTIES
  OwnKeyOnly
CHECK_DEADLOCK FALSE
