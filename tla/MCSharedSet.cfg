\* Two threads call every method: two values, one call of contains or remove.
CONSTANTS
  i1 = i1
  i2 = i2
  k1 = k1
  k2 = k2
  Threads = {t1, t2}
  Items = {i1, i2}
  Keys = {k1, k2}
  head = head
  Null = Null
  Key <- EntryHashes
  KeyOf <- EntryKeys
  HashOf <- Hashes
  Ordered = TRUE
  OpsOf <- NoOps
  MapOpsOf <- AllOps
  KeysOf <- AllKeys
  ItemsOf <- AllItems
  Predicates <- Closures
  Counts = {}
  Edits = {}
  MaxCalls = 1
  LenMod = 4
SPECIFICATION SetSpec
PROPERTY
  SetCallsEnd
CHECK_DEADLOCK FALSE
