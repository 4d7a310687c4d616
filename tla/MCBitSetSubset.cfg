\* The documented answer of is_subset.
CONSTANTS
  a = a
  b = b
  Sets = {a, b}
  Indices <- Boundaries
SPECIFICATION Spec
INVARIANT
  SubsetExact
