\* Two bit sets over the first four bytes, the third of them always a gap.
CONSTANTS
  a = a
  b = b
  Sets = {a, b}
  Indices <- Boundaries
SPECIFICATION Spec
INVARIANTS
  TypeOK
  ContainsExact
  NoStrayBits
  MatchesExact
  SubsetSound
