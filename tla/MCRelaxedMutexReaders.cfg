\* The documented exclusion of readers, on the smallest instance.
CONSTANTS
  Threads = {t1, t2}
  MaxData = 1
SPECIFICATION Spec
INVARIANT
  ReadersExcluded
