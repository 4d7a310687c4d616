\* Three threads: the smallest number at which a writer is being granted
\* while another one is half dropped and a reader holds a guard.
CONSTANTS
  Threads = {t1, t2, t3}
  MaxData = 2
SPECIFICATION Spec
INVARIANTS
  TypeOK
  RefsCountGuards
  WriterExclusion
PROPERTIES
  ImplementsAccessLock
  WriterAdmitted
  NeverAbandoned
