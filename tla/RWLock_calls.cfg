SPECIFICATION FairSpec
CONSTANTS
  t1 = t1
  t2 = t2
  t3 = t3
  t4 = t4
  Threads <- Four
  Timed <- OnePatientWriter
INVARIANTS
  MutualExclusion
  NoStrandedWriter
PROPERTIES
  OnlyTimeoutsStrand
  CallsReturn
  WriterGetsIn
