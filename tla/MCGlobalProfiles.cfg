SPECIFICATION Spec
CONSTANTS
  Thread = {t1, t2}
  Address = {a1, a2}
  Null = null
  Path = {"good", "truncated", "missing"}
  Json = {"document"}
  GramCount = 2
  Readable <- MCReadable
  MaxSamples = 2
INVARIANTS TypeOK DetectUsesOneSnapshot CrashOnlyOnNull NoLeak IncompleteOnlyAfterFailedLoad
PROPERTIES CallsReturn ImplementsAtomicCalls
CHECK_DEADLOCK FALSE
