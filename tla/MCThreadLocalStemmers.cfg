SPECIFICATION Spec
CONSTANTS
  Thread = {t1, t2}
  Extractor = {x1, x2, x3}
  Code = {"en", "af", "xx"}
  short = short
  stop = stop
  w1 = w1
  Word <- MCWord
  ShortWord = {short}
  StopwordsOf <- MCStopwordsOf
  Key = {k1, k2}
  Manager = {m1, m2}
  Null = null
SYMMETRY Permuted
INVARIANTS ManagersAreThreadLocal LengthIsOfOwnWord LeakOnlyIf KeysAreNotShared CrashOnlyOnUnknown
CHECK_DEADLOCK FALSE
