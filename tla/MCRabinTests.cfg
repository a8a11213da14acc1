SPECIFICATION BothSpec
CONSTANTS
  Alpha = 5
  HalfWord = 16
  MaxExact = 128
  Code <- MCCode
  Terms = {2}
  ModNs = {9}
  Texts <- MCTexts
  Garbage = {0}
  MaxResets = 0
INVARIANTS RollingAlwaysEqualsFingerprint
