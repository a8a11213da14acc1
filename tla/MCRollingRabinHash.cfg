SPECIFICATION BothSpec
CONSTANTS
  Alpha = 5
  HalfWord = 16
  MaxExact = 128
  Code <- MCCode
  Terms = {1, 2, 4}
  ModNs = {8, 9}
  Texts <- MCTexts
  Garbage = {0, 2}
  MaxResets = 1
INVARIANTS RollingEqualsFingerprint QueueHoldsWindow EndsAtLastWindow SingleLengthAgrees
PROPERTIES LoopEnds
