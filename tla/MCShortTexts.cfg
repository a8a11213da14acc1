SPECIFICATION BothSpec
CONSTANTS
  Alpha = 5
  HalfWord = 16
  MaxExact = 128
  Code <- MCCode
  Terms = {1, 4}
  ModNs = {8}
  Texts <- MCTexts
  Garbage = {0}
  MaxResets = 0
INVARIANTS ShortTextsAreHashed
