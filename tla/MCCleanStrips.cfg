SPECIFICATION Spec
CONSTANTS
  LastPoint = 1114111
  Char <- MCChar
  Letter = {97, 233}
  Width <- MCWidth
  Sentinel = 4
  Bit = {0, 1, 2}
  HashBits <- MCHashBits
  BloomIndexes <- MCBloomIndexes
  RawTexts <- MCRawTexts
  PlainTexts <- MCPlainTexts
INVARIANTS NoExtraSpaces
CHECK_DEADLOCK FALSE
