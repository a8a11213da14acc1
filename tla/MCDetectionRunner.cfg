SPECIFICATION Spec
CONSTANTS
  Texts <- MCTexts
  Langs <- MCLangs
  Unknown = "unknown"
  Score <- MCScore
  Alphas = {1, 2}
  Trials = 3
  Period = 2
  Limit = 1
  Share <- MCShare
INVARIANTS SamplesStayInside EvidenceDecides
PROPERTIES DetectionEnds
CHECK_DEADLOCK FALSE
