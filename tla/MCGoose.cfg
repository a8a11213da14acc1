SPECIFICATION Spec
CONSTANTS
  Documents <- MCDocuments
  Pages <- MCPages
  Wanted = {"HEAD", "META"}
  Closed = {"SCRIPT", null}
  MinBoostStopwords = 2
  MaxBoostDistance = 1
  ManyNodes = 2
  BottomShare = 1
  NegativeLimit = 5
  Null = null
INVARIANTS TopNodeIsBest ScoresAreShares KeptVersusCollected TraversalsFollowTheDocument MetaValuesAreTheFirst
PROPERTIES ImplementsScan
CHECK_DEADLOCK FALSE
