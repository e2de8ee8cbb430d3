SPECIFICATION FairSpec
CONSTANTS
  OriginalSize = 4
  ModeID = "make_room"
  HandSize = 1
  DrawPile = 1
  RoundStartCountdown = 5
  PenalizeAbandon = TRUE
  DevEnabled = TRUE
  Closable = FALSE
  Copy <- MCCopy
  DealtHand <- MCDealtHand
  DealtReserve <- MCDealtReserve
  SystemSeeds <- MCSystemSeeds
  PoolDeals <- OneOrder
  TurnOrders <- OneOrder
  DonowerDeals <- TwoDeals
  SpecialtyDeals <- Mixed
  Clients <- Mixing
  Droppable <- NoneOrOne
INVARIANTS Conservation
PROPERTIES MatchEnds AwardsFresh
CHECK_DEADLOCK FALSE
