SPECIFICATION Spec
CONSTANTS
  OriginalSize = 4
  ModeID = "bad_bargains"
  HandSize = 1
  DrawPile = 0
  RoundStartCountdown = 0
  PenalizeAbandon = FALSE
  DevEnabled = FALSE
  Closable = FALSE
  Copy <- MCCopy
  DealtHand <- MCDealtHand
  DealtReserve <- MCDealtReserve
  SystemSeeds <- MCSystemSeeds
  PoolDeals <- OneOrder
  TurnOrders <- OneOrder
  DonowerDeals <- TwoDeals
  SpecialtyDeals <- ShuffleOnly
  Clients <- Traders
  Droppable <- OneOrAll
INVARIANTS SnapshotValid HandlerCompletes
PROPERTIES FollowsCards
CHECK_DEADLOCK FALSE
