SPECIFICATION Spec
CONSTANTS
  OriginalSize = 4
  ModeID = "top_that"
  HandSize = 1
  DrawPile = 0
  RoundStartCountdown = 5
  PenalizeAbandon = TRUE
  DevEnabled = FALSE
  Closable = TRUE
  Copy <- MCCopy
  DealtHand <- MCDealtHand
  DealtReserve <- MCDealtReserve
  SystemSeeds <- MCSystemSeeds
  PoolDeals <- OneOrder
  TurnOrders <- OneOrder
  DonowerDeals <- FirstSeatDonower
  SpecialtyDeals <- NoSpecialties
  Clients <- Voters
  Droppable <- OneSeat
INVARIANTS CountedBallot
PROPERTIES NoLostAbandon VerdictJustified
CHECK_DEADLOCK FALSE
