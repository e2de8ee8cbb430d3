SPECIFICATION BillingSpec
CONSTANTS
  coins = coins
  monthly = monthly
  yearly = yearly
  apple = apple
  Items = {coins, monthly, yearly, apple}
  Product <- MCProduct
  Platform <- MCPlatform
  Replaces <- MCReplaces
  Plans <- MCPlans
  Noin = 1
  Price = 1
  Cap = 1
  Slots = 2
  Callers = {1, 2}
  Worker = 2
  Period = 1
INVARIANTS PurseExact NeverStuck PremiumInForce
CHECK_DEADLOCK FALSE
