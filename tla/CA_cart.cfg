SPECIFICATION Spec
CONSTANTS
  Lists <- Drinks  FirstView = "cocktail"  Suggested = "suggested"
  PoolSize = 2  MaxFetches = 2  MaxPurchases = 1  MaxQuantity = 1
INVARIANTS
  TypeOK
  OnePerProduct
PROPERTIES
  WalkIsExact
  PurchaseIsReported
