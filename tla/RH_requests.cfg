SPECIFICATION Spec
CONSTANTS
  h1 = h1  h2 = h2  ann = ann  bob = bob  eve = eve  good = good  weak = weak
  rum = rum  lime = lime  Nobody = Nobody  NotAnArray = NotAnArray
  Handlers <- Two  Requests <- All  InitialAccounts <- Known  Acceptable <- Strong
  Products <- Drinks  Ingredients <- AllIngredients  Need <- Amounts
  InitialStock <- Bottles
  MaxSessions = 1  Span = 8  TenDigits = 2  MaxFaults = 1
  Faults = {"memory", "database", "lost", "network"}
INVARIANTS
  TypeOK
  NeverSoldTwice
  AnswerMatchesSales
  AccountsAreOwned
  SessionsAreReturned
  WireHoldsAnswer
PROPERTY EveryHandlerEnds
