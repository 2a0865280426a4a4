SPECIFICATION Spec
CONSTANTS
  b1 = b1  b2 = b2  ann = ann  bob = bob  eve = eve  mojito = mojito
  daiquiri = daiquiri  shake = shake  water = water  rum = rum  lime = lime
  Backends <- TwoBackends  Users <- AllUsers  Accounts <- Registered
  Products <- AllProducts  Ingredients <- AllIngredients
  Recipe <- Rows  Need <- Amounts  InitialStock <- Bottles  Calls <- Orders
  MaxInt = 2  Nobody = Nobody  Null = Null
INVARIANT StockReflectsSales
