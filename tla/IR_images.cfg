SPECIFICATION Spec
CONSTANTS
  t1 = t1  t2 = t2
  Threads <- Two  Targets <- Asked  Routes <- AllRoutes  Images = 7
  ImageName = 1  SizeKey = 2  Sizes <- SizeWords  Dotted <- WithDot
  Disk <- Versions  Shifts <- Offsets  MaxInt = 2
INVARIANTS
  TypeOK
  OwnArguments
  GoodRequestsAreHarmless
  ImageIsWhole
  
