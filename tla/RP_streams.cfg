SPECIFICATION Spec
CONSTANTS
  PatientScripts <- GoodScripts
  HastyScripts <- MixedScripts
  Capacity = 6
INVARIANTS
  TypeOK
  DispatchFollowsStream
  StaysUp
PROPERTIES
  FramesAreExact
  ServesEveryRequest
