SPECIFICATION Spec
CONSTANTS
  PatientScripts <- NoScripts
  HastyScripts <- GetScripts
  Capacity = 6
INVARIANT WellFormedIsAccepted
