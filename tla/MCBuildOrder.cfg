SPECIFICATION FairSpec
CONSTANTS
  Name <- MCName
  Alphabet <- MCAlphabet
  NoLibrary = NoLibrary
  Registries <- MCAllRegistries
  RecursionLimit = 5
INVARIANTS
  TypeOK
  CycleVerdict
  PlanClosed
  PlanComplete
  PlanMinimal
  OrderRespectsBase
  RecursionErrorOnlyIfCyclic
  RequestIsPlanned
PROPERTIES
  ImplementsBuildOrderSpec
  Terminates
CHECK_DEADLOCK FALSE
