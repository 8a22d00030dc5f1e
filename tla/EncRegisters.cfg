SPECIFICATION FairSpec
CONSTANTS
  MaxRestarts = 3
INVARIANTS
  RightRegister
  ReceivesConfigured
  PhyUndisturbed
PROPERTIES
  DriverReturns
