SPECIFICATION FairSpec
CONSTANTS
  Values = {zero, one}
  zero = zero
  one = one
  Zero = zero
  None = None
  MaxOps = 3
  MaxCrashes = 2
INVARIANTS
  WireInv
  InStep
PROPERTIES
  EventuallyReturns
  ImplementsBus
