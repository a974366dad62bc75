SPECIFICATION Spec
CONSTANTS
  Calls = {c1}
  Requests = {r1}
  Keys = {k1, k2}
  None = None
  Allocation = 2
  Amounts = {1}
  Changes <- UpAndDown
  Routes = {"decide"}
  Fresh = FALSE
  MaxVersion = 2
INVARIANTS
  DecidedAsShown
