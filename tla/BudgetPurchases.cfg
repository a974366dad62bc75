SPECIFICATION Spec
CONSTANTS
  Calls = {c1, c2, c3, c4}
  Requests = {r1, r2}
  Keys = {k1, k2}
  None = None
  Allocation = 2
  Amounts = {1, 2}
  Changes <- UpAndDown
  Routes = {"decide", "commit", "cancel"}
  Fresh = FALSE
  MaxVersion = 1
SYMMETRY Symmetry
PROPERTIES
  ImplementsFund
