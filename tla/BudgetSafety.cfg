\* Every route, on a database that is new or was bootstrapped before.
SPECIFICATION Spec
CONSTANTS
  Calls = {c1, c2, c3}
  Requests = {r1}
  Keys = {k1}
  None = None
  Allocation = 2
  Amounts = {1, 2}
  Changes <- UpAndDown
  Routes = {"bootstrap", "adjust", "correct", "settle", "cancel", "decide", "commit", "reconcile"}
  Fresh = TRUE
  MaxVersion = 2
SYMMETRY Symmetry
INVARIANTS
  CommitmentIsAsDecided
  OneDecisionPerVersion
  AnswersAreTrue
  CommitmentsVerify
  PurchaseIsClosedOnce
  OneEffect
  NeverOverdrawn
