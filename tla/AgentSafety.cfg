SPECIFICATION Spec
CONSTANTS
  Operators = {o1, o2}
  Agents = {o1}
  Scopes = {s1, s2}
  Grants = {g1, g2}
  Proposals = {p1, p2}
  Approvals = {t1}
  Outcomes = {"denied", "held", "executed", "raised"}
  EarlyIds = TRUE
  RecordingFails = TRUE
  WritesFail = TRUE
  MaxRestarts = 1
  None = None
SYMMETRY Symmetry
CHECK_DEADLOCK FALSE
INVARIANTS
  ConsumedIsAccepted
  SeparatedThisLife
PROPERTIES
  UsedIsSpent
