SPECIFICATION Spec
CONSTANTS
  Operators = {o1, o2}
  Agents = {a1}
  Scopes = {s1}
  Grants = {g1}
  Proposals = {p1, p2}
  Approvals = {t1}
  Outcomes = {"denied", "held", "executed", "raised"}
  EarlyIds = FALSE
  RecordingFails = FALSE
  WritesFail = FALSE
  MaxRestarts = 1
  None = None
SYMMETRY Symmetry
CHECK_DEADLOCK FALSE
INVARIANTS
  SeparatedForEver
