SPECIFICATION Spec
CONSTANTS
  Servers = {s1}
  Escrows = {e1}
  Findings = {f1}
  None = None
  MAX_U64 = 2
  MaxDeposited = 1
INVARIANTS
  LockCanBeReleased
CHECK_DEADLOCK FALSE
