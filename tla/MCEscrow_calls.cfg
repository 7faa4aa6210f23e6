SPECIFICATION Spec
CONSTANTS
  Servers = {s1, s2}
  Escrows = {e1, e2}
  Findings = {f1, f2}
  None = None
  MAX_U64 = 3
  MaxDeposited = 3
SYMMETRY Symmetry
INVARIANTS
  TypeOK
  CountDrift
  PledgeKept
  FundsConserved
PROPERTIES
  ImplementsCustody
CHECK_DEADLOCK FALSE
