SPECIFICATION ClientSpec
CONSTANTS
  Servers = {s1, s2}
  Escrows = {e1, e2}
  Findings = {x}
  None = None
  MAX_U64 = 2
  MaxDeposited = 2
  Forms = {form1}
  TheServer = s1
  Budgets = {2}
  NoData = NoData
SYMMETRY Symmetry
CONSTRAINT FewCalls
INVARIANTS
  EscrowIsWithServer
  ThrownByRace
PROPERTY BudgetIsThere
CHECK_DEADLOCK FALSE
