SPECIFICATION Spec
CONSTANTS
  Findings = {f1}
  Oversized = {}
  EnclaveConfig = EnclaveConfig
  None = None
  Capacity = 1
  MaxStarts = 1
  MaxConns = 2
  MaxPosts = 2
INVARIANTS
  FailedTaskIsContained
CHECK_DEADLOCK FALSE
